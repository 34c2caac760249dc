------------------------ MODULE ArchivePipelineProofs ------------------------
(***************************************************************************)
(* Proofs about ArchivePipeline, for any archives, job slots, batches and  *)
(* retry limits.                                                           *)
(*                                                                         *)
(* NothingIsLost needs to know what each running job can rely on: an       *)
(* unpacker on the zip until it deletes it and on its csv once it has      *)
(* extracted it, an import on the whole csv it has opened, even if its     *)
(* name is gone.  None of this holds of a disturbed archive.               *)
(***************************************************************************)
EXTENDS ArchivePipeline, TLAPS

RunsUnpack(j) == job[j].at \in Unpacks \ {"toUnpack"}

Calm == Archive \ (disturbed \cup dropped)

\* Two unpackers of one archive disturb it.
OneUnpacker ==
    \A j, k \in Job :
        /\ RunsUnpack(j) /\ RunsUnpack(k)
        /\ File(j) = File(k)
        /\ File(j) \notin disturbed
        => j = k

\* Only a running download writes a zip, and until it ends the zip is not whole.
ZipWriters ==
    \A f \in Archive :
        /\ zipWriter[f] # Nobody =>
              /\ job[zipWriter[f]].at = "writing"
              /\ File(zipWriter[f]) = f
        /\ zipWriter[f] # Nobody => zip[f] \in {"empty", "part"}

\* Only a running extraction writes a csv.
CsvWriters ==
    \A f \in Archive :
        csvWriter[f] # Nobody =>
            /\ job[csvWriter[f]].at = "extracting"
            /\ File(csvWriter[f]) = f
            /\ csv[f] = "part"

\* A download still has its file under its name.
DownloadsOwn ==
    \A j \in Job :
        job[j].at = "writing" /\ File(j) \notin disturbed => WritesZip(j)

\* Until an unpacker ends, its zip is there.
UnpacksHaveZip ==
    \A j \in Job :
        RunsUnpack(j) /\ File(j) \notin disturbed => zip[File(j)] = "whole"

\* What a job takes the csv, and what is stored, to be.
TrustsCsv(j) ==
    /\ job[j].at = "extracting" => WritesCsv(j) \/ stored[File(j)] = Batches
    /\ job[j].at \in {"extracted", "found", "enqueued"} =>
          csv[File(j)] = "whole" \/ stored[File(j)] = Batches
    /\ job[j].at = "reading" =>
          job[j].size = Batches /\ job[j].done <= stored[File(j)]
    /\ job[j].at = "cleaning" => stored[File(j)] = Batches

CsvTrusted == \A j \in Job : File(j) \in Calm => TrustsCsv(j)

IInv ==
    /\ TypeOK
    /\ OneUnpacker
    /\ ZipWriters
    /\ CsvWriters
    /\ DownloadsOwn
    /\ UnpacksHaveZip
    /\ CsvTrusted
    /\ UndisturbedLogIsTrue

-----------------------------------------------------------------------------
(* Types *)

\* A job waits in a queue, or has ended and stays so.
LEMMA QueueOfType ==
    \A p \in Places : IF p = "free" THEN QueueOf(p) = "free" ELSE QueueOf(p) \in Queued
BY DEF QueueOf, Places, Queued, Downloads, Unpacks, Imports

\* A job record built by JobAt has its type.
LEMMA JobAtType ==
    ASSUME NEW f \in Archive, NEW p \in Places, NEW t \in Nat
    PROVE  JobAt(f, p, t) \in JobRecord
BY ArchiveAssumption DEF JobAt, JobRecord

\* So has a new one.
LEMMA FreshType ==
    ASSUME NEW f \in Archive, NEW p \in Places
    PROVE  Fresh(f, p) \in JobRecord
BY JobAtType DEF Fresh

\* The steps of a job keep the jobs' type: going on,
LEMMA MoveToType ==
    ASSUME TypeOK, NEW j \in Job, NEW p \in Places, MoveTo(j, p)
    PROVE  job' \in [Job -> JobRecord]
BY JobAtType DEF MoveTo, TypeOK, File, JobRecord

\* ending,
LEMMA SucceedType ==
    ASSUME TypeOK, NEW j \in Job, Succeed(j)
    PROVE  job' \in [Job -> JobRecord]
BY FreshType DEF Succeed, TypeOK, File, JobRecord, Places

\* and being enqueued.
LEMMA EnqueueType ==
    ASSUME TypeOK, NEW j \in Job, NEW f \in Archive, NEW p \in Places, Enqueue(j, f, p)
    PROVE  job' \in [Job -> JobRecord]
BY FreshType DEF Enqueue, TypeOK

\* The archive of a job is an archive.
LEMMA FileType == TypeOK => \A j \in Job : File(j) \in Archive
BY DEF TypeOK, File, JobRecord

\* Letting go of files keeps the writers' type.
LEMMA WithoutType ==
    ASSUME NEW w \in [Archive -> Job \cup {Nobody}], NEW J
    PROVE  Without(w, J) \in [Archive -> Job \cup {Nobody}]
BY DEF Without

\* Types are inductive.
LEMMA TypesInductive == TypeOK /\ [Next]_vars => TypeOK'
<1> SUFFICES ASSUME TypeOK, [Next]_vars PROVE TypeOK'
  OBVIOUS
<1> USE ArchiveAssumption, FileType DEF Places, Queued, Downloads, Unpacks, Imports
<1>1. ASSUME NEW j \in Job, NEW f \in Archive, Operator(j, f) PROVE TypeOK'
  <2>1. job' \in [Job -> JobRecord]
    BY <1>1, EnqueueType
    DEF Operator, RequestDownload, RequestProcessing, RequestDeletion
  <2> QED
    BY <1>1, <2>1
    DEF Operator, RequestDownload, RequestProcessing, RequestDeletion, TypeOK, files
<1>2. ASSUME NEW j \in Job, Download(j) PROVE TypeOK'
  <2>1. job' \in [Job -> JobRecord]
    <3>1. WriteZip(j) => UNCHANGED job
      BY DEF WriteZip
    <3>2. ~WriteZip(j) => Succeed(j) \/ MoveTo(j, "writing")
      BY <1>2
      DEF Download, SkipDownload, OpenZip, FinishZip, FinishUnlinked, NothingToDownload
    <3> QED
      BY <3>1, <3>2, MoveToType, SucceedType DEF TypeOK
  <2>2. /\ zip' \in [Archive -> Content]
        /\ zipWriter' \in [Archive -> Job \cup {Nobody}]
    BY <1>2, WithoutType
    DEF Download, SkipDownload, OpenZip, WriteZip, FinishZip, FinishUnlinked,
        NothingToDownload, TypeOK, files, DeleteZip, Content
  <2>3. UNCHANGED <<csv, csvWriter, stored, log, dropped, disturbed>>
    BY <1>2
    DEF Download, SkipDownload, OpenZip, WriteZip, FinishZip, FinishUnlinked,
        NothingToDownload, files
  <2> QED
    BY <2>1, <2>2, <2>3 DEF TypeOK
<1>3. ASSUME NEW j \in Job, Unpack(j) PROVE TypeOK'
  <2>1. job' \in [Job -> JobRecord]
    <3>1. ASSUME NEW k \in Job, EnqueueImport(j, k) PROVE job' \in [Job -> JobRecord]
      BY <3>1, FreshType, JobAtType DEF EnqueueImport, TypeOK, JobRecord
    <3>2. (\A k \in Job : ~EnqueueImport(j, k)) =>
             Succeed(j) \/ \E p \in Places : MoveTo(j, p)
      BY <1>3
      DEF Unpack, SkipUnpacking, CheckZip, ClearDirectory, StartExtraction,
          FinishExtraction, FindCsv, RemoveZip
    <3> QED
      BY <3>1, <3>2, MoveToType, SucceedType
  <2>2. /\ zip' \in [Archive -> Content]
        /\ csv' \in [Archive -> Content \ {"empty"}]
        /\ zipWriter' \in [Archive -> Job \cup {Nobody}]
        /\ csvWriter' \in [Archive -> Job \cup {Nobody}]
    BY <1>3, WithoutType
    DEF Unpack, SkipUnpacking, CheckZip, ClearDirectory, StartExtraction,
        FinishExtraction, FindCsv, EnqueueImport, RemoveZip, TypeOK, files,
        DeleteZip, DeleteCsv, Content
  <2>3. UNCHANGED <<stored, log, dropped>> /\ disturbed' \subseteq Archive
    BY <1>3
    DEF Unpack, SkipUnpacking, CheckZip, ClearDirectory, StartExtraction,
        FinishExtraction, FindCsv, EnqueueImport, RemoveZip, Disturb, TypeOK
  <2> QED
    BY <2>1, <2>2, <2>3 DEF TypeOK
<1>4. ASSUME NEW j \in Job, Import(j) PROVE TypeOK'
  <2>1. job' \in [Job -> JobRecord]
    <3>1. ASSUME NEW n \in 0 .. Batches, OpenCsv(j, n) PROVE job' \in [Job -> JobRecord]
      BY <3>1, JobAtType DEF OpenCsv, TypeOK, JobRecord
    <3>2. CASE InsertBatch(j)
      BY <3>2 DEF InsertBatch, HasMore, TypeOK, JobRecord
    <3>3. CASE RecordImported(j)
      BY <3>3, MoveToType DEF RecordImported
    <3>4. CASE RemoveDirectory(j)
      BY <3>4, SucceedType DEF RemoveDirectory
    <3> QED
      BY <1>4, <3>1, <3>2, <3>3, <3>4 DEF Import
  <2>2. UNCHANGED <<zip, zipWriter, dropped>> /\ disturbed' \subseteq Archive
    BY <1>4
    DEF Import, OpenCsv, InsertBatch, RecordImported, RemoveDirectory, Disturb,
        TypeOK, files
  <2>3. /\ csv' \in [Archive -> Content \ {"empty"}]
        /\ csvWriter' \in [Archive -> Job \cup {Nobody}]
        /\ log' \subseteq Archive
    BY <1>4
    DEF Import, OpenCsv, InsertBatch, RecordImported, RemoveDirectory, DeleteCsv,
        TypeOK, files, Content
  <2>4. stored' \in [Archive -> 0 .. Batches]
    <3>1. CASE InsertBatch(j)
      BY <3>1 DEF InsertBatch, HasMore, TypeOK, JobRecord
    <3>2. CASE ~InsertBatch(j)
      BY <1>4, <3>2 DEF Import, OpenCsv, RecordImported, RemoveDirectory, TypeOK
    <3> QED
      BY <3>1, <3>2
  <2> QED
    BY <2>1, <2>2, <2>3, <2>4 DEF TypeOK
<1>5. ASSUME NEW j \in Job, DeleteFile(j) PROVE TypeOK'
  BY <1>5, SucceedType DEF DeleteFile, DeleteZip, Disturb, TypeOK, Content
<1>6. ASSUME NEW j \in Job, Throws(j) PROVE TypeOK'
  <2>1. job' \in [Job -> JobRecord]
    <3>1. job[j] \in JobRecord /\ File(j) \in Archive
      BY DEF TypeOK
    <3>2. job[j].at \in Places /\ job[j].at # "free" /\ job[j].tries \in Nat
      BY <1>6, <3>1 DEF Throws, JobRecord
    <3>3. QueueOf(job[j].at) \in Places
      BY <3>2, QueueOfType
    <3>4. /\ JobAt(File(j), QueueOf(job[j].at), job[j].tries + 1) \in JobRecord
          /\ Fresh(File(j), "free") \in JobRecord
      BY <3>1, <3>2, <3>3, JobAtType, FreshType
    <3> HIDE DEF Places, Queued, Downloads, Unpacks, Imports
    <3> QED
      BY <1>6, <3>4 DEF Throws, TypeOK
  <2>2. /\ zip' \in [Archive -> Content]
        /\ zipWriter' \in [Archive -> Job \cup {Nobody}]
        /\ csvWriter' \in [Archive -> Job \cup {Nobody}]
    BY <1>6, WithoutType DEF Throws, TypeOK, Content
  <2> QED
    BY <1>6, <2>1, <2>2 DEF Throws, TypeOK
<1>7. CASE Kill
  BY <1>7, QueueOfType, WithoutType, JobAtType DEF Kill, TypeOK, JobRecord
<1>8. ASSUME NEW f \in Archive, Rotate(f) PROVE TypeOK'
  BY <1>8 DEF Rotate, TypeOK, files
<1>9. CASE UNCHANGED vars
  BY <1>9 DEF vars, files, TypeOK
<1> QED
  BY <1>1, <1>2, <1>3, <1>4, <1>5, <1>6, <1>7, <1>8, <1>9 DEF Next

\* Every variable keeps its type.
THEOREM ArchiveTypes == Spec => []TypeOK
<1>1. Init => TypeOK
  BY ArchiveAssumption, FreshType DEF Init, TypeOK, Places, Content
<1> QED
  BY <1>1, TypesInductive, PTL DEF Spec

-----------------------------------------------------------------------------
(* What the helpers do to the jobs *)

\* A job that goes on starts its next place with nothing opened or inserted.
LEMMA MoveToMeans ==
    ASSUME TypeOK, NEW j \in Job, NEW p, MoveTo(j, p)
    PROVE  /\ job'[j].at = p /\ job'[j].file = job[j].file
           /\ job'[j].size = 0 /\ job'[j].done = 0
           /\ \A k \in Job \ {j} : job'[k] = job[k]
BY DEF MoveTo, JobAt, File, TypeOK

\* A job that succeeds frees its slot.
LEMMA SucceedMeans ==
    ASSUME TypeOK, NEW j \in Job, Succeed(j)
    PROVE  /\ job'[j].at = "free" /\ job'[j].file = job[j].file
           /\ \A k \in Job \ {j} : job'[k] = job[k]
BY DEF Succeed, Fresh, JobAt, File, TypeOK

\* A new job takes a free slot.
LEMMA EnqueueMeans ==
    ASSUME TypeOK, NEW j \in Job, NEW f, NEW p, Enqueue(j, f, p)
    PROVE  /\ job[j].at = "free" /\ job'[j].at = p /\ job'[j].file = f
           /\ \A k \in Job \ {j} : job'[k] = job[k]
BY DEF Enqueue, Fresh, JobAt, TypeOK

\* Deleting a zip touches the zip of this archive only.
LEMMA DeleteZipMeans ==
    ASSUME TypeOK, NEW f \in Archive, DeleteZip(f)
    PROVE  /\ zip'[f] = "none" /\ zipWriter'[f] = Nobody
           /\ \A g \in Archive \ {f} : zip'[g] = zip[g] /\ zipWriter'[g] = zipWriter[g]
BY DEF DeleteZip, TypeOK

\* Deleting a csv touches the csv of this archive only.
LEMMA DeleteCsvMeans ==
    ASSUME TypeOK, NEW f \in Archive, DeleteCsv(f)
    PROVE  /\ csv'[f] = "none" /\ csvWriter'[f] = Nobody
           /\ \A g \in Archive \ {f} : csv'[g] = csv[g] /\ csvWriter'[g] = csvWriter[g]
BY DEF DeleteCsv, TypeOK

\* Jobs that wait in a queue, or have ended, rely on nothing.
Idle == {"free"} \cup Queued

\* A job that starts again is idle.
LEMMA IdleType == \A p \in Places : QueueOf(p) \in Idle
BY QueueOfType DEF Idle

-----------------------------------------------------------------------------
(* The invariant is inductive *)

\* A new job in a queue changes nothing for the others.
LEMMA OperatorKeeps ==
    ASSUME IInv, TypeOK', NEW j \in Job, NEW f \in Archive, Operator(j, f)
    PROVE  IInv'
<1> DEFINE p == job'[j].at
<1>1. /\ job[j].at = "free" /\ p \in Queued /\ job'[j].file = f
      /\ \A k \in Job \ {j} : job'[k] = job[k]
  BY EnqueueMeans
  DEF IInv, Operator, RequestDownload, RequestProcessing, RequestDeletion, Queued
<1>2. UNCHANGED <<zip, csv, zipWriter, csvWriter, stored, log, dropped, disturbed>>
  BY DEF Operator, RequestDownload, RequestProcessing, RequestDeletion, files
<1> QED
  BY <1>1, <1>2, ArchiveAssumption
  DEF IInv, TypeOK, OneUnpacker, ZipWriters, CsvWriters, DownloadsOwn, UnpacksHaveZip,
      CsvTrusted, TrustsCsv, UndisturbedLogIsTrue, RunsUnpack, Calm, File, WritesZip,
      WritesCsv, Queued, Unpacks

\* No other job does anything, or one is new.
OthersKeepOn(j) ==
    \A k \in Job \ {j} :
        \/ job'[k] = job[k]
        \/ job[k].at = "free" /\ job'[k].at = "toImport"

\* A job's step that touches the zip of its archive only.
LEMMA ZipFrame ==
    ASSUME IInv, TypeOK', NEW f \in Archive, NEW j \in Job,
           job[j].file = f, job'[j].file = f,
           OthersKeepOn(j),
           \A g \in Archive \ {f} : zip'[g] = zip[g] /\ zipWriter'[g] = zipWriter[g],
           disturbed \subseteq disturbed',
           \/ zipWriter'[f] = Nobody
           \/ zipWriter'[f] = j /\ job'[j].at = "writing" /\ zip'[f] \in {"empty", "part"}
           \/ zipWriter'[f] = zipWriter[f] /\ zipWriter[f] # j /\ zip'[f] = zip[f],
           f \notin disturbed' /\ job'[j].at = "writing" => zipWriter'[f] = j,
           f \notin disturbed' /\ RunsUnpack(j)' => zip'[f] = "whole",
           \A k \in Job \ {j} : job[k].file = f /\ f \notin disturbed' =>
               /\ job[k].at = "writing" => zipWriter'[f] = k
               /\ RunsUnpack(k) => zip'[f] = "whole"
    PROVE  ZipWriters' /\ DownloadsOwn' /\ UnpacksHaveZip'
<1>1. ZipWriters'
  <2> SUFFICES ASSUME NEW g \in Archive, zipWriter'[g] # Nobody
               PROVE  /\ job'[zipWriter'[g]].at = "writing"
                      /\ job'[zipWriter'[g]].file = g
                      /\ zip'[g] \in {"empty", "part"}
    BY DEF ZipWriters, File
  <2>1. CASE g = f
    <3>1. CASE zipWriter'[f] = zipWriter[f] /\ zipWriter[f] # j /\ zip'[f] = zip[f]
      BY <2>1, <3>1 DEF IInv, ZipWriters, File, TypeOK, OthersKeepOn
    <3> QED
      BY <2>1, <3>1
  <2>2. CASE g # f
    <3>1. zipWriter'[g] = zipWriter[g] /\ zip'[g] = zip[g]
      BY <2>2
    <3>2. /\ zipWriter[g] \in Job
          /\ job[zipWriter[g]].at = "writing" /\ job[zipWriter[g]].file = g
          /\ zip[g] \in {"empty", "part"}
      BY <3>1 DEF IInv, ZipWriters, File, TypeOK
    <3> QED
      BY <3>1, <3>2, <2>2 DEF OthersKeepOn
  <2> QED
    BY <2>1, <2>2
<1>2. DownloadsOwn'
  <2> SUFFICES ASSUME NEW k \in Job, job'[k].at = "writing", job'[k].file \notin disturbed'
               PROVE  zipWriter'[job'[k].file] = k
    BY DEF DownloadsOwn, File, WritesZip
  <2>1. CASE k = j
    BY <2>1
  <2>2. CASE k # j
    <3>1. job'[k] = job[k] /\ job[k].file \in Archive
      BY <2>2 DEF IInv, TypeOK, JobRecord, OthersKeepOn
    <3>2. job[k].file # f => zipWriter[job[k].file] = k
      BY <3>1 DEF IInv, DownloadsOwn, File, WritesZip
    <3> QED
      BY <3>1, <3>2, <2>2
  <2> QED
    BY <2>1, <2>2
<1>3. UnpacksHaveZip'
  <2> SUFFICES ASSUME NEW k \in Job, RunsUnpack(k)', job'[k].file \notin disturbed'
               PROVE  zip'[job'[k].file] = "whole"
    BY DEF UnpacksHaveZip, File
  <2>1. CASE k = j
    BY <2>1
  <2>2. CASE k # j
    <3>1. job'[k] = job[k] /\ job[k].file \in Archive /\ RunsUnpack(k)
      BY <2>2 DEF IInv, TypeOK, JobRecord, RunsUnpack, Unpacks, OthersKeepOn
    <3>2. job[k].file # f => zip[job[k].file] = "whole"
      BY <3>1 DEF IInv, UnpacksHaveZip, File
    <3> QED
      BY <3>1, <3>2
  <2> QED
    BY <2>1, <2>2
<1> QED
  BY <1>1, <1>2, <1>3

\* A job's step that touches its csv and what is stored of its archive.
LEMMA CsvFrame ==
    ASSUME IInv, TypeOK', NEW f \in Archive, NEW j \in Job,
           job[j].file = f, job'[j].file = f,
           OthersKeepOn(j),
           \A g \in Archive \ {f} :
               csv'[g] = csv[g] /\ csvWriter'[g] = csvWriter[g] /\ stored'[g] = stored[g],
           disturbed \subseteq disturbed', dropped \subseteq dropped',
           \/ csvWriter'[f] = Nobody
           \/ csvWriter'[f] = j /\ job'[j].at = "extracting" /\ csv'[f] = "part"
           \/ csvWriter'[f] = csvWriter[f] /\ csvWriter[f] # j /\ csv'[f] = csv[f],
           f \in Calm' =>
               /\ TrustsCsv(j)'
               /\ \A k \in Job \ {j} :
                      job'[k].file = f /\ job'[k].at # "toImport" => TrustsCsv(k)'
    PROVE  CsvWriters' /\ CsvTrusted'
<1>1. CsvWriters'
  <2> SUFFICES ASSUME NEW g \in Archive, csvWriter'[g] # Nobody
               PROVE  /\ job'[csvWriter'[g]].at = "extracting"
                      /\ job'[csvWriter'[g]].file = g
                      /\ csv'[g] = "part"
    BY DEF CsvWriters, File
  <2>1. CASE csvWriter'[g] = csvWriter[g] /\ csvWriter[g] # j /\ csv'[g] = csv[g]
    <3>1. /\ csvWriter[g] \in Job
          /\ job[csvWriter[g]].at = "extracting" /\ job[csvWriter[g]].file = g
          /\ csv[g] = "part"
      BY <2>1 DEF IInv, CsvWriters, File, TypeOK
    <3> QED
      BY <3>1, <2>1 DEF OthersKeepOn
  <2>2. g # f => csvWriter[g] # j
    BY DEF IInv, CsvWriters, File
  <2> QED
    BY <2>1, <2>2
<1>2. CsvTrusted'
  <2> SUFFICES ASSUME NEW k \in Job, job'[k].file \in Calm'
               PROVE  TrustsCsv(k)'
    BY DEF CsvTrusted, File
  <2>1. CASE job'[k].at = "toImport"
    BY <2>1 DEF TrustsCsv
  <2>2. CASE job'[k].file # f /\ job'[k].at # "toImport"
    <3>1. job'[k] = job[k] /\ k # j
      BY <2>2 DEF OthersKeepOn
    <3>2. job[k].file \in Calm /\ job[k].file # f
      BY <3>1, <2>2 DEF Calm
    <3>3. TrustsCsv(k)
      BY <3>2 DEF IInv, CsvTrusted, File
    <3> QED
      BY <3>1, <3>2, <3>3 DEF TrustsCsv, File, WritesCsv, Calm
  <2> QED
    BY <2>1, <2>2
<1> QED
  BY <1>1, <1>2

\* A step that starts no unpacking, or the only one of its archive, keeps
\* the unpackers apart.
LEMMA UnpackerFrame ==
    ASSUME IInv, NEW j \in Job, job'[j].file = job[j].file,
           OthersKeepOn(j),
           disturbed \subseteq disturbed',
           RunsUnpack(j)' /\ job[j].file \notin disturbed' =>
               RunsUnpack(j) \/ ~UnpackedByOthers(j)
    PROVE  OneUnpacker'
<1> SUFFICES ASSUME NEW k \in Job, NEW l \in Job, RunsUnpack(k)', RunsUnpack(l)',
                    job'[k].file = job'[l].file, job'[k].file \notin disturbed'
             PROVE  k = l
  BY DEF OneUnpacker, File
<1>1. \A m \in Job \ {j} : RunsUnpack(m)' => RunsUnpack(m) /\ job'[m] = job[m]
  BY DEF OthersKeepOn, RunsUnpack, Unpacks
<1>2. CASE k # j /\ l # j
  BY <1>1, <1>2 DEF IInv, OneUnpacker, File
<1>3. ASSUME NEW m \in Job \ {j}, RunsUnpack(m)', RunsUnpack(j)',
             job'[m].file = job'[j].file, job'[j].file \notin disturbed'
      PROVE  FALSE
  <2>1. RunsUnpack(m) /\ job[m].file = job[j].file
    BY <1>1, <1>3
  <2>2. UnpackedByOthers(j)
    BY <2>1 DEF UnpackedByOthers, RunsUnpack, File
  <2>3. RunsUnpack(j)
    BY <2>2, <1>3
  <2> QED
    BY <2>1, <2>3, <1>3 DEF IInv, OneUnpacker, File
<1> QED
  BY <1>2, <1>3

\* A download writes its own zip, and no unpacker has checked it yet.
LEMMA DownloadKeeps ==
    ASSUME IInv, TypeOK', NEW j \in Job, Download(j)
    PROVE  IInv'
<1> DEFINE f == job[j].file
<1>0. f \in Archive /\ j # Nobody
  BY ArchiveAssumption DEF IInv, TypeOK, JobRecord
<1>1. /\ job[j].at \in Downloads
      /\ job'[j].file = f
      /\ job'[j].at \in {"free", "writing"}
      /\ \A k \in Job \ {j} : job'[k] = job[k]
      /\ UNCHANGED <<csv, csvWriter, stored, log, dropped, disturbed>>
  BY SucceedMeans, MoveToMeans
  DEF Download, SkipDownload, OpenZip, WriteZip, FinishZip, FinishUnlinked,
      NothingToDownload, files, IInv, Downloads
<1>2. OneUnpacker'
  BY <1>1 DEF IInv, OneUnpacker, RunsUnpack, File, Unpacks, Downloads
<1>3. CsvWriters' /\ CsvTrusted'
  BY <1>1 DEF IInv, CsvWriters, CsvTrusted, TrustsCsv, File, WritesCsv, Calm, TypeOK,
              Downloads
<1>4. UndisturbedLogIsTrue'
  BY <1>1 DEF IInv, UndisturbedLogIsTrue
<1>5. ZipWriters' /\ DownloadsOwn' /\ UnpacksHaveZip'
  <2>1. /\ \A k \in Job : job[k].file = f /\ f \notin disturbed =>
              /\ job[k].at = "writing" => zipWriter[f] = k
              /\ RunsUnpack(k) => zip[f] = "whole"
        /\ zipWriter[f] # Nobody => zip[f] \in {"empty", "part"}
        /\ zipWriter[f] = j => job[j].at = "writing"
    BY <1>0 DEF IInv, ZipWriters, DownloadsOwn, UnpacksHaveZip, File, WritesZip
  <2>2. /\ ~RunsUnpack(j)' /\ job'[j].file = f
        /\ OthersKeepOn(j)
        /\ disturbed' = disturbed
    <3>1. ~RunsUnpack(j)'
      BY <1>1 DEF RunsUnpack, Unpacks
    <3> QED
      BY <1>1, <3>1 DEF OthersKeepOn
  <2>3. CASE SkipDownload(j)
    <3>1. job'[j].at = "free" /\ job[j].at = "toDownload" /\ UNCHANGED <<zip, zipWriter>>
      BY <2>3, SucceedMeans DEF SkipDownload, files, IInv
    <3>2. zipWriter[f] # j
      BY <2>1, <3>1
    <3> QED
      BY <2>1, <2>2, <3>1, <3>2, <1>0, ZipFrame
  <2>4. CASE OpenZip(j)
    <3>1. /\ job[j].at = "toDownload" /\ job'[j].at = "writing"
          /\ zipWriter[f] = Nobody /\ zip[f] # "whole"
          /\ zip'[f] = "empty" /\ zipWriter'[f] = j
          /\ \A g \in Archive \ {f} : zip'[g] = zip[g] /\ zipWriter'[g] = zipWriter[g]
      BY <2>4, <1>0, MoveToMeans DEF OpenZip, File, IInv, TypeOK
    <3>2. \A k \in Job \ {j} : job[k].file = f /\ f \notin disturbed =>
              job[k].at # "writing" /\ ~RunsUnpack(k)
      BY <2>1, <3>1, ArchiveAssumption
    <3> QED
      BY <2>2, <3>1, <3>2, <1>0, ZipFrame
  <2>5. CASE WriteZip(j)
    <3>1. /\ zip'[f] = "part" /\ zipWriter[f] = j /\ UNCHANGED <<zipWriter, job>>
          /\ job[j].at = "writing"
          /\ \A g \in Archive \ {f} : zip'[g] = zip[g]
      BY <2>5, <1>0 DEF WriteZip, WritesZip, File, IInv, TypeOK
    <3>2. \A k \in Job \ {j} : job[k].file = f /\ f \notin disturbed =>
              job[k].at # "writing" /\ ~RunsUnpack(k)
      BY <2>1, <3>1, <1>0
    <3> QED
      BY <2>2, <3>1, <3>2, <1>0, ZipFrame
  <2>6. CASE FinishZip(j)
    <3>1. /\ zip'[f] = "whole" /\ zipWriter[f] = j /\ zipWriter'[f] = Nobody
          /\ job'[j].at = "free"
          /\ \A g \in Archive \ {f} : zip'[g] = zip[g]
      BY <2>6, <1>0, SucceedMeans DEF FinishZip, WritesZip, File, IInv, TypeOK, Without
    <3>2. \A k \in Job \ {j} : job[k].file = f /\ f \notin disturbed => job[k].at # "writing"
      BY <2>1, <3>1, <1>0
    <3>3. \A g \in Archive \ {f} : zipWriter'[g] = zipWriter[g]
      <4> SUFFICES ASSUME NEW g \in Archive, g # f PROVE zipWriter'[g] = zipWriter[g]
        OBVIOUS
      <4>1. zipWriter[g] # j
        BY <1>0 DEF IInv, ZipWriters, File
      <4> QED
        BY <4>1, <2>6 DEF FinishZip, Without
    <3> QED
      BY <2>2, <3>1, <3>2, <3>3, <1>0, ZipFrame
  <2>7. CASE FinishUnlinked(j)
    <3>1. f \in disturbed /\ job'[j].at = "free" /\ zipWriter[f] # j
      BY <2>7, <2>1, SucceedMeans DEF FinishUnlinked, WritesZip, File, IInv
    <3>2. CASE DeleteZip(f)
      BY <2>2, <3>1, <3>2, <1>0, DeleteZipMeans, ZipFrame DEF IInv
    <3>3. CASE UNCHANGED <<zip, zipWriter>>
      BY <2>2, <3>1, <3>3, <1>0, ZipFrame
    <3> QED
      BY <2>7, <3>2, <3>3 DEF FinishUnlinked, File
  <2>8. CASE NothingToDownload(j)
    <3>1. /\ job[j].at = "writing" /\ job'[j].at = "free"
          /\ zip'[f] = "none" /\ zipWriter'[f] = Nobody
          /\ \A g \in Archive \ {f} : zip'[g] = zip[g] /\ zipWriter'[g] = zipWriter[g]
      BY <2>8, <1>0, SucceedMeans, DeleteZipMeans DEF NothingToDownload, File, IInv
    <3>2. \A k \in Job \ {j} : job[k].file = f /\ f \notin disturbed =>
              job[k].at # "writing" /\ ~RunsUnpack(k)
      BY <2>1, <3>1, <1>0
    <3> QED
      BY <2>2, <3>1, <3>2, <1>0, ZipFrame
  <2> QED
    BY <2>3, <2>4, <2>5, <2>6, <2>7, <2>8 DEF Download
<1> QED
  BY <1>2, <1>3, <1>4, <1>5 DEF IInv

\* An unpacker clears and extracts the csv while it has the zip, and deletes the
\* zip when the csv is whole.
LEMMA UnpackKeeps ==
    ASSUME IInv, TypeOK', NEW j \in Job, Unpack(j)
    PROVE  IInv'
<1> DEFINE f == job[j].file
<1>0. f \in Archive /\ j # Nobody
  BY ArchiveAssumption DEF IInv, TypeOK, JobRecord
<1>1. /\ job[j].at \in Unpacks
      /\ job'[j].file = f
      /\ job'[j].at \in {"free"} \cup (Unpacks \ {"toUnpack"})
      /\ OthersKeepOn(j)
      /\ UNCHANGED <<stored, log, dropped>>
      /\ disturbed \subseteq disturbed'
  <2>1. CASE \E k \in Job : EnqueueImport(j, k)
    <3> PICK k \in Job : EnqueueImport(j, k)
      BY <2>1
    <3> QED
      BY DEF EnqueueImport, OthersKeepOn, JobAt, Fresh, File, IInv, TypeOK, Unpacks
  <2>2. CASE ~\E k \in Job : EnqueueImport(j, k)
    BY <2>2, SucceedMeans, MoveToMeans
    DEF Unpack, SkipUnpacking, CheckZip, ClearDirectory, StartExtraction, FinishExtraction,
        FindCsv, RemoveZip, files, IInv, Unpacks, OthersKeepOn, Disturb
  <2> QED
    BY <2>1, <2>2
<1>2. OneUnpacker'
  <2>1. job[j].at = "toUnpack" => job'[j].at = "free" \/ CheckZip(j)
    BY <1>0, SucceedMeans
    DEF Unpack, SkipUnpacking, ClearDirectory, StartExtraction, FinishExtraction, FindCsv,
        EnqueueImport, RemoveZip, IInv
  <2>2. CheckZip(j) /\ f \notin disturbed' => ~UnpackedByOthers(j)
    BY <1>0 DEF CheckZip, Disturb, File
  <2>3. RunsUnpack(j)' /\ f \notin disturbed' => RunsUnpack(j) \/ ~UnpackedByOthers(j)
    BY <1>1, <2>1, <2>2 DEF RunsUnpack, Unpacks
  <2> QED
    BY <1>1, <2>3, UnpackerFrame
<1>3. ZipWriters' /\ DownloadsOwn' /\ UnpacksHaveZip'
  <2>1. /\ \A k \in Job : job[k].file = f /\ f \notin disturbed' =>
              /\ job[k].at = "writing" => zipWriter[f] = k
              /\ RunsUnpack(k) => zip[f] = "whole"
        /\ zipWriter[f] # Nobody => zip[f] \in {"empty", "part"}
        /\ zipWriter[f] # j
    BY <1>0, <1>1
    DEF IInv, ZipWriters, DownloadsOwn, UnpacksHaveZip, File, WritesZip, Unpacks
  <2>2. job'[j].at # "writing"
    BY <1>1 DEF Unpacks
  <2>3. CASE RemoveZip(j)
    <3>1. /\ job'[j].at = "free" /\ RunsUnpack(j)
          /\ zip'[f] = "none" /\ zipWriter'[f] = Nobody
          /\ \A g \in Archive \ {f} : zip'[g] = zip[g] /\ zipWriter'[g] = zipWriter[g]
      BY <2>3, <1>0, SucceedMeans, DeleteZipMeans
      DEF RemoveZip, File, IInv, RunsUnpack, Unpacks
    <3>2. \A k \in Job \ {j} : job[k].file = f /\ f \notin disturbed' =>
              job[k].at # "writing" /\ ~RunsUnpack(k)
      <4>1. f \notin disturbed' => zip[f] = "whole" /\ zipWriter[f] = Nobody
        BY <2>1, <3>1
      <4>2. \A k \in Job \ {j} : job[k].file = f /\ f \notin disturbed' => ~RunsUnpack(k)
        BY <3>1, <1>1 DEF IInv, OneUnpacker, File
      <4> QED
        BY <2>1, <4>1, <4>2, ArchiveAssumption
    <3>3. ~RunsUnpack(j)'
      BY <3>1 DEF RunsUnpack, Unpacks
    <3> QED
      BY <1>0, <1>1, <2>2, <3>1, <3>2, <3>3, ZipFrame
  <2>4. CASE ~RemoveZip(j)
    <3>1. UNCHANGED <<zip, zipWriter>>
      BY <2>4
      DEF Unpack, SkipUnpacking, CheckZip, ClearDirectory, StartExtraction,
          FinishExtraction, FindCsv, EnqueueImport, files
    <3>2. RunsUnpack(j)' => RunsUnpack(j) \/ zip[f] = "whole"
      <4>1. job[j].at = "toUnpack" => job'[j].at = "free" \/ zip[f] = "whole"
        BY <1>0, SucceedMeans
        DEF Unpack, SkipUnpacking, CheckZip, ClearDirectory, StartExtraction,
            FinishExtraction, FindCsv, EnqueueImport, RemoveZip, IInv, Readable, File
      <4> QED
        BY <1>1, <4>1 DEF RunsUnpack, Unpacks
    <3> QED
      BY <1>0, <1>1, <2>1, <2>2, <3>1, <3>2, ZipFrame
  <2> QED
    BY <2>3, <2>4
<1>4. CsvWriters' /\ CsvTrusted'
  <2>1. /\ \A k \in Job \ {j} : job[k].file = f /\ f \in Calm' => TrustsCsv(k)
        /\ f \in Calm' => TrustsCsv(j)
        /\ job[j].at # "extracting" => csvWriter[f] # j
        /\ f \in Calm' => f \notin disturbed'
    BY <1>0, <1>1 DEF IInv, CsvTrusted, CsvWriters, File, Calm
  <2>2. \A k \in Job \ {j} : job'[k].at # "toImport" => job'[k] = job[k]
    BY <1>1 DEF OthersKeepOn
  <2>3. \A k \in Job \ {j} : RunsUnpack(j) /\ job[k].file = f /\ f \in Calm' =>
            job[k].at \notin {"extracting", "extracted", "found", "enqueued"}
    BY <1>1, <1>0 DEF IInv, OneUnpacker, RunsUnpack, File, Unpacks, Calm
  <2>4. CASE ClearDirectory(j)
    <3>1. /\ job[j].at = "checked" /\ job'[j].at = "cleared"
          /\ csv'[f] = "none" /\ csvWriter'[f] = Nobody
          /\ \A g \in Archive \ {f} : csv'[g] = csv[g] /\ csvWriter'[g] = csvWriter[g]
      BY <2>4, <1>0, MoveToMeans, DeleteCsvMeans DEF ClearDirectory, File, IInv
    <3>2. TrustsCsv(j)' /\ RunsUnpack(j)
      BY <3>1 DEF TrustsCsv, RunsUnpack, Unpacks
    <3>3. \A k \in Job \ {j} :
              f \in Calm' /\ job'[k].file = f /\ job'[k].at # "toImport" => TrustsCsv(k)'
      BY <2>1, <2>2, <2>3, <3>2, <1>1 DEF TrustsCsv, File
    <3> QED
      BY <1>0, <1>1, <3>1, <3>2, <3>3, CsvFrame
  <2>5. CASE StartExtraction(j)
    <3>1. /\ job[j].at = "cleared" /\ job'[j].at = "extracting"
          /\ csv'[f] = "part" /\ csvWriter'[f] = j
          /\ \A g \in Archive \ {f} : csv'[g] = csv[g] /\ csvWriter'[g] = csvWriter[g]
      BY <2>5, <1>0, MoveToMeans DEF StartExtraction, File, IInv, TypeOK
    <3>2. TrustsCsv(j)' /\ RunsUnpack(j)
      BY <3>1, <1>1 DEF TrustsCsv, RunsUnpack, Unpacks, File, WritesCsv
    <3>3. \A k \in Job \ {j} :
              f \in Calm' /\ job'[k].file = f /\ job'[k].at # "toImport" => TrustsCsv(k)'
      BY <2>1, <2>2, <2>3, <3>2, <1>1 DEF TrustsCsv, File
    <3> QED
      BY <1>0, <1>1, <3>1, <3>2, <3>3, CsvFrame
  <2>6. CASE FinishExtraction(j)
    <3>1. /\ job[j].at = "extracting" /\ job'[j].at = "extracted"
          /\ IF csvWriter[f] = j
             THEN csv'[f] = "whole" /\ csvWriter'[f] = Nobody
             ELSE csv'[f] = csv[f] /\ csvWriter'[f] = csvWriter[f]
      BY <2>6, <1>0, MoveToMeans DEF FinishExtraction, WritesCsv, Without, File, IInv, TypeOK
    <3>2. \A g \in Archive \ {f} : csv'[g] = csv[g] /\ csvWriter'[g] = csvWriter[g]
      <4> SUFFICES ASSUME NEW g \in Archive, g # f
                   PROVE  csv'[g] = csv[g] /\ csvWriter'[g] = csvWriter[g]
        OBVIOUS
      <4>1. csvWriter[g] # j
        BY <1>0 DEF IInv, CsvWriters, File
      <4>2. csv'[g] = csv[g]
        BY <2>6 DEF FinishExtraction, File, IInv, TypeOK
      <4> QED
        BY <4>1, <4>2, <2>6 DEF FinishExtraction, Without
    <3>3. f \in Calm' => TrustsCsv(j)'
      BY <2>1, <3>1, <1>1 DEF TrustsCsv, File, WritesCsv
    <3>4. RunsUnpack(j)
      BY <3>1 DEF RunsUnpack, Unpacks
    <3>5. \A k \in Job \ {j} :
              f \in Calm' /\ job'[k].file = f /\ job'[k].at # "toImport" => TrustsCsv(k)'
      BY <2>1, <2>2, <2>3, <3>4, <1>1 DEF TrustsCsv, File
    <3> QED
      BY <1>0, <1>1, <3>1, <3>2, <3>3, <3>5, CsvFrame
  <2>7. CASE ~ClearDirectory(j) /\ ~StartExtraction(j) /\ ~FinishExtraction(j)
    <3>1. /\ UNCHANGED <<csv, csvWriter>>
          /\ job[j].at # "extracting" /\ job'[j].at # "extracting"
          /\ job'[j].at \in {"extracted", "found", "enqueued"} =>
                job[j].at \in {"extracted", "found", "enqueued"}
      <4>1. CASE \E k \in Job : EnqueueImport(j, k)
        BY <4>1, <1>0 DEF EnqueueImport, JobAt, Fresh, File, IInv, TypeOK, files
      <4>2. CASE ~\E k \in Job : EnqueueImport(j, k)
        BY <2>7, <4>2, SucceedMeans, MoveToMeans
        DEF Unpack, SkipUnpacking, CheckZip, FindCsv, RemoveZip, files, IInv
      <4> QED
        BY <4>1, <4>2
    <3>2. f \in Calm' => TrustsCsv(j)'
      BY <2>1, <3>1, <1>1 DEF TrustsCsv, File, Unpacks
    <3>3. \A k \in Job \ {j} :
              f \in Calm' /\ job'[k].file = f /\ job'[k].at # "toImport" => TrustsCsv(k)'
      BY <2>1, <2>2, <3>1, <1>1 DEF TrustsCsv, File, WritesCsv
    <3> QED
      BY <1>0, <1>1, <2>1, <3>1, <3>2, <3>3, CsvFrame
  <2> QED
    BY <2>4, <2>5, <2>6, <2>7
<1>5. UndisturbedLogIsTrue'
  BY <1>1 DEF IInv, UndisturbedLogIsTrue
<1> QED
  BY <1>2, <1>3, <1>4, <1>5 DEF IInv

\* An import has opened a whole csv and logs the day when all of it is stored.
LEMMA ImportKeeps ==
    ASSUME IInv, TypeOK', NEW j \in Job, Import(j)
    PROVE  IInv'
<1> DEFINE f == job[j].file
<1>0. /\ f \in Archive /\ j # Nobody /\ job[j].size \in 0 .. Batches
      /\ job[j].done \in 0 .. Batches /\ stored[f] \in 0 .. Batches
      /\ Batches \in Nat \ {0}
  BY ArchiveAssumption DEF IInv, TypeOK, JobRecord
<1>1. /\ job[j].at \in Imports
      /\ job'[j].file = f
      /\ job'[j].at \in {"free", "reading", "cleaning"}
      /\ \A k \in Job \ {j} : job'[k] = job[k]
      /\ UNCHANGED <<zip, zipWriter, dropped>>
      /\ disturbed \subseteq disturbed'
  <2>1. ASSUME NEW n \in 0 .. Batches, OpenCsv(j, n) PROVE <1>1!:
    BY <2>1 DEF OpenCsv, JobAt, File, Disturb, files, Imports, IInv, TypeOK
  <2>2. CASE InsertBatch(j)
    BY <2>2 DEF InsertBatch, files, Imports, IInv, TypeOK, JobRecord
  <2>3. CASE RecordImported(j)
    BY <2>3, MoveToMeans DEF RecordImported, files, Imports, IInv
  <2>4. CASE RemoveDirectory(j)
    BY <2>4, SucceedMeans DEF RemoveDirectory, Imports, IInv
  <2> QED
    BY <2>1, <2>2, <2>3, <2>4 DEF Import
<1>2. OthersKeepOn(j) /\ ~RunsUnpack(j)'
  BY <1>1 DEF OthersKeepOn, RunsUnpack, Unpacks
<1>3. OneUnpacker'
  BY <1>1, <1>2, UnpackerFrame
<1>4. ZipWriters' /\ DownloadsOwn' /\ UnpacksHaveZip'
  <2>1. /\ \A k \in Job : job[k].file = f /\ f \notin disturbed' =>
              /\ job[k].at = "writing" => zipWriter[f] = k
              /\ RunsUnpack(k) => zip[f] = "whole"
        /\ zipWriter[f] # j
    BY <1>0, <1>1
    DEF IInv, ZipWriters, DownloadsOwn, UnpacksHaveZip, File, WritesZip, Imports
  <2> QED
    BY <1>0, <1>1, <1>2, <2>1, ZipFrame
<1>5. CsvWriters' /\ CsvTrusted' /\ UndisturbedLogIsTrue'
  <2>1. /\ \A k \in Job : job[k].file = f /\ f \in Calm' => TrustsCsv(k)
        /\ csvWriter[f] # j
        /\ Calm' \subseteq Calm
    BY <1>0, <1>1 DEF IInv, CsvTrusted, CsvWriters, File, Calm, Imports
  <2>2. ASSUME NEW n \in 0 .. Batches, OpenCsv(j, n)
        PROVE  CsvWriters' /\ CsvTrusted' /\ UndisturbedLogIsTrue'
    <3>1. UNCHANGED <<csv, csvWriter, stored, log>>
      BY <2>2 DEF OpenCsv, files
    <3>2. /\ job'[j].at = "reading" /\ job'[j].size = n /\ job'[j].done = 0
          /\ f \notin disturbed' => n = Batches
      BY <2>2, <1>0 DEF OpenCsv, Disturb, Yields, JobAt, File, IInv, TypeOK
    <3>3. f \in Calm' => TrustsCsv(j)'
      BY <3>1, <3>2, <1>0, <1>1 DEF TrustsCsv, File, Calm
    <3>4. \A k \in Job \ {j} : f \in Calm' /\ job'[k].file = f => TrustsCsv(k)'
      BY <2>1, <3>1, <1>1 DEF TrustsCsv, File, WritesCsv
    <3>5. CsvWriters' /\ CsvTrusted'
      BY <1>0, <1>1, <1>2, <2>1, <3>1, <3>3, <3>4, CsvFrame
    <3> QED
      BY <3>1, <3>5, <1>1 DEF IInv, UndisturbedLogIsTrue
  <2>3. CASE InsertBatch(j)
    <3>1. /\ UNCHANGED <<csv, csvWriter, log>>
          /\ job[j].at = "reading" /\ job'[j].at = "reading"
          /\ job'[j].size = job[j].size /\ job'[j].done = job[j].done + 1
          /\ job[j].done < job[j].size
          /\ stored'[f] \in 0 .. Batches
          /\ stored'[f] >= stored[f] /\ stored'[f] >= job[j].done + 1
      BY <2>3, <1>0 DEF InsertBatch, HasMore, File, IInv, TypeOK, JobRecord, files
    <3>2. \A g \in Archive \ {f} : stored'[g] = stored[g]
      BY <2>3 DEF InsertBatch, File, IInv, TypeOK
    <3>3. f \in Calm' => TrustsCsv(j)'
      BY <2>1, <3>1, <1>0, <1>1 DEF TrustsCsv, File
    <3>4. stored[f] = Batches => stored'[f] = Batches
      BY <3>1, <1>0
    <3>5. ASSUME NEW k \in Job \ {j}, f \in Calm', job'[k].file = f
          PROVE  TrustsCsv(k)'
      <4>1. job'[k] = job[k] /\ TrustsCsv(k) /\ job[k].done \in Nat
        BY <2>1, <3>5, <1>1 DEF IInv, TypeOK, JobRecord
      <4> QED
        BY <4>1, <3>1, <3>4, <3>5, <1>0 DEF TrustsCsv, File, WritesCsv
    <3>6. CsvWriters' /\ CsvTrusted'
      BY <1>0, <1>1, <1>2, <2>1, <3>1, <3>2, <3>3, <3>5, CsvFrame
    <3>7. UndisturbedLogIsTrue'
      BY <3>1, <3>2, <3>4, <1>1 DEF IInv, TypeOK, UndisturbedLogIsTrue
    <3> QED
      BY <3>6, <3>7
  <2>4. CASE RecordImported(j)
    <3>1. /\ UNCHANGED <<csv, csvWriter, stored>> /\ log' = log \cup {f}
          /\ job[j].at = "reading" /\ job'[j].at = "cleaning"
          /\ job[j].done = job[j].size
      BY <2>4, MoveToMeans DEF RecordImported, AllInserted, File, IInv, files
    <3>2. f \in Calm' => stored[f] = Batches
      BY <2>1, <3>1, <1>0 DEF TrustsCsv, File
    <3>3. f \in Calm' => TrustsCsv(j)'
      BY <3>1, <3>2, <1>1 DEF TrustsCsv, File
    <3>4. \A k \in Job \ {j} : f \in Calm' /\ job'[k].file = f => TrustsCsv(k)'
      BY <2>1, <3>1, <1>1 DEF TrustsCsv, File, WritesCsv
    <3>5. CsvWriters' /\ CsvTrusted'
      BY <1>0, <1>1, <1>2, <2>1, <3>1, <3>3, <3>4, CsvFrame
    <3> QED
      BY <3>1, <3>2, <3>5, <1>0, <1>1 DEF IInv, UndisturbedLogIsTrue, Calm
  <2>5. CASE RemoveDirectory(j)
    <3>1. /\ UNCHANGED <<stored, log>>
          /\ job[j].at = "cleaning" /\ job'[j].at = "free"
          /\ csv'[f] = "none" /\ csvWriter'[f] = Nobody
          /\ \A g \in Archive \ {f} : csv'[g] = csv[g] /\ csvWriter'[g] = csvWriter[g]
      BY <2>5, <1>0, SucceedMeans, DeleteCsvMeans DEF RemoveDirectory, File, IInv
    <3>2. f \in Calm' => stored[f] = Batches
      BY <2>1, <3>1 DEF TrustsCsv, File
    <3>3. TrustsCsv(j)'
      BY <3>1 DEF TrustsCsv
    <3>4. \A k \in Job \ {j} : f \in Calm' /\ job'[k].file = f => TrustsCsv(k)'
      BY <2>1, <3>1, <3>2, <1>1 DEF TrustsCsv, File
    <3>5. CsvWriters' /\ CsvTrusted'
      BY <1>0, <1>1, <1>2, <3>1, <3>3, <3>4, CsvFrame
    <3> QED
      BY <3>1, <3>5, <1>1 DEF IInv, UndisturbedLogIsTrue
  <2> QED
    BY <2>2, <2>3, <2>4, <2>5 DEF Import
<1> QED
  BY <1>3, <1>4, <1>5 DEF IInv

\* A deletion of an existing zip disturbs its archive.
LEMMA DeleteFileKeeps ==
    ASSUME IInv, TypeOK', NEW j \in Job, DeleteFile(j)
    PROVE  IInv'
<1> DEFINE f == job[j].file
<1>0. f \in Archive /\ j # Nobody
  BY ArchiveAssumption DEF IInv, TypeOK, JobRecord
<1>1. /\ job[j].at = "toDelete" /\ job'[j].at = "free" /\ job'[j].file = f
      /\ OthersKeepOn(j)
      /\ zip'[f] = "none" /\ zipWriter'[f] = Nobody
      /\ \A g \in Archive \ {f} : zip'[g] = zip[g] /\ zipWriter'[g] = zipWriter[g]
      /\ UNCHANGED <<csv, csvWriter, stored, log, dropped>>
      /\ disturbed \subseteq disturbed'
      /\ f \notin disturbed' => f \notin disturbed /\ zip[f] = "none"
  BY <1>0, SucceedMeans, DeleteZipMeans
  DEF DeleteFile, Disturb, OthersKeepOn, File, IInv
<1>2. ~RunsUnpack(j)'
  BY <1>1 DEF RunsUnpack, Unpacks
<1>3. OneUnpacker'
  BY <1>1, <1>2, UnpackerFrame
<1>4. ZipWriters' /\ DownloadsOwn' /\ UnpacksHaveZip'
  <2>1. f \notin disturbed' => zipWriter[f] = Nobody
    BY <1>0, <1>1 DEF IInv, ZipWriters
  <2>2. \A k \in Job \ {j} : job[k].file = f /\ f \notin disturbed' =>
            job[k].at # "writing" /\ ~RunsUnpack(k)
    BY <1>1, <2>1, ArchiveAssumption DEF IInv, DownloadsOwn, UnpacksHaveZip, File, WritesZip
  <2> QED
    BY <1>0, <1>1, <1>2, <2>2, ZipFrame
<1>5. CsvWriters' /\ CsvTrusted'
  <2>1. /\ \A k \in Job : job[k].file = f /\ f \in Calm' => TrustsCsv(k)
        /\ csvWriter[f] # j
    BY <1>0, <1>1 DEF IInv, CsvTrusted, CsvWriters, File, Calm
  <2>2. TrustsCsv(j)'
    BY <1>1 DEF TrustsCsv
  <2>3. \A k \in Job \ {j} :
            f \in Calm' /\ job'[k].file = f /\ job'[k].at # "toImport" => TrustsCsv(k)'
    BY <2>1, <1>1 DEF TrustsCsv, File, WritesCsv, OthersKeepOn
  <2> QED
    BY <1>0, <1>1, <2>1, <2>2, <2>3, CsvFrame
<1>6. UndisturbedLogIsTrue'
  BY <1>1 DEF IInv, UndisturbedLogIsTrue
<1> QED
  BY <1>3, <1>4, <1>5, <1>6 DEF IInv

\* A job that throws lets go of its files; a download deletes its own.
LEMMA ThrowsKeeps ==
    ASSUME IInv, TypeOK', NEW j \in Job, Throws(j)
    PROVE  IInv'
<1> DEFINE f == job[j].file
<1>0. f \in Archive /\ j # Nobody /\ job[j].at \in Places
  BY ArchiveAssumption DEF IInv, TypeOK, JobRecord
<1>1. /\ job'[j].at \in Idle /\ job'[j].file = f
      /\ \A k \in Job \ {j} : job'[k] = job[k]
      /\ UNCHANGED <<csv, stored, log, dropped, disturbed>>
  <2>1. QueueOf(job[j].at) \in Idle
    BY <1>0, IdleType
  <2> QED
    BY <2>1 DEF Throws, JobAt, Fresh, File, IInv, TypeOK, Idle
<1>2. OthersKeepOn(j) /\ ~RunsUnpack(j)' /\ job'[j].at # "writing" /\ TrustsCsv(j)'
  BY <1>1 DEF OthersKeepOn, RunsUnpack, Unpacks, Idle, Queued, TrustsCsv
<1>3. OneUnpacker'
  BY <1>1, <1>2, UnpackerFrame
<1>4. ZipWriters' /\ DownloadsOwn' /\ UnpacksHaveZip'
  <2>1. /\ \A k \in Job : job[k].file = f /\ f \notin disturbed =>
              /\ job[k].at = "writing" => zipWriter[f] = k
              /\ RunsUnpack(k) => zip[f] = "whole"
        /\ zipWriter[f] # Nobody => zip[f] \in {"empty", "part"}
        /\ zipWriter[f] = j => job[j].at = "writing"
    BY <1>0 DEF IInv, ZipWriters, DownloadsOwn, UnpacksHaveZip, File, WritesZip
  <2>2. IF job[j].at = "writing"
        THEN zip'[f] = "none" /\ zipWriter'[f] = Nobody
        ELSE zip'[f] = zip[f] /\ zipWriter'[f] = zipWriter[f] /\ zipWriter[f] # j
    BY <1>0, <2>1 DEF Throws, DeletesZip, Without, File, IInv, TypeOK
  <2>3. \A g \in Archive \ {f} : zip'[g] = zip[g] /\ zipWriter'[g] = zipWriter[g]
    <3> SUFFICES ASSUME NEW g \in Archive, g # f
                 PROVE  zip'[g] = zip[g] /\ zipWriter'[g] = zipWriter[g]
      OBVIOUS
    <3>1. zipWriter[g] # j
      BY <1>0 DEF IInv, ZipWriters, File
    <3> QED
      BY <3>1 DEF Throws, Without, File, IInv, TypeOK
  <2>4. \A k \in Job \ {j} : job[k].file = f /\ f \notin disturbed' =>
            /\ job[k].at = "writing" => zipWriter'[f] = k
            /\ RunsUnpack(k) => zip'[f] = "whole"
    BY <2>1, <2>2, <1>0, <1>1
  <2> QED
    BY <1>0, <1>1, <1>2, <2>2, <2>3, <2>4, ZipFrame
<1>5. CsvWriters' /\ CsvTrusted'
  <2>1. \A k \in Job : job[k].file = f /\ f \in Calm' => TrustsCsv(k)
    BY <1>0, <1>1 DEF IInv, CsvTrusted, File, Calm
  <2>2. csvWriter'[f] = IF csvWriter[f] = j THEN Nobody ELSE csvWriter[f]
    BY <1>0 DEF Throws, Without
  <2>3. \A g \in Archive \ {f} : csvWriter'[g] = csvWriter[g]
    BY <1>0 DEF Throws, Without, IInv, CsvWriters, File
  <2>4. \A k \in Job \ {j} : f \in Calm' /\ job'[k].file = f => TrustsCsv(k)'
    BY <2>1, <2>2, <1>1 DEF TrustsCsv, File, WritesCsv
  <2> QED
    BY <1>0, <1>1, <1>2, <2>2, <2>3, <2>4, CsvFrame
<1>6. UndisturbedLogIsTrue'
  BY <1>1 DEF IInv, UndisturbedLogIsTrue
<1> QED
  BY <1>3, <1>4, <1>5, <1>6 DEF IInv

\* After a restart nobody writes and every job waits in its queue.
LEMMA KillKeeps ==
    ASSUME IInv, TypeOK', Kill
    PROVE  IInv'
<1>1. \A j \in Job : job'[j].at \in Idle
  <2> SUFFICES ASSUME NEW j \in Job PROVE job'[j].at \in Idle
    OBVIOUS
  <2>1. job[j].at \in Places
    BY DEF IInv, TypeOK, JobRecord
  <2> QED
    BY <2>1, IdleType DEF Kill, JobAt
<1>2. \A f \in Archive : zipWriter'[f] = Nobody /\ csvWriter'[f] = Nobody
  BY DEF Kill, Without, IInv, TypeOK
<1>3. UndisturbedLogIsTrue'
  BY DEF Kill, IInv, UndisturbedLogIsTrue
<1> QED
  BY <1>1, <1>2, <1>3
  DEF IInv, Idle, Queued, Unpacks, OneUnpacker, ZipWriters, CsvWriters, DownloadsOwn,
      UnpacksHaveZip, CsvTrusted, TrustsCsv, RunsUnpack

\* Nothing is expected of a dropped archive.
LEMMA RotateKeeps ==
    ASSUME IInv, TypeOK', NEW f \in Archive, Rotate(f)
    PROVE  IInv'
<1>1. /\ UNCHANGED <<zip, csv, zipWriter, csvWriter, job, log, disturbed>>
      /\ dropped' = dropped \cup {f}
      /\ \A g \in Archive \ {f} : stored'[g] = stored[g]
  BY DEF Rotate, files, IInv, TypeOK
<1>2. OneUnpacker' /\ ZipWriters' /\ CsvWriters' /\ DownloadsOwn' /\ UnpacksHaveZip'
  BY <1>1 DEF IInv, OneUnpacker, ZipWriters, CsvWriters, DownloadsOwn, UnpacksHaveZip,
              RunsUnpack, File, WritesZip
<1>3. CsvTrusted'
  BY <1>1 DEF IInv, TypeOK, JobRecord, CsvTrusted, TrustsCsv, Calm, File, WritesCsv
<1>4. UndisturbedLogIsTrue'
  BY <1>1 DEF IInv, TypeOK, UndisturbedLogIsTrue
<1> QED
  BY <1>2, <1>3, <1>4 DEF IInv

\* Every step keeps the invariant.
LEMMA IInvInductive == IInv /\ [Next]_vars => IInv'
<1> SUFFICES ASSUME IInv, [Next]_vars PROVE IInv'
  OBVIOUS
<1>1. TypeOK'
  BY TypesInductive DEF IInv
<1>2. CASE Next
  BY <1>1, <1>2, OperatorKeeps, DownloadKeeps, UnpackKeeps, ImportKeeps, DeleteFileKeeps,
     ThrowsKeeps, KillKeeps, RotateKeeps
  DEF Next
<1>3. CASE UNCHANGED vars
  BY <1>1, <1>3
  DEF vars, files, IInv, OneUnpacker, ZipWriters, CsvWriters, DownloadsOwn, UnpacksHaveZip,
      CsvTrusted, TrustsCsv, UndisturbedLogIsTrue, RunsUnpack, Calm, File, WritesZip,
      WritesCsv
<1> QED
  BY <1>2, <1>3

\* The invariant holds in every reachable state.
LEMMA ArchiveInvariant == Spec => []IInv
<1>1. Init => IInv
  <2> SUFFICES ASSUME Init PROVE IInv
    OBVIOUS
  <2>1. TypeOK
    BY ArchiveAssumption, FreshType DEF Init, TypeOK, Places, Content
  <2>2. \A j \in Job : job[j].at = "free"
    BY DEF Init, Fresh, JobAt
  <2> QED
    BY <2>1, <2>2
    DEF Init, IInv, OneUnpacker, ZipWriters, CsvWriters, DownloadsOwn, UnpacksHaveZip,
        CsvTrusted, TrustsCsv, UndisturbedLogIsTrue, RunsUnpack, Unpacks
<1> QED
  BY <1>1, IInvInductive, PTL DEF Spec

\* What ArchiveImportLog says of a kept month is so, for any number of archives,
\* jobs and retries, as long as no import opened a half-extracted csv, no zip
\* was deleted by hand and no two jobs unpacked one archive at a time.
THEOREM LoggedIsStored == Spec => []UndisturbedLogIsTrue
<1>1. IInv => UndisturbedLogIsTrue
  BY DEF IInv
<1> QED
  BY <1>1, ArchiveInvariant, PTL

-----------------------------------------------------------------------------
(* No step loses what an archive holds *)

\* Whoever deletes or overwrites a zip or a csv, its trades are elsewhere.
LEMMA StepLosesNothing ==
    ASSUME IInv, Next, NEW f \in Calm', Held(f)
    PROVE  Held(f)'
<1>0. /\ f \in Archive /\ f \in Calm /\ f \notin disturbed' /\ f \notin dropped'
      /\ stored[f] \in 0 .. Batches /\ Batches \in Nat
      /\ zip[f] = "whole" \/ csv[f] = "whole" \/ stored[f] = Batches
  <2>1. disturbed \subseteq disturbed' /\ dropped \subseteq dropped'
    BY DEF Next, Operator, RequestDownload, RequestProcessing, RequestDeletion, Download,
           SkipDownload, OpenZip, WriteZip, FinishZip, FinishUnlinked, NothingToDownload,
           Unpack, SkipUnpacking, CheckZip, ClearDirectory, StartExtraction,
           FinishExtraction, FindCsv, EnqueueImport, RemoveZip, Import, OpenCsv,
           InsertBatch, RecordImported, RemoveDirectory, DeleteFile, Throws, Kill, Rotate,
           Disturb
  <2>2. f \in Archive /\ f \notin disturbed' /\ f \notin dropped'
    BY DEF Calm
  <2> QED
    BY <2>1, <2>2, ArchiveAssumption DEF Calm, Held, IInv, TypeOK
<1> SUFFICES \/ UNCHANGED <<zip, csv, stored>>
             \/ zip'[f] = "whole"
             \/ csv'[f] = "whole"
             \/ stored'[f] = Batches
  BY <1>0 DEF Held
<1> DEFINE Goal == \/ zip'[f] = "whole"
                   \/ csv'[f] = "whole"
                   \/ stored'[f] = Batches
<1>1. \A j \in Job : job[j].at = "writing" /\ job[j].file = f => zip[f] # "whole"
  BY <1>0, ArchiveAssumption DEF IInv, DownloadsOwn, ZipWriters, File, WritesZip, Calm
<1>2. \A j \in Job : TypeOK /\ job[j].file \in Archive
  BY DEF IInv, TypeOK, JobRecord
<1>3. ASSUME NEW j \in Job, NEW g \in Archive, Operator(j, g)
      PROVE  UNCHANGED <<zip, csv, stored>>
  BY <1>3 DEF Operator, RequestDownload, RequestProcessing, RequestDeletion, files
<1>4. ASSUME NEW j \in Job, Download(j) PROVE Goal \/ UNCHANGED <<zip, csv, stored>>
  <2>1. CASE SkipDownload(j)
    BY <2>1 DEF SkipDownload, files
  <2>2. CASE OpenZip(j)
    BY <2>2, <1>0, <1>2 DEF OpenZip, File, TypeOK
  <2>3. CASE WriteZip(j)
    BY <2>3, <1>0, <1>1, <1>2 DEF WriteZip, File, TypeOK
  <2>4. CASE FinishZip(j)
    BY <2>4, <1>0, <1>2 DEF FinishZip, File, TypeOK
  <2>5. CASE FinishUnlinked(j) \/ NothingToDownload(j)
    <3>1. /\ job[j].at = "writing"
          /\ UNCHANGED zip \/ DeleteZip(job[j].file)
          /\ UNCHANGED <<csv, stored>>
      BY <2>5 DEF FinishUnlinked, NothingToDownload, File
    <3> QED
      BY <3>1, <1>0, <1>1, <1>2, DeleteZipMeans
  <2> QED
    BY <1>4, <2>1, <2>2, <2>3, <2>4, <2>5 DEF Download
<1>5. ASSUME NEW j \in Job, Unpack(j) PROVE Goal \/ UNCHANGED <<zip, csv, stored>>
  <2>1. job[j].file = f =>
          /\ job[j].at \in Unpacks \ {"toUnpack"} => zip[f] = "whole"
          /\ job[j].at = "enqueued" => csv[f] = "whole" \/ stored[f] = Batches
    BY <1>0 DEF IInv, UnpacksHaveZip, CsvTrusted, TrustsCsv, RunsUnpack, File, Calm
  <2>2. CASE ClearDirectory(j)
    BY <2>2, <2>1, <1>0, <1>2, DeleteCsvMeans DEF ClearDirectory, File, Unpacks
  <2>3. CASE StartExtraction(j)
    BY <2>3, <1>0, <1>2 DEF StartExtraction, File, TypeOK
  <2>4. CASE FinishExtraction(j)
    BY <2>4, <1>0, <1>2 DEF FinishExtraction, File, TypeOK
  <2>5. CASE RemoveZip(j)
    BY <2>5, <2>1, <1>0, <1>2, DeleteZipMeans DEF RemoveZip, File
  <2> QED
    BY <1>5, <2>2, <2>3, <2>4, <2>5
    DEF Unpack, SkipUnpacking, CheckZip, FindCsv, EnqueueImport, files
<1>6. ASSUME NEW j \in Job, Import(j) PROVE Goal \/ UNCHANGED <<zip, csv, stored>>
  <2>1. CASE InsertBatch(j)
    <3>1. UNCHANGED <<zip, csv>>
      BY <2>1 DEF InsertBatch, files
    <3>2. job[j].done + 1 <= Batches
      BY <2>1, <1>0 DEF InsertBatch, HasMore, IInv, TypeOK, JobRecord
    <3>3. stored[f] = Batches => stored'[f] = Batches
      BY <2>1, <3>2, <1>0 DEF InsertBatch, File, IInv, TypeOK, JobRecord
    <3> QED
      BY <3>1, <3>3, <1>0
  <2>2. CASE RemoveDirectory(j)
    <3>1. job[j].file = f => stored[f] = Batches
      BY <2>2, <1>0 DEF RemoveDirectory, IInv, CsvTrusted, TrustsCsv, File
    <3> QED
      BY <2>2, <3>1, <1>0, <1>2, DeleteCsvMeans DEF RemoveDirectory, File
  <2> QED
    BY <1>6, <2>1, <2>2 DEF Import, OpenCsv, RecordImported, files
<1>7. ASSUME NEW j \in Job, DeleteFile(j) PROVE Goal \/ UNCHANGED <<zip, csv, stored>>
  BY <1>7, <1>0, <1>2, DeleteZipMeans DEF DeleteFile, Disturb, File
<1>8. ASSUME NEW j \in Job, Throws(j) PROVE Goal \/ UNCHANGED <<zip, csv, stored>>
  BY <1>8, <1>0, <1>1, <1>2 DEF Throws, DeletesZip, File, TypeOK
<1>9. CASE Kill
  BY <1>9 DEF Kill
<1>10. ASSUME NEW g \in Archive, Rotate(g) PROVE Goal \/ UNCHANGED <<zip, csv, stored>>
  BY <1>10, <1>0 DEF Rotate, files, IInv, TypeOK
<1> QED
  BY <1>3, <1>4, <1>5, <1>6, <1>7, <1>8, <1>9, <1>10 DEF Next

\* The trades of a downloaded archive are never lost: whatever deletes its zip or
\* clears its directory does so when they are elsewhere, under any schedule of
\* jobs, failures and restarts that leaves the archive undisturbed.
THEOREM ArchiveSurvives == Spec => NothingIsLost
<1> DEFINE Kept == \A f \in Archive \ (disturbed' \cup dropped') : Held(f) => Held(f)'
<1>1. IInv /\ [Next]_vars => [Kept]_vars
  <2> SUFFICES ASSUME IInv, Next PROVE Kept
    OBVIOUS
  <2> QED
    BY StepLosesNothing DEF Calm
<1> QED
  BY <1>1, ArchiveInvariant, PTL DEF Spec, NothingIsLost
=============================================================================
