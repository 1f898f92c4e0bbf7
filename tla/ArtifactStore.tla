---------------------------- MODULE ArtifactStore ----------------------------
(***************************************************************************)
(* How one artifact becomes durable: the renderer's installation of a PDF  *)
(* in the shared output directory (_build_pdf), the publication of its     *)
(* bytes in the bucket (publish_document), and the worker's removal of the *)
(* staging copy.                                                           *)
(*                                                                         *)
(* All the processes here work on the same destination and the same object *)
(* key, KIND-IDENTIFIER-JOB.pdf, for one request delivered several times   *)
(* or for requests whose names coincide and whose bytes may differ.        *)
(* Other names are independent.  A directory entry survives a loss of      *)
(* power for sure only after the directory was synchronised, and the bytes *)
(* of a file after the file was.                                           *)
(***************************************************************************)
EXTENDS Naturals, Sequences

CONSTANTS
  Process,      \* handlings that may run at the same time
  Content,      \* the bytes that requests of this name render to
  ContentOf,    \* the bytes each process renders
  StorageModes, \* values of document_storage_mode
  Foreign,      \* bytes no process renders
  Torn,         \* bytes of a file that was not synchronised
  None,
  MaxRuns,      \* bound on how often a process handles its request
  MaxFaults     \* bound on failures of the machine and alterations of the object

ASSUME ContentAssumption ==
  /\ ContentOf \in [Process -> Content]
  /\ {Foreign, Torn, None} \cap Content = {} /\ Torn # None /\ Foreign # None
ASSUME ModeAssumption == StorageModes \subseteq {"local", "s3"}
ASSUME RunAssumption == MaxRuns \in Nat /\ MaxFaults \in Nat

VARIABLES
  mode,       \* document_storage_mode
  versioned,  \* the bucket keeps versions
  pc,         \* what each process does next
  temp,       \* its temporary file, None or [bytes, synced]
  dest,       \* the destination file, None or [bytes, synced]
  disk,       \* what the synchronised directory holds of it
  snap,       \* the bytes a process read back from the destination
  uploaded,   \* the version its upload was given, 0 for none
  object,     \* contents put under the key, the current one last
  reports,    \* identities reported to Harmony
  runs,       \* how often each process has started
  faults

locals == <<temp, snap, uploaded>>
vars == <<mode, versioned, pc, temp, dest, disk, snap, uploaded, object, reports, runs, faults>>

Bytes == Content \cup {Foreign, Torn}
File == [bytes : Bytes, synced : BOOLEAN]

ASSUME NoneAssumption == None \notin File

Goto(p, step) == pc' = [pc EXCEPT ![p] = step]

\* The version of the current object, 0 in a bucket that keeps none.
Version(i) == IF versioned THEN i ELSE 0

-----------------------------------------------------------------------------
(* _build_pdf.                                                             *)

Start(p) ==
  /\ pc[p] \in {"idle", "reported", "failed"} /\ runs[p] < MaxRuns
  /\ runs' = [runs EXCEPT ![p] = @ + 1]
  /\ snap' = [snap EXCEPT ![p] = None]
  /\ uploaded' = [uploaded EXCEPT ![p] = 0]
  /\ Goto(p, "build")
  /\ UNCHANGED <<mode, versioned, temp, dest, disk, object, reports, faults>>

\* mkstemp and pdf.build: equal requests build equal bytes.
Build(p) ==
  /\ pc[p] = "build"
  /\ temp' = [temp EXCEPT ![p] = [bytes |-> ContentOf[p], synced |-> FALSE]]
  /\ Goto(p, "sync")
  /\ UNCHANGED <<mode, versioned, dest, disk, snap, uploaded, object, reports, runs, faults>>

\* fsync of the file, and the identity of what it holds.
SyncFile(p) ==
  /\ pc[p] = "sync"
  /\ temp' = [temp EXCEPT ![p].synced = TRUE]
  /\ Goto(p, "link")
  /\ UNCHANGED <<mode, versioned, dest, disk, snap, uploaded, object, reports, runs, faults>>

\* Mutant: os.replace in the place of os.link.
LinkReplaces(p) ==
  /\ pc[p] = "link"
  /\ dest' = temp[p]
  /\ Goto(p, "sync_dir")
  /\ UNCHANGED <<mode, versioned, locals, disk, object, reports, runs, faults>>

\* os.link creates the destination, or finds that it exists.
Link(p) ==
  /\ pc[p] = "link"
  /\ \/ dest = None /\ dest' = temp[p] /\ Goto(p, "sync_dir")
     \/ dest # None /\ dest' = dest /\ Goto(p, "compare")
  /\ UNCHANGED <<mode, versioned, locals, disk, object, reports, runs, faults>>

\* Mutant: any file at the destination is taken for the same document.
CompareNothing(p) ==
  /\ pc[p] = "compare"
  /\ Goto(p, "sync_dir")
  /\ UNCHANGED <<mode, versioned, locals, dest, disk, object, reports, runs, faults>>

\* A file that exists must have the same bytes; it may be gone again by now.
Compare(p) ==
  /\ pc[p] = "compare"
  /\ Goto(p, IF dest # None /\ dest.bytes = temp[p].bytes THEN "sync_dir" ELSE "failed")
  /\ UNCHANGED <<mode, versioned, locals, dest, disk, object, reports, runs, faults>>

\* Mutant: the entry is taken for durable.
SyncDirectorySkipped(p) ==
  /\ pc[p] = "sync_dir"
  /\ Goto(p, "snapshot")
  /\ UNCHANGED <<mode, versioned, locals, dest, disk, object, reports, runs, faults>>

\* _fsync_directory, also after an entry that another process created.
SyncDirectory(p) ==
  /\ pc[p] = "sync_dir"
  /\ disk' = dest
  /\ Goto(p, "snapshot")
  /\ UNCHANGED <<mode, versioned, locals, dest, object, reports, runs, faults>>

-----------------------------------------------------------------------------
(* publish_document.                                                       *)

\* Mutant: a file that is not there is taken for an empty one.
SnapshotAbsent(p) ==
  /\ pc[p] = "snapshot"
  /\ snap' = [snap EXCEPT ![p] = IF dest = None THEN None ELSE dest.bytes]
  /\ Goto(p, IF mode = "local" THEN "report" ELSE "put")
  /\ UNCHANGED <<mode, versioned, temp, uploaded, dest, disk, object, reports, runs, faults>>

\* _rendered_snapshot reads the destination once; local mode is done with it.
Snapshot(p) ==
  /\ pc[p] = "snapshot"
  /\ IF dest = None
     THEN Goto(p, "failed") /\ UNCHANGED snap
     ELSE /\ snap' = [snap EXCEPT ![p] = dest.bytes]
          /\ Goto(p, IF mode = "local" THEN "report" ELSE "put")
  /\ UNCHANGED <<mode, versioned, temp, uploaded, dest, disk, object, reports, runs, faults>>

\* Mutant: the upload replaces what is there.
PutOverwrites(p) ==
  /\ pc[p] = "put"
  /\ object' = Append(object, snap[p])
  /\ uploaded' = [uploaded EXCEPT ![p] = Version(Len(object'))]
  /\ Goto(p, "verify")
  /\ UNCHANGED <<mode, versioned, temp, snap, dest, disk, reports, runs, faults>>

\* put_object with If-None-Match: the first upload creates the object.  When its answer
\* is lost, the client tries again or gives up; later ones fail their precondition.
Put(p) ==
  /\ pc[p] = "put"
  /\ \/ /\ object = <<>>
        /\ object' = <<snap[p]>>
        /\ \/ /\ uploaded' = [uploaded EXCEPT ![p] = Version(1)]
              /\ Goto(p, "verify")
           \/ /\ UNCHANGED uploaded
              /\ UNCHANGED pc \/ Goto(p, "failed")
     \/ /\ object # <<>>
        /\ Goto(p, "verify_existing")
        /\ UNCHANGED <<object, uploaded>>
  /\ UNCHANGED <<mode, versioned, temp, snap, dest, disk, reports, runs, faults>>

\* The object of the uploaded version, or the current one when there are no versions,
\* is read back and must be what was sent.
VerifyUploaded(p) ==
  LET read == IF uploaded[p] # 0 THEN object[uploaded[p]] ELSE object[Len(object)] IN
  /\ pc[p] = "verify"
  /\ Goto(p, IF read = snap[p] THEN "unlink" ELSE "failed")
  /\ UNCHANGED <<mode, versioned, locals, dest, disk, object, reports, runs, faults>>

\* Mutant: an object that exists is taken for the same document.
VerifyExistingNothing(p) ==
  /\ pc[p] = "verify_existing"
  /\ uploaded' = [uploaded EXCEPT ![p] = Version(Len(object))]
  /\ Goto(p, "unlink")
  /\ UNCHANGED <<mode, versioned, temp, snap, dest, disk, object, reports, runs, faults>>

\* After a failed precondition the current object must have the same identity.
VerifyExisting(p) ==
  /\ pc[p] = "verify_existing"
  /\ IF object[Len(object)] = snap[p]
     THEN /\ uploaded' = [uploaded EXCEPT ![p] = Version(Len(object))]
          /\ Goto(p, "unlink")
     ELSE Goto(p, "failed") /\ UNCHANGED uploaded
  /\ UNCHANGED <<mode, versioned, temp, snap, dest, disk, object, reports, runs, faults>>

\* The worker removes the staging copy, and reports.
Unlink(p) ==
  /\ pc[p] = "unlink"
  /\ dest' = None
  /\ Goto(p, "report")
  /\ UNCHANGED <<mode, versioned, locals, disk, object, reports, runs, faults>>

Report(p) ==
  /\ pc[p] = "report"
  /\ reports' = reports \cup {[by |-> p, bytes |-> snap[p], version |-> uploaded[p]]}
  /\ Goto(p, "reported")
  /\ UNCHANGED <<mode, versioned, locals, dest, disk, object, runs, faults>>

-----------------------------------------------------------------------------
(* Failures.                                                               *)

\* A system call or a request raises, or the process dies: another run follows.
Fails(p) ==
  /\ pc[p] \notin {"idle", "reported", "failed"}
  /\ Goto(p, "failed")
  /\ UNCHANGED <<mode, versioned, locals, dest, disk, object, reports, runs, faults>>

\* The machine loses power: the entry is the one in use or the one on disk, and a file
\* that was not synchronised may have lost its bytes.
PowerLoss ==
  /\ faults < MaxFaults
  /\ faults' = faults + 1
  /\ \E f \in {dest, disk} :
       /\ dest' \in {f} \cup IF f # None /\ ~f.synced THEN {[f EXCEPT !.bytes = Torn]} ELSE {}
       /\ disk' = dest'
  /\ pc' = [p \in Process |-> IF pc[p] \in {"idle", "reported"} THEN pc[p] ELSE "failed"]
  /\ UNCHANGED <<mode, versioned, locals, object, reports, runs>>

\* Someone else puts other bytes under the key.
Alter ==
  /\ faults < MaxFaults /\ object # <<>>
  /\ faults' = faults + 1
  /\ object' = Append(object, Foreign)
  /\ UNCHANGED <<mode, versioned, pc, locals, dest, disk, reports, runs>>

-----------------------------------------------------------------------------

Init ==
  /\ mode \in StorageModes /\ versioned \in BOOLEAN
  /\ pc = [p \in Process |-> "idle"]
  /\ temp = [p \in Process |-> None] /\ snap = [p \in Process |-> None]
  /\ uploaded = [p \in Process |-> 0]
  /\ dest = None /\ disk = None /\ object = <<>>
  /\ reports = {} /\ runs = [p \in Process |-> 0] /\ faults = 0

Install(p) == Start(p) \/ Build(p) \/ SyncFile(p) \/ Link(p) \/ Compare(p) \/ SyncDirectory(p)
Publish(p) == Snapshot(p) \/ Put(p) \/ VerifyUploaded(p) \/ VerifyExisting(p)

Next == \/ \E p \in Process : Install(p) \/ Publish(p) \/ Unlink(p) \/ Report(p) \/ Fails(p)
        \/ PowerLoss \/ Alter

Spec == Init /\ [][Next]_vars

-----------------------------------------------------------------------------
(* Properties.                                                             *)

Step == {"idle", "build", "sync", "link", "compare", "sync_dir", "snapshot", "put", "verify",
         "verify_existing", "unlink", "report", "reported", "failed"}

\* A process that compares has built a file, one that uploads or reports has read bytes.
TypeOK ==
  /\ \A p \in Process :
       /\ pc[p] \in {"sync", "link", "compare"} => temp[p] \in File
       /\ pc[p] \in {"put", "verify", "verify_existing", "unlink", "report", "reported"}
          => snap[p] \in Bytes
  /\ mode \in {"local", "s3"} /\ versioned \in BOOLEAN
  /\ pc \in [Process -> Step]
  /\ temp \in [Process -> File \cup {None}]
  /\ dest \in File \cup {None} /\ disk \in File \cup {None}
  /\ snap \in [Process -> Bytes \cup {None}]
  /\ uploaded \in [Process -> Nat]
  /\ object \in Seq(Bytes)
  /\ reports \subseteq [by : Process, bytes : Bytes, version : Nat]
  /\ runs \in [Process -> Nat] /\ faults \in Nat

\* In local mode the identity reported for a request is that of its own document,
\* although the destination is shared with requests of the same name and other bytes.
LocalReportMatchesRequest ==
  mode = "local" => \A r \in reports : r.bytes = ContentOf[r.by]

\* In local mode a reported artifact survives a loss of power: its bytes and its entry
\* were synchronised, by whoever created them, before any process reported it.
ReportedIsDurable ==
  mode = "local" => \A r \in reports : disk = [bytes |-> r.bytes, synced |-> TRUE]

\* Requests of one name never get two identities: whoever reports, in whatever order, after
\* whatever failure, reports the bytes that were there first.
OneIdentity == \A r, q \in reports : r.bytes = q.bytes

\* In s3 mode the version that is reported holds the reported bytes, even when the object is
\* altered between upload and verification; without versions the key has held them.
ReportedVersionHolds ==
  mode = "s3" => \A r \in reports :
    IF versioned THEN r.version \in 1..Len(object) /\ object[r.version] = r.bytes
                 ELSE \E i \in 1..Len(object) : object[i] = r.bytes

\* The name's document seen from Harmony: in local mode the one that the directory holds for
\* sure, in s3 mode the first one under the key.
StoredBytes == IF mode = "local" THEN IF disk = None THEN {} ELSE {disk.bytes}
               ELSE IF object = <<>> THEN {} ELSE {object[1]}

Document == INSTANCE DocumentStore WITH
  Name <- {"name"},
  Identity <- Content,
  stored <- [n \in {"name"} |-> StoredBytes],
  reported <- [n \in {"name"} |-> {r.bytes : r \in reports}]

\* The links, uploads and verifications of all processes, with their failures, make one
\* store that is written once: nobody's document takes the place of another's, no loss of
\* power takes one back, and nothing is reported before it is there for good.
ImplementsStore == Document!Spec

\* What worker/README.md says, and s3 mode does not keep: the same name with other bytes
\* is a closed collision.  The staging file a process found or made may be removed by a
\* finished process and made again by another before its bytes are read back.
CollisionIsClosed == \A r \in reports : r.bytes = ContentOf[r.by]
=============================================================================
