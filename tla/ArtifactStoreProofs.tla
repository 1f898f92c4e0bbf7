------------------------- MODULE ArtifactStoreProofs -------------------------
(***************************************************************************)
(* Proofs about ArtifactStore, for any number of processes, runs, contents *)
(* and failures, in both storage modes, with and without versions.         *)
(***************************************************************************)
EXTENDS ArtifactStore, TLAPS

-----------------------------------------------------------------------------
(* Types.                                                                  *)

LEMMA InitType == Init => TypeOK
BY ModeAssumption DEF Init, TypeOK, Step, File, Bytes

LEMMA InstallType ==
  ASSUME TypeOK, NEW p \in Process, Install(p)
  PROVE  TypeOK'
<1> USE DEF TypeOK, Goto, locals, Step
<1>1. CASE Start(p)  BY <1>1 DEF Start
<1>2. CASE Build(p)
  <2>1. [bytes |-> ContentOf[p], synced |-> FALSE] \in File
    BY ContentAssumption DEF File, Bytes
  <2> QED  BY <1>2, <2>1 DEF Build
<1>3. CASE SyncFile(p)
  <2>1. temp[p] \in File /\ [temp[p] EXCEPT !.synced = TRUE] \in File
    BY <1>3 DEF SyncFile, File
  <2> QED  BY <1>3, <2>1 DEF SyncFile
<1>4. CASE Link(p)  BY <1>4 DEF Link
<1>5. CASE Compare(p)  BY <1>5 DEF Compare
<1>6. CASE SyncDirectory(p)  BY <1>6 DEF SyncDirectory
<1> QED  BY <1>1, <1>2, <1>3, <1>4, <1>5, <1>6 DEF Install

LEMMA VersionType ==
  ASSUME TypeOK, NEW i \in Nat
  PROVE  Version(i) \in Nat
BY DEF Version

LEMMA PublishType ==
  ASSUME TypeOK, NEW p \in Process, Publish(p)
  PROVE  TypeOK'
<1> USE DEF TypeOK, Goto, locals, Step
<1>1. CASE Snapshot(p)
  <2>1. CASE dest = None  BY <1>1, <2>1 DEF Snapshot
  <2>2. CASE dest # None
    <3>1. dest.bytes \in Bytes  BY <2>2 DEF File
    <3> QED  BY <1>1, <2>2, <3>1 DEF Snapshot
  <2> QED  BY <2>1, <2>2
<1>2. CASE Put(p)
  <2>1. <<snap[p]>> \in Seq(Bytes)  BY <1>2 DEF Put
  <2>2. Version(1) \in Nat  BY VersionType
  <2>3. uploaded' \in [Process -> Nat] /\ pc' \in [Process -> Step]  BY <1>2, <2>2 DEF Put
  <2>4. object' \in Seq(Bytes)  BY <1>2, <2>1 DEF Put
  <2>5. /\ pc[p] = "put" /\ \A q \in Process : pc'[q] = pc[q] \/ q = p
        /\ pc'[p] \in {"put", "verify", "verify_existing", "failed"}
        /\ UNCHANGED <<mode, versioned, temp, snap, dest, disk, reports, runs, faults>>
    BY <1>2 DEF Put
  <2> QED  BY <2>3, <2>4, <2>5
<1>3. CASE VerifyUploaded(p)  BY <1>3 DEF VerifyUploaded
<1>4. CASE VerifyExisting(p)
  <2>1. Version(Len(object)) \in Nat  BY VersionType
  <2> QED  BY <1>4, <2>1 DEF VerifyExisting
<1> QED  BY <1>1, <1>2, <1>3, <1>4 DEF Publish

LEMMA OtherType ==
  ASSUME TypeOK
  PROVE  /\ \A p \in Process : Unlink(p) \/ Report(p) \/ Fails(p) => TypeOK'
         /\ PowerLoss \/ Alter => TypeOK'
<1> USE DEF TypeOK, Goto, locals, Step
<1>1. ASSUME NEW p \in Process, Unlink(p)  PROVE TypeOK'  BY <1>1 DEF Unlink
<1>2. ASSUME NEW p \in Process, Report(p)  PROVE TypeOK'  BY <1>2 DEF Report
<1>3. ASSUME NEW p \in Process, Fails(p)  PROVE TypeOK'  BY <1>3 DEF Fails
<1>4. CASE PowerLoss
  <2>1. dest' \in File \cup {None} /\ disk' = dest'
    <3>1. PICK f \in {dest, disk} :
            /\ dest' \in {f} \cup IF f # None /\ ~f.synced
                                  THEN {[f EXCEPT !.bytes = Torn]} ELSE {}
            /\ disk' = dest'
      BY <1>4 DEF PowerLoss
    <3>2. f \in File => [f EXCEPT !.bytes = Torn] \in File  BY DEF File, Bytes
    <3> QED  BY <3>1, <3>2
  <2> QED  BY <1>4, <2>1 DEF PowerLoss
<1>5. CASE Alter
  <2>1. Append(object, Foreign) \in Seq(Bytes)  BY DEF Bytes
  <2>2. /\ faults' \in Nat /\ object' \in Seq(Bytes)
        /\ UNCHANGED <<mode, versioned, pc, temp, snap, uploaded, dest, disk, reports, runs>>
    BY <1>5, <2>1 DEF Alter
  <2> QED  BY <2>2
<1> QED  BY <1>1, <1>2, <1>3, <1>4, <1>5

LEMMA NextType == TypeOK /\ [Next]_vars => TypeOK'
<1> SUFFICES ASSUME TypeOK, [Next]_vars PROVE TypeOK'  OBVIOUS
<1>1. CASE Next  BY <1>1, InstallType, PublishType, OtherType DEF Next
<1>2. CASE UNCHANGED vars  BY <1>2 DEF vars, locals, TypeOK
<1> QED  BY <1>1, <1>2

\* A process compares only after it has built a file, and uploads or reports only after it
\* has read bytes, whatever fails in between.
THEOREM StoreTypes == Spec => []TypeOK
BY InitType, NextType, PTL DEF Spec

-----------------------------------------------------------------------------
(* Files.                                                                  *)

Own(p) == [bytes |-> ContentOf[p], synced |-> TRUE]

\* A file that is linked was synchronised, so no loss of power tears one.
Whole(f) == f # None => \E p \in Process : f = Own(p)

FilesInv ==
  /\ Whole(dest) /\ Whole(disk)
  /\ \A p \in Process :
       /\ pc[p] = "sync" => temp[p] = [bytes |-> ContentOf[p], synced |-> FALSE]
       /\ pc[p] \in {"link", "compare"} => temp[p] = Own(p)
       /\ pc[p] \in {"put", "verify", "verify_existing", "unlink", "report"}
          => snap[p] \in Content

\* What the reports say of the directory, in local mode.
LocalInv ==
  mode = "local" =>
    /\ \A p \in Process :
         /\ pc[p] \notin {"put", "verify", "verify_existing", "unlink"}
         /\ pc[p] \in {"sync_dir", "snapshot", "report"} => dest = Own(p)
         /\ pc[p] \in {"snapshot", "report"} => disk = Own(p)
         /\ pc[p] = "report" => snap[p] = ContentOf[p]
    /\ \A r \in reports : r.bytes = ContentOf[r.by] /\ dest = Own(r.by) /\ disk = Own(r.by)

\* What they say of the object, in s3 mode: it is the first one, and later ones are foreign.
First(b, v) == object # <<>> /\ b = object[1] /\ v = Version(1)

ObjectInv ==
  mode = "s3" =>
    /\ \A i \in 2..Len(object) : object[i] = Foreign
    /\ \A p \in Process :
         /\ pc[p] = "verify_existing" => object # <<>>
         /\ pc[p] \in {"verify", "unlink", "report"} => First(snap[p], uploaded[p])
    /\ \A r \in reports : First(r.bytes, r.version)

StoreInv == FilesInv /\ LocalInv /\ ObjectInv

LEMMA Synchronised ==
  ASSUME NEW b, NEW was, NEW now
  PROVE  [[bytes |-> b, synced |-> was] EXCEPT !.synced = now] = [bytes |-> b, synced |-> now]
OBVIOUS

LEMMA FilesNext ==
  ASSUME TypeOK, StoreInv, Next
  PROVE  FilesInv'
<1> USE DEF TypeOK, StoreInv, FilesInv, Goto, locals
<1>w. ASSUME Whole(dest'), Whole(disk'), NEW p \in Process,
             \A q \in Process \ {p} : pc'[q] = pc[q] /\ temp'[q] = temp[q] /\ snap'[q] = snap[q],
             /\ pc'[p] = "sync" => temp'[p] = [bytes |-> ContentOf[p], synced |-> FALSE]
             /\ pc'[p] \in {"link", "compare"} => temp'[p] = Own(p)
             /\ pc'[p] \in {"put", "verify", "verify_existing", "unlink", "report"}
                => snap'[p] \in Content
      PROVE  FilesInv'
  BY <1>w DEF Whole
<1>1. ASSUME NEW p \in Process, Start(p)  PROVE FilesInv'  BY <1>1, <1>w DEF Start, Whole
<1>2. ASSUME NEW p \in Process, Build(p)  PROVE FilesInv'  BY <1>2, <1>w DEF Build, Whole
<1>3. ASSUME NEW p \in Process, SyncFile(p)  PROVE FilesInv'
  <2> DEFINE yes == TRUE
             no == FALSE
  <2>1. temp'[p] = [temp[p] EXCEPT !.synced = yes]  BY <1>3 DEF SyncFile
  <2>2. temp[p] = [bytes |-> ContentOf[p], synced |-> no]  BY <1>3 DEF SyncFile
  <2>3. Own(p) = [bytes |-> ContentOf[p], synced |-> yes]  BY DEF Own
  <2>4. temp'[p] = Own(p)
    <3> HIDE DEF yes, no
    <3> QED  BY <2>1, <2>2, <2>3, Synchronised
  <2> QED  BY <1>3, <1>w, <2>4 DEF SyncFile, Whole
<1>4. ASSUME NEW p \in Process, Link(p)  PROVE FilesInv'  BY <1>4, <1>w DEF Link, Whole
<1>5. ASSUME NEW p \in Process, Compare(p)  PROVE FilesInv'  BY <1>5, <1>w DEF Compare, Whole
<1>6. ASSUME NEW p \in Process, SyncDirectory(p)  PROVE FilesInv'
  BY <1>6, <1>w DEF SyncDirectory, Whole
<1>7. ASSUME NEW p \in Process, Snapshot(p)  PROVE FilesInv'
  <2>1. dest # None => dest.bytes \in Content  BY ContentAssumption DEF Whole, Own
  <2>2. CASE dest = None  BY <1>7, <1>w, <2>2 DEF Snapshot, Whole
  <2>3. CASE dest # None  BY <1>7, <1>w, <2>1, <2>3 DEF Snapshot, Whole
  <2> QED  BY <2>2, <2>3
<1>8. ASSUME NEW p \in Process, Put(p)  PROVE FilesInv'  BY <1>8, <1>w DEF Put, Whole
<1>9. ASSUME NEW p \in Process, VerifyUploaded(p) \/ VerifyExisting(p)  PROVE FilesInv'
  <2>1. CASE VerifyUploaded(p)  BY <1>w, <2>1 DEF VerifyUploaded, Whole
  <2>2. CASE VerifyExisting(p)  BY <1>w, <2>2 DEF VerifyExisting, Whole
  <2> QED  BY <1>9, <2>1, <2>2
<1>10. ASSUME NEW p \in Process, Unlink(p) \/ Report(p) \/ Fails(p)  PROVE FilesInv'
  <2>1. CASE Unlink(p)  BY <1>w, <2>1 DEF Unlink, Whole
  <2>2. CASE Report(p)  BY <1>w, <2>2 DEF Report, Whole
  <2>3. CASE Fails(p)  BY <1>w, <2>3 DEF Fails, Whole
  <2> QED  BY <1>10, <2>1, <2>2, <2>3
<1>11. CASE PowerLoss
  <2>1. Whole(dest') /\ disk' = dest'  BY <1>11 DEF PowerLoss, Whole, Own
  <2> QED  BY <1>11, <2>1 DEF PowerLoss, Whole
<1>12. CASE Alter  BY <1>12 DEF Alter, Whole
<1> QED  BY <1>1, <1>2, <1>3, <1>4, <1>5, <1>6, <1>7, <1>8, <1>9, <1>10, <1>11, <1>12
         DEF Next, Install, Publish

\* In local mode nothing is removed: who finds the file of another process finds its own
\* bytes or fails, and synchronises the entry before it goes on.
LEMMA LocalNext ==
  ASSUME TypeOK, StoreInv, Next, mode = "local"
  PROVE  LocalInv'
<1> USE DEF TypeOK, StoreInv, LocalInv, Goto, locals
<1>0. mode' = mode  BY DEF Next, Install, Publish, Start, Build, SyncFile, Link, Compare,
        SyncDirectory, Snapshot, Put, VerifyUploaded, VerifyExisting, Unlink, Report, Fails,
        PowerLoss, Alter
<1>w. ASSUME NEW p \in Process,
             \A q \in Process \ {p} : pc'[q] = pc[q] /\ snap'[q] = snap[q],
             dest' = dest \/ dest = None, disk' = disk \/ disk' = dest,
             dest' = dest \/ disk' = disk,
             pc'[p] \notin {"put", "verify", "verify_existing", "unlink"},
             pc'[p] \in {"sync_dir", "snapshot", "report"} => dest' = Own(p),
             pc'[p] \in {"snapshot", "report"} => disk' = Own(p),
             pc'[p] = "report" => snap'[p] = ContentOf[p],
             reports' = reports
      PROVE  LocalInv'
  <2>1. \A q \in Process : Own(q) # None
    <3>1. \A q \in Process : Own(q) \in File
      BY ContentAssumption DEF Own, File, Bytes
    <3> QED  BY <3>1, NoneAssumption
  <2> QED  BY <1>0, <1>w, <2>1
<1>1. ASSUME NEW p \in Process, Start(p)  PROVE LocalInv'  BY <1>1, <1>w DEF Start
<1>2. ASSUME NEW p \in Process, Build(p)  PROVE LocalInv'  BY <1>2, <1>w DEF Build
<1>3. ASSUME NEW p \in Process, SyncFile(p)  PROVE LocalInv'  BY <1>3, <1>w DEF SyncFile
<1>4. ASSUME NEW p \in Process, Link(p)  PROVE LocalInv'
  <2>1. temp[p] = Own(p)  BY <1>4 DEF Link, FilesInv
  <2>2. CASE dest = None  BY <1>4, <1>w, <2>1, <2>2 DEF Link
  <2>3. CASE dest # None  BY <1>4, <1>w, <2>3 DEF Link
  <2> QED  BY <2>2, <2>3
<1>5. ASSUME NEW p \in Process, Compare(p)  PROVE LocalInv'
  BY <1>5, <1>w DEF Compare, FilesInv, Whole, Own
<1>6. ASSUME NEW p \in Process, SyncDirectory(p)  PROVE LocalInv'
  BY <1>6, <1>w DEF SyncDirectory
<1>7. ASSUME NEW p \in Process, Snapshot(p)  PROVE LocalInv'
  BY <1>7, <1>w DEF Snapshot, Own
<1>8. ASSUME NEW p \in Process, Fails(p)  PROVE LocalInv'  BY <1>8, <1>w DEF Fails
<1>9. ASSUME NEW p \in Process, Report(p)  PROVE LocalInv'
  <2>1. dest = Own(p) /\ disk = Own(p) /\ snap[p] = ContentOf[p]  BY <1>9 DEF Report
  <2> QED  BY <1>9, <2>1 DEF Report
<1>10. ASSUME NEW p \in Process, Put(p) \/ VerifyUploaded(p) \/ VerifyExisting(p) \/ Unlink(p)
       PROVE  LocalInv'
  BY <1>10 DEF Put, VerifyUploaded, VerifyExisting, Unlink
<1>11. CASE PowerLoss
  <2>1. dest = disk => dest' = dest /\ disk' = disk
    BY <1>11 DEF PowerLoss, FilesInv, Whole, Own
  <2> QED  BY <1>11, <2>1 DEF PowerLoss
<1>12. CASE Alter  BY <1>12 DEF Alter
<1> QED  BY <1>1, <1>2, <1>3, <1>4, <1>5, <1>6, <1>7, <1>8, <1>9, <1>10, <1>11, <1>12
         DEF Next, Install, Publish

-----------------------------------------------------------------------------
(* The object.                                                             *)

\* The first object stays, and later ones are foreign.
Grows == /\ object # <<>> => object' # <<>> /\ object'[1] = object[1]
         /\ \A i \in 2..Len(object') : object'[i] = Foreign
         /\ versioned' = versioned

LEMMA ObjectGrows ==
  ASSUME TypeOK, StoreInv, Next, mode = "s3"
  PROVE  Grows
<1> USE DEF TypeOK, StoreInv, ObjectInv, Grows
<1>1. ASSUME UNCHANGED <<object, versioned>>  PROVE Grows  BY <1>1
<1>2. ASSUME NEW p \in Process, Put(p)  PROVE Grows
  <2>1. versioned' = versioned  BY <1>2 DEF Put
  <2>2. CASE object = <<>> /\ object' = <<snap[p]>>  BY <2>1, <2>2
  <2>3. CASE object # <<>> /\ object' = object  BY <2>1, <2>3
  <2> QED  BY <1>2, <2>2, <2>3 DEF Put
<1>3. CASE Alter
  <2>1. object # <<>> /\ object' = Append(object, Foreign) /\ versioned' = versioned
    BY <1>3 DEF Alter
  <2>2. Foreign \in Bytes  BY DEF Bytes
  <2>3. Len(object') = Len(object) + 1 /\ Len(object) >= 1
    BY <2>1, <2>2
  <2>4. object'[1] = object[1]  BY <2>1, <2>2, <2>3
  <2>5. ASSUME NEW i \in 2..Len(object')  PROVE object'[i] = Foreign
    <3>1. CASE i \in 2..Len(object)  BY <2>1, <2>2, <3>1
    <3>2. CASE i = Len(object) + 1  BY <2>1, <2>2, <3>2
    <3> QED  BY <2>3, <3>1, <3>2
  <2> QED  BY <2>1, <2>3, <2>4, <2>5
<1> QED
  BY <1>1, <1>2, <1>3
     DEF Next, Install, Publish, Start, Build, SyncFile, Link, Compare, SyncDirectory, Snapshot,
         VerifyUploaded, VerifyExisting, Unlink, Report, Fails, PowerLoss

\* The current object is a document of a process only if it is the first.
LEMMA CurrentIsFirst ==
  ASSUME TypeOK, ObjectInv, mode = "s3", object # <<>>, object[Len(object)] \in Content
  PROVE  Len(object) = 1
<1> DEFINE n == Len(object)
<1>1. n \in Nat /\ n >= 1  BY DEF TypeOK
<1>2. object[n] # Foreign  BY ContentAssumption
<1>3. n \notin 2..n  BY <1>2 DEF ObjectInv
<1> HIDE DEF n
<1>4. n = 1  BY <1>1, <1>3
<1> QED  BY <1>4 DEF n

LEMMA ObjectNext ==
  ASSUME TypeOK, StoreInv, Next, mode = "s3"
  PROVE  ObjectInv'
<1> USE DEF Goto, locals
<1>g. Grows  BY ObjectGrows
<1>f. \A b, v : First(b, v) => First(b, v)'
  BY <1>g DEF Grows, First, Version
<1>e. object # <<>> => object' # <<>>  BY <1>g DEF Grows
<1>w. ASSUME NEW p \in Process,
             \A q \in Process \ {p} : pc'[q] = pc[q] /\ snap'[q] = snap[q]
                                      /\ uploaded'[q] = uploaded[q],
             pc'[p] = "verify_existing" => object' # <<>>,
             pc'[p] \in {"verify", "unlink", "report"} => First(snap[p], uploaded[p])',
             reports' = reports
      PROVE  ObjectInv'
  <2>1. \A i \in 2..Len(object') : object'[i] = Foreign  BY <1>g DEF Grows
  <2>2. \A q \in Process : pc'[q] = "verify_existing" => object' # <<>>
    BY <1>w, <1>e DEF StoreInv, ObjectInv
  <2>3. \A q \in Process :
          pc'[q] \in {"verify", "unlink", "report"} => First(snap[q], uploaded[q])'
    BY <1>w, <1>f DEF StoreInv, ObjectInv, First, Version
  <2>4. \A r \in reports' : First(r.bytes, r.version)'
    BY <1>w, <1>f DEF StoreInv, ObjectInv
  <2> QED  BY <2>1, <2>2, <2>3, <2>4 DEF ObjectInv
<1>s. ASSUME NEW p \in Process, object # <<>>, object' = object,
             pc[p] \in {"verify", "verify_existing"}, object[Len(object)] = snap[p]
      PROVE  Len(object) = 1 /\ snap[p] = object[1]
  <2>1. snap[p] \in Content  BY <1>s DEF StoreInv, FilesInv
  <2> QED  BY <1>s, <2>1, CurrentIsFirst DEF StoreInv
<1>1. ASSUME NEW p \in Process,
             Start(p) \/ Build(p) \/ SyncFile(p) \/ Link(p) \/ Compare(p) \/ SyncDirectory(p)
      PROVE  ObjectInv'
  BY <1>1, <1>w DEF Start, Build, SyncFile, Link, Compare, SyncDirectory, TypeOK
<1>2. ASSUME NEW p \in Process, Snapshot(p)  PROVE ObjectInv'
  BY <1>2, <1>w DEF Snapshot, TypeOK
<1>3. ASSUME NEW p \in Process, Put(p)  PROVE ObjectInv'
  <2>1. CASE object = <<>> /\ object' = <<snap[p]>>
    <3>1. object' # <<>> /\ object'[1] = snap[p] /\ snap' = snap /\ versioned' = versioned
      BY <1>3, <2>1 DEF Put
    <3>2. pc'[p] = "verify" => First(snap[p], uploaded[p])'
      BY <1>3, <2>1, <3>1 DEF Put, First, Version, TypeOK
    <3> QED  BY <1>3, <1>w, <2>1, <3>1, <3>2 DEF Put, TypeOK
  <2>2. CASE object # <<>> /\ object' = object
    BY <1>3, <1>w, <2>2 DEF Put, TypeOK
  <2> QED  BY <1>3, <2>1, <2>2 DEF Put
<1>4. ASSUME NEW p \in Process, VerifyUploaded(p)  PROVE ObjectInv'
  <2>1. First(snap[p], uploaded[p])  BY <1>4 DEF VerifyUploaded, StoreInv, ObjectInv
  <2> QED  BY <1>4, <1>w, <2>1 DEF VerifyUploaded, TypeOK, First, Version
<1>5. ASSUME NEW p \in Process, VerifyExisting(p)  PROVE ObjectInv'
  <2>1. object # <<>> /\ object' = object /\ versioned' = versioned /\ snap' = snap
    BY <1>5 DEF VerifyExisting, StoreInv, ObjectInv
  <2>2. CASE object[Len(object)] = snap[p]
    <3>1. Len(object) = 1 /\ snap[p] = object[1]
      BY <1>5, <1>s, <2>1, <2>2 DEF VerifyExisting
    <3>2. First(snap[p], uploaded[p])'
      BY <1>5, <2>1, <2>2, <3>1 DEF VerifyExisting, First, Version, TypeOK
    <3> QED  BY <1>5, <1>w, <2>2, <3>2 DEF VerifyExisting, TypeOK
  <2>3. CASE object[Len(object)] # snap[p]
    BY <1>5, <1>w, <2>3 DEF VerifyExisting, TypeOK
  <2> QED  BY <2>2, <2>3
<1>6. ASSUME NEW p \in Process, Unlink(p)  PROVE ObjectInv'
  <2>1. First(snap[p], uploaded[p])  BY <1>6 DEF Unlink, StoreInv, ObjectInv
  <2> QED  BY <1>6, <1>w, <2>1 DEF Unlink, TypeOK, First, Version
<1>7. ASSUME NEW p \in Process, Fails(p)  PROVE ObjectInv'
  BY <1>7, <1>w DEF Fails, TypeOK
<1>8. ASSUME NEW p \in Process, Report(p)  PROVE ObjectInv'
  <2> DEFINE r == [by |-> p, bytes |-> snap[p], version |-> uploaded[p]]
  <2>1. First(r.bytes, r.version)  BY <1>8 DEF Report, StoreInv, ObjectInv
  <2>2. reports' = reports \cup {r} /\ UNCHANGED <<object, versioned, snap, uploaded>>
        /\ \A q \in Process : pc'[q] = "reported" \/ pc'[q] = pc[q]
    BY <1>8 DEF Report, TypeOK
  <2> QED  BY <2>1, <2>2 DEF StoreInv, ObjectInv, First, Version
<1>9. CASE PowerLoss
  <2>1. UNCHANGED <<object, versioned, snap, uploaded, reports>>
        /\ \A q \in Process : pc'[q] \in {"idle", "reported", "failed"}
    BY <1>9 DEF PowerLoss
  <2> QED  BY <2>1 DEF StoreInv, ObjectInv, First, Version
<1>10. CASE Alter
  <2>1. UNCHANGED <<pc, snap, uploaded, reports>>  BY <1>10 DEF Alter
  <2>2. \A q \in Process : pc[q] \in {"verify", "unlink", "report"}
                            => First(snap[q], uploaded[q])'
    BY <1>f, <2>1 DEF StoreInv, ObjectInv, First, Version
  <2>3. \A q \in reports : First(q.bytes, q.version)'  BY <1>f DEF StoreInv, ObjectInv
  <2>4. \A i \in 2..Len(object') : object'[i] = Foreign  BY <1>g DEF Grows
  <2> QED  BY <1>e, <2>1, <2>2, <2>3, <2>4 DEF StoreInv, ObjectInv
<1> QED  BY <1>1, <1>2, <1>3, <1>4, <1>5, <1>6, <1>7, <1>8, <1>9, <1>10
         DEF Next, Install, Publish

-----------------------------------------------------------------------------

LEMMA InitStore == Init => StoreInv
BY DEF Init, StoreInv, FilesInv, LocalInv, ObjectInv, Whole

LEMMA NextStore == TypeOK /\ StoreInv /\ [Next]_vars => StoreInv'
<1> SUFFICES ASSUME TypeOK, StoreInv, [Next]_vars PROVE StoreInv'  OBVIOUS
<1>1. CASE Next
  <2>1. mode' = mode
    BY <1>1 DEF Next, Install, Publish, Start, Build, SyncFile, Link, Compare, SyncDirectory,
        Snapshot, Put, VerifyUploaded, VerifyExisting, Unlink, Report, Fails, PowerLoss, Alter
  <2>2. LocalInv'
    <3>1. CASE mode = "local"  BY <1>1, <3>1, LocalNext
    <3>2. CASE mode # "local"  BY <2>1, <3>2 DEF LocalInv
    <3> QED  BY <3>1, <3>2
  <2>3. ObjectInv'
    <3>1. CASE mode = "s3"  BY <1>1, <3>1, ObjectNext
    <3>2. CASE mode # "s3"  BY <2>1, <3>2 DEF ObjectInv
    <3> QED  BY <3>1, <3>2
  <2> QED  BY <1>1, <2>2, <2>3, FilesNext DEF StoreInv
<1>2. CASE UNCHANGED vars
  BY <1>2 DEF vars, locals, StoreInv, FilesInv, LocalInv, ObjectInv, Whole, First, Version
<1> QED  BY <1>1, <1>2

LEMMA StoreInvariant == Spec => [](TypeOK /\ StoreInv)
BY InitType, NextType, InitStore, NextStore, PTL DEF Spec

\* In local mode a process reports its own document, whoever else used its destination.
THEOREM LocalReports == Spec => []LocalReportMatchesRequest
<1>1. StoreInv => LocalReportMatchesRequest
  BY DEF StoreInv, LocalInv, LocalReportMatchesRequest
<1> QED  BY <1>1, StoreInvariant, PTL

\* A reported document survives a loss of power at any point, also when the entry was
\* created by a process that died before it synchronised the directory.
THEOREM ReportsAreDurable == Spec => []ReportedIsDurable
<1>1. StoreInv => ReportedIsDurable
  BY DEF StoreInv, LocalInv, ReportedIsDurable, Own
<1> QED  BY <1>1, StoreInvariant, PTL

\* Whoever reports a document of this name reports the same bytes, in both modes, for any
\* number of requests that share it.
THEOREM IdentityIsOne == Spec => []OneIdentity
<1>1. TypeOK /\ StoreInv => OneIdentity
  <2> SUFFICES ASSUME TypeOK, StoreInv, NEW r \in reports, NEW q \in reports
               PROVE  r.bytes = q.bytes
    BY DEF OneIdentity
  <2>1. CASE mode = "local"
    <3>1. dest.bytes = r.bytes /\ dest.bytes = q.bytes
      BY <2>1 DEF StoreInv, LocalInv, Own
    <3> QED  BY <3>1
  <2>2. CASE mode = "s3"
    BY <2>2 DEF StoreInv, ObjectInv, First
  <2> QED  BY <2>1, <2>2 DEF TypeOK
<1> QED  BY <1>1, StoreInvariant, PTL

\* In s3 mode the reported version holds the reported bytes, whatever is put under the key
\* later or between an upload and its verification.
THEOREM VersionsHold == Spec => []ReportedVersionHolds
<1>1. TypeOK /\ StoreInv => ReportedVersionHolds
  <2> SUFFICES ASSUME TypeOK, StoreInv, mode = "s3", NEW r \in reports
               PROVE  IF versioned THEN r.version \in 1..Len(object) /\ object[r.version] = r.bytes
                                   ELSE \E i \in 1..Len(object) : object[i] = r.bytes
    BY DEF ReportedVersionHolds
  <2>1. object # <<>> /\ r.bytes = object[1] /\ r.version = Version(1)
    BY DEF StoreInv, ObjectInv, First
  <2>2. 1 \in 1..Len(object)  BY <2>1 DEF TypeOK
  <2> QED  BY <2>1, <2>2 DEF Version
<1> QED  BY <1>1, StoreInvariant, PTL

-----------------------------------------------------------------------------
(* ArtifactStore implements DocumentStore.                                 *)

\* What the synchronised directory holds is what is in use: in local mode nothing is
\* removed, and a link never replaces.
DurableInv == mode = "local" /\ disk # None => dest = disk

LEMMA ModeStays ==
  ASSUME Next
  PROVE  mode' = mode
BY DEF Next, Install, Publish, Start, Build, SyncFile, Link, Compare, SyncDirectory, Snapshot,
       Put, VerifyUploaded, VerifyExisting, Unlink, Report, Fails, PowerLoss, Alter

\* In local mode a synchronised entry is there for good.
LEMMA EntryStep ==
  ASSUME StoreInv, DurableInv, Next, mode = "local"
  PROVE  /\ disk # None => disk' = disk
         /\ DurableInv'
<1> USE DEF DurableInv
<1>1. ASSUME NEW p \in Process, Link(p)
      PROVE  (disk # None => disk' = disk) /\ DurableInv'
  BY <1>1 DEF Link
<1>2. ASSUME NEW p \in Process, SyncDirectory(p)
      PROVE  (disk # None => disk' = disk) /\ DurableInv'
  BY <1>2 DEF SyncDirectory
<1>3. ASSUME NEW p \in Process, Unlink(p)
      PROVE  FALSE
  BY <1>3 DEF Unlink, StoreInv, LocalInv
<1>4. CASE PowerLoss
  <2>1. dest' = disk'
    BY <1>4 DEF PowerLoss
  <2>2. disk # None => disk.synced
    BY DEF StoreInv, FilesInv, Whole, Own
  <2>3. disk # None => disk' = disk
    BY <1>4, <2>2 DEF PowerLoss
  <2> QED  BY <2>1, <2>3
<1>5. CASE UNCHANGED <<mode, dest, disk>>
  BY <1>5
<1> QED
  BY <1>1, <1>2, <1>3, <1>4, <1>5
     DEF Next, Install, Publish, Start, Build, SyncFile, Compare, Snapshot, Put,
         VerifyUploaded, VerifyExisting, Report, Fails, Alter, locals

\* The name's document stays, or is the first one, of a process.
LEMMA StoredStep ==
  ASSUME TypeOK, StoreInv, StoreInv', DurableInv, Next
  PROVE  \/ StoredBytes' = StoredBytes
         \/ StoredBytes = {} /\ \E i \in Content : StoredBytes' = {i}
<1>0. mode' = mode /\ mode \in {"local", "s3"}
  BY ModeStays DEF TypeOK
<1>1. CASE mode = "local"
  <2>1. disk # None => disk' = disk
    BY <1>1, EntryStep
  <2>2. disk' # None => disk'.bytes \in Content
    BY ContentAssumption DEF StoreInv, FilesInv, Whole, Own
  <2> QED  BY <1>0, <1>1, <2>1, <2>2 DEF StoredBytes
<1>2. CASE mode = "s3"
  <2>1. object # <<>> => object' # <<>> /\ object'[1] = object[1]
    BY <1>2, ObjectGrows DEF Grows
  <2>2. object = <<>> => object' = <<>> \/ \E i \in Content : object' = <<i>>
    <3>1. ASSUME NEW p \in Process, Put(p), object = <<>>
          PROVE  \E i \in Content : object' = <<i>>
      BY <3>1 DEF Put, StoreInv, FilesInv
    <3> QED
      BY <3>1 DEF Next, Install, Publish, Start, Build, SyncFile, Link, Compare, SyncDirectory,
           Snapshot, VerifyUploaded, VerifyExisting, Unlink, Report, Fails, PowerLoss, Alter
  <2>3. \A i : <<i>> # <<>> /\ <<i>>[1] = i
    OBVIOUS
  <2> QED  BY <1>0, <1>2, <2>1, <2>2, <2>3 DEF StoredBytes
<1> QED  BY <1>0, <1>1, <1>2

\* A process reports what is stored.
LEMMA ReportStored ==
  ASSUME TypeOK, StoreInv, NEW p \in Process, Report(p)
  PROVE  StoredBytes = {snap[p]} /\ StoredBytes' = StoredBytes
<1>1. pc[p] = "report" /\ UNCHANGED <<mode, disk, object>>
  BY DEF Report
<1>2. CASE mode = "local"
  <2>1. disk = Own(p) /\ snap[p] = ContentOf[p] /\ disk \in File \cup {None}
    BY <1>1, <1>2 DEF StoreInv, LocalInv, TypeOK
  <2>2. Own(p) \in File
    BY ContentAssumption DEF Own, File, Bytes
  <2> QED  BY <1>1, <1>2, <2>1, <2>2, NoneAssumption DEF StoredBytes, Own
<1>3. CASE mode = "s3"
  BY <1>1, <1>3 DEF StoreInv, ObjectInv, First, StoredBytes
<1> QED  BY <1>2, <1>3 DEF TypeOK

LEMMA StoreImplements ==
  ASSUME TypeOK, StoreInv, StoreInv', DurableInv, [Next]_vars
  PROVE  [Document!Next]_(Document!vars)
<1> DEFINE told == {r.bytes : r \in reports}
           oneStored == [n \in {"name"} |-> StoredBytes]
           oneTold == [n \in {"name"} |-> told]
<1>1. CASE UNCHANGED vars
  BY <1>1 DEF vars, Document!vars, StoredBytes
<1>2. ASSUME NEW p \in Process, Report(p)
      PROVE  Document!Report("name")
  <2>1. StoredBytes = {snap[p]} /\ StoredBytes' = StoredBytes
    BY <1>2, ReportStored
  <2>2. told' = told \cup {snap[p]}
    <3> DEFINE r == [by |-> p, bytes |-> snap[p], version |-> uploaded[p]]
    <3>1. reports' = reports \cup {r} /\ r.bytes = snap[p]
      BY <1>2 DEF Report
    <3> HIDE DEF r
    <3> QED  BY <3>1
  <2> HIDE DEF told
  <2>3. oneTold' = [oneTold EXCEPT !["name"] = @ \cup oneStored["name"]]
    BY <2>1, <2>2
  <2>4. oneStored["name"] # {} /\ oneStored' = oneStored
    BY <2>1
  <2> QED  BY <2>3, <2>4 DEF Document!Report, told
<1>3. CASE Next /\ UNCHANGED reports
  <2>1. CASE StoredBytes' = StoredBytes
    BY <1>3, <2>1 DEF Document!vars
  <2>2. ASSUME StoredBytes = {}, NEW i \in Content, StoredBytes' = {i}
        PROVE  Document!Store("name", i)
    <3>1. oneStored' = [oneStored EXCEPT !["name"] = {i}]
      BY <2>2
    <3>2. oneStored["name"] = {} /\ oneTold' = oneTold
      BY <1>3, <2>2
    <3> QED  BY <3>1, <3>2 DEF Document!Store
  <2> QED  BY <1>3, <2>1, <2>2, StoredStep DEF Document!Next
<1>4. Next => UNCHANGED reports \/ \E p \in Process : Report(p)
  BY DEF Next, Install, Publish, Start, Build, SyncFile, Link, Compare, SyncDirectory, Snapshot,
         Put, VerifyUploaded, VerifyExisting, Unlink, Fails, PowerLoss, Alter
<1> QED  BY <1>1, <1>2, <1>3, <1>4 DEF Document!Next

\* The processes of one name together make one store that is written once, for any number
\* of them, any contents, failures and losses of power.
THEOREM StoreIsWrittenOnce == Spec => ImplementsStore
<1>1. Init => Document!Init /\ DurableInv
  BY DEF Init, Document!Init, DurableInv, StoredBytes
<1>2. TypeOK /\ StoreInv /\ DurableInv /\ [Next]_vars => DurableInv'
  <2>1. CASE Next
    <3>1. CASE mode = "local"  BY <2>1, <3>1, EntryStep
    <3>2. CASE mode # "local"  BY <2>1, <3>2, ModeStays DEF DurableInv
    <3> QED  BY <3>1, <3>2
  <2>2. CASE UNCHANGED vars  BY <2>2 DEF vars, DurableInv
  <2> QED  BY <2>1, <2>2
<1>3. TypeOK /\ StoreInv /\ StoreInv' /\ DurableInv /\ [Next]_vars
        => [Document!Next]_(Document!vars)
  BY StoreImplements
<1> QED  BY <1>1, <1>2, <1>3, StoreInvariant, PTL DEF Spec, ImplementsStore, Document!Spec
=============================================================================
