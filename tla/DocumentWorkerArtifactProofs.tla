-------------------- MODULE DocumentWorkerArtifactProofs --------------------
(***************************************************************************)
(* Harmony is told that a job is done only when its artifact is stored,    *)
(* and that it failed only when its envelope is archived.  Continuations   *)
(* carry those facts through the retry queue, so the invariants speak of   *)
(* every message in success or failure mode, wherever it is.               *)
(***************************************************************************)
EXTENDS DocumentWorkerProofs

\* The artifact is stored before the success callback is called or promised.
StoredBefore ==
  /\ \A w \in Worker : pc[w] = "notify" => Stored(Src(w))
  /\ \A w \in Worker : pc[w] = "unlink" => StorageMode = "s3" /\ Src(w) \in objects
  /\ \A i \in Id : queue[i] # "free" /\ copy[i].mode = "success" => Stored(copy[i].body.src)
  /\ \A w \in Worker : pc[w] \in Active /\ msg[w].mode = "success" => Stored(Src(w))
  /\ \A w \in Worker : pc[w] = "publish_retry" /\ out[w].mode = "success"
                       => Stored(out[w].body.src)

ArtifactInv == StoredBefore /\ DoneImpliesStored

StoreGrows == \A s \in Source : Stored(s) => Stored(s)'

\* A handler's step of worker w leads to one of its steps, and what that step may do
\* with a success is covered by a stored artifact.
Covered(w) == \E step \in Active, o \in Message \cup Envelope \cup {NoOut} :
  /\ PublishNext(w, step, o)
  /\ step = "notify" => Stored(Src(w))'
  /\ step = "unlink" => StorageMode = "s3" /\ Src(w) \in objects'
  /\ step = "publish_retry" /\ o.mode = "success" => Stored(o.body.src)'
  /\ UNCHANGED <<queue, copy, tag, msg>>

\* Done is reported for a stored artifact only.
CoveredReport == \A s \in Source :
  "done" \in harmony'[s] => "done" \in harmony[s] \/ Stored(s)'

\* The parts of the source of a message that the steps below need.
LEMMA SrcType ==
  ASSUME TypeOK, NEW w \in Worker, pc[w] \in Active
  PROVE  Src(w) \in Source /\ msg[w] \in Message /\ msg[w].body \in Body
BY DEF TypeOK, WorkerOK, Message, Body, Src, Active

\* A failed processing retries the request itself, never a success continuation.
LEMMA ProcessingFailureCovered ==
  ASSUME TypeOK, NEW w \in Worker, pc[w] \in Active, SettleProcessingFailure(w),
         UNCHANGED <<queue, copy, tag, msg>>
  PROVE  Covered(w)
<1> DEFINE k == Attempt(w, msg[w])
           r == RetryMessage(msg[w].body, k + 1, "none")
           e == ArchiveBody(w, msg[w].body, k + 1, "processing-failed")
<1>1. msg[w].body \in Body /\ k \in Nat
  BY SrcType, AttemptType
<1>2. r \in Message /\ e \in Envelope
  BY <1>1, RetryMessageType, ArchiveBodyType DEF Mode, ArchiveFailureCode
<1>3. r.mode = "none"
  BY DEF RetryMessage
<1>4. PublishNext(w, "publish_retry", r) \/ PublishNext(w, "publish_archive", e)
  BY DEF SettleProcessingFailure, RetryNext, ArchiveNext
<1> QED BY <1>2, <1>3, <1>4 DEF Covered, Active

\* A failed callback retries in the mode of the callback.
LEMMA CallbackFailureCovered ==
  ASSUME TypeOK, NEW w \in Worker, pc[w] \in Active, NEW b \in Body, NEW mode \in Mode,
         NEW k \in Nat, SettleCallbackFailure(w, b, mode, k),
         mode = "success" => Stored(b.src)', UNCHANGED <<queue, copy, tag, msg>>
  PROVE  Covered(w)
<1> DEFINE r == RetryMessage(b, k + 1, mode)
           e == ArchiveBody(w, b, k + 1, "callback-failed")
<1>1. r \in Message /\ e \in Envelope
  BY RetryMessageType, ArchiveBodyType DEF ArchiveFailureCode
<1>2. r.mode = mode /\ r.body = b
  BY DEF RetryMessage
<1>3. PublishNext(w, "publish_retry", r) \/ PublishNext(w, "publish_archive", e)
  BY DEF SettleCallbackFailure, RetryNext, ArchiveNext
<1> QED BY <1>1, <1>2, <1>3 DEF Covered, Active

\* Every step of a handler keeps the store and covers the success it leads to.
LEMMA HandleCovered ==
  ASSUME TypeOK, ArtifactInv, NEW w \in Worker, Handle(w)
  PROVE  StoreGrows /\ CoveredReport /\ (Covered(w) \/ (RequeueAndStop(w) /\ UNCHANGED store))
<1> DEFINE kept == UNCHANGED <<queue, copy, tag, msg>>
<1>s. pc[w] \in Active => Src(w) \in Source /\ msg[w] \in Message /\ msg[w].body \in Body
  BY SrcType
<1>g. UNCHANGED store => StoreGrows
  BY DEF store, StoreGrows, Stored
<1>r. UNCHANGED harmony => CoveredReport
  BY DEF CoveredReport
<1>n. \A step \in Active \ {"notify", "unlink", "publish_retry"} :
        Goto(w, step) /\ kept => Covered(w)
  BY DEF Goto, Covered
<1>1. CASE RejectRequest(w)
  <2>1. KindOf[Src(w)] \in ArchiveFailureCode /\ pc[w] \in Active /\ kept
    BY <1>1 DEF RejectRequest, ArchiveFailureCode, broker, Active
  <2>2. ArchiveBody(w, msg[w].body, 1, KindOf[Src(w)]) \in Envelope
    BY <1>s, <2>1, ArchiveBodyType
  <2>3. Covered(w)
    BY <1>1, <2>1, <2>2 DEF RejectRequest, ArchiveNext, Covered, Active
  <2> QED BY <1>1, <1>g, <1>r, <2>3 DEF RejectRequest
<1>2. CASE RequestUncaught(w)
  BY <1>2, <1>g, <1>r, ProcessingFailureCovered DEF RequestUncaught, broker, Active
<1>3. CASE Render(w)
  <2>1. StoreGrows
    BY <1>3 DEF Render, StoreGrows, Stored
  <2> QED BY <1>3, <1>r, <1>n, <2>1 DEF Render, broker, Active
<1>4. CASE RenderFails(w)
  <2>1. StoreGrows
    BY <1>4 DEF RenderFails, StoreGrows, Stored
  <2> QED BY <1>4, <1>r, <2>1, ProcessingFailureCovered DEF RenderFails, broker, Active
<1>5. CASE PublishDocument(w)
  <2>1. StoreGrows /\ pc[w] \in Active /\ kept
    BY <1>5 DEF PublishDocument, StoreGrows, Stored, broker, Active
  <2>2. Stored(Src(w))' /\ (StorageMode = "s3" => Src(w) \in objects')
    BY <1>5 DEF PublishDocument, Stored, Src, broker
  <2>3. Covered(w)
    BY <1>5, <2>1, <2>2 DEF PublishDocument, AfterPublish, Goto, Covered, Active
  <2> QED BY <1>5, <1>r, <2>1, <2>3 DEF PublishDocument
<1>6. CASE PublishDocumentFails(w)
  <2>1. StoreGrows
    BY <1>6 DEF PublishDocumentFails, StoreGrows, Stored
  <2> QED BY <1>6, <1>r, <2>1, ProcessingFailureCovered DEF PublishDocumentFails, broker, Active
<1>7. CASE Unlink(w)
  <2>1. StorageMode = "s3" /\ Src(w) \in objects /\ kept /\ objects' = objects
    BY <1>7 DEF Unlink, ArtifactInv, StoredBefore, broker
  <2>2. StoreGrows /\ Stored(Src(w))'
    BY <2>1 DEF StoreGrows, Stored, Src
  <2>3. Covered(w)
    BY <1>7, <2>1, <2>2 DEF Unlink, Goto, Covered, Active
  <2> QED BY <1>7, <1>r, <2>2, <2>3 DEF Unlink
<1>8. CASE UnlinkFails(w)
  BY <1>8, <1>g, <1>r, ProcessingFailureCovered DEF UnlinkFails, broker, Active
<1>9. CASE NotifySuccess(w)
  <2>1. pc[w] \in Active /\ kept /\ "success" \in Mode /\ UNCHANGED store
    BY <1>9 DEF NotifySuccess, broker, Mode, Active
  <2>2. PICK b \in Body : b = [src |-> Src(w), what |-> "success"]
    BY <1>s, <2>1 DEF Body
  <2>3. Stored(Src(w)) /\ b.src = Src(w)
    BY <1>9, <2>2 DEF NotifySuccess, ArtifactInv, StoredBefore
  <2>4. Stored(Src(w))' /\ Stored(b.src)'
    BY <2>1, <2>3 DEF Stored, store, Src
  <2>5. CoveredReport
    BY <1>9, <1>s, <2>1, <2>4
    DEF NotifySuccess, MayReport, Report, ReportedStatus, CoveredReport, TypeOK, EffectOK, Src
  <2>6. Covered(w)
    <3>1. SettleCallbackFailure(w, b, "success", 0) => Covered(w)
      BY <2>1, <2>2, <2>4, CallbackFailureCovered
    <3>2. SettleProcessingFailure(w) => Covered(w)
      BY <2>1, ProcessingFailureCovered
    <3> QED BY <1>9, <1>n, <2>1, <2>2, <3>1, <3>2 DEF NotifySuccess, Active
  <2> QED BY <1>g, <2>1, <2>5, <2>6
<1>10. CASE DeliverCallback(w)
  <2> DEFINE mode == CallbackMode(w, msg[w])
             b == msg[w].body
  <2>1. pc[w] \in Active /\ kept /\ UNCHANGED store
    BY <1>10 DEF DeliverCallback, broker, Active
  <2>2. b \in Body /\ b.src = Src(w) /\ mode \in Mode /\ Attempt(w, msg[w]) \in Nat
    BY <1>s, <2>1, AttemptType DEF Src
  <2>3. mode = "success" => Stored(Src(w))
    BY <2>1 DEF CallbackMode, ArtifactInv, StoredBefore
  <2>4. mode = "success" => Stored(Src(w))'
    BY <2>1, <2>3 DEF Stored, store, Src
  <2>5. mode = "success" => Stored(b.src)'
    BY <2>1, <2>3 DEF Stored, store, Src
  <2>6. CoveredReport
    BY <1>10, <1>s, <2>1, <2>4
    DEF DeliverCallback, Report, ReportedStatus, CoveredReport, TypeOK, EffectOK, Src
  <2>7. Covered(w)
    <3>1. SettleCallbackFailure(w, b, mode, Attempt(w, msg[w])) => Covered(w)
      BY <2>1, <2>2, <2>5, CallbackFailureCovered
    <3> QED BY <1>10, <1>n, <2>1, <3>1 DEF DeliverCallback, Active
  <2> QED BY <1>g, <2>1, <2>6, <2>7
<1>11. CASE NotifyFailure(w)
  <2> DEFINE b == [src |-> Src(w), what |-> "failure"]
             r == RetryMessage(b, 1, "failure")
             e == ArchiveBody(w, b, 1, "callback-failed")
  <2>1. pc[w] \in Active /\ "failure" \in Mode /\ UNCHANGED store
    BY <1>11 DEF NotifyFailure, Mode, Active
  <2>2. b \in Body
    BY <1>s, <2>1 DEF Body
  <2>3. r \in Message /\ r.mode = "failure" /\ e \in Envelope
    BY <2>1, <2>2, RetryMessageType, ArchiveBodyType DEF RetryMessage, ArchiveFailureCode
  <2>4. CoveredReport
    BY <1>11, <1>s, <2>1
    DEF NotifyFailure, MayReport, Report, ReportedStatus, CoveredReport, TypeOK, EffectOK
  <2>5. kept /\ RetryNext(w, b, 1, "failure") => Covered(w)
    BY <2>3 DEF RetryNext, Covered, Active
  <2>6. kept /\ ArchiveNext(w, b, 1, "callback-failed") => Covered(w)
    BY <2>3 DEF ArchiveNext, Covered, Active
  <2>7. Covered(w) \/ RequeueAndStop(w)
    BY <1>11, <1>n, <2>1, <2>5, <2>6 DEF NotifyFailure, broker, Active
  <2> QED BY <1>g, <2>1, <2>4, <2>7
<1> QED BY <1>1, <1>2, <1>3, <1>4, <1>5, <1>6, <1>7, <1>8, <1>9, <1>10, <1>11 DEF Handle

-----------------------------------------------------------------------------
(* Steps that store nothing: what they hand on was covered.                *)

\* Each copy in success mode after the step is of a stored artifact.
CopiesCarried == \A i \in Id :
  queue'[i] # "free" /\ copy'[i].mode = "success" => Stored(copy'[i].body.src)

\* Each handler stays where it was, or is at a step that needs no artifact.
HandlersCarried == \A w \in Worker :
  \/ pc'[w] = pc[w] /\ msg'[w] = msg[w] /\ out'[w] = out[w]
  \/ /\ pc'[w] \notin {"notify", "unlink", "publish_retry"}
     /\ pc'[w] \in Active /\ msg'[w].mode = "success" => Stored(msg'[w].body.src)

\* Such a step keeps the invariant when it reports done for stored artifacts only.
LEMMA CarriedSafe ==
  ASSUME TypeOK, ArtifactInv, UNCHANGED store, CoveredReport, CopiesCarried, HandlersCarried
  PROVE  ArtifactInv'
<1>1. \A s \in Source : Stored(s)' <=> Stored(s)
  BY DEF Stored, store
<1>2. DoneImpliesStored'
  BY <1>1 DEF ArtifactInv, DoneImpliesStored, CoveredReport
<1>3. StoredBefore'
  BY DEF StoredBefore, ArtifactInv, CopiesCarried, HandlersCarried, Stored, store, Src
<1> QED BY <1>2, <1>3 DEF ArtifactInv

\* A delivery that is given back carries no more than its copy did.
LEMMA GiveBackCarried ==
  ASSUME TypeOK, ArtifactInv, NEW w \in Worker, GiveBack(w)
  PROVE  CopiesCarried
<1>1. CASE Live(w)
  BY <1>1 DEF GiveBack, Live, CopiesCarried, ArtifactInv, StoredBefore, TypeOK, BrokerOK,
              WorkerOK, HoldOK
<1>2. CASE ~Live(w)
  BY <1>2 DEF GiveBack, CopiesCarried, ArtifactInv, StoredBefore
<1> QED BY <1>1, <1>2

\* A worker that stops needs no artifact.
LEMMA StopCarried ==
  ASSUME TypeOK, NEW w \in Worker, Stop(w)
  PROVE  HandlersCarried
BY DEF Stop, HandlersCarried, TypeOK, WorkerOK, Active

\* A worker that gives its delivery back and stops keeps the invariant.
LEMMA RequeueAndStopArtifact ==
  ASSUME TypeOK, ArtifactInv, NEW w \in Worker, RequeueAndStop(w), UNCHANGED store,
         CoveredReport
  PROVE  ArtifactInv'
BY GiveBackCarried, StopCarried, CarriedSafe DEF RequeueAndStop

\* A handler that goes on hands on what it covered.
LEMMA CoveredSafe ==
  ASSUME TypeOK, ArtifactInv, NEW w \in Worker, pc[w] \in Active, StoreGrows,
         CoveredReport, Covered(w)
  PROVE  ArtifactInv'
<1>1. PICK step \in Active, o \in Message \cup Envelope \cup {NoOut} :
        /\ PublishNext(w, step, o)
        /\ step = "notify" => Stored(Src(w))'
        /\ step = "unlink" => StorageMode = "s3" /\ Src(w) \in objects'
        /\ step = "publish_retry" /\ o.mode = "success" => Stored(o.body.src)'
        /\ UNCHANGED <<queue, copy, tag, msg>>
  BY DEF Covered
<1>2. /\ pc' = [pc EXCEPT ![w] = step] /\ out' = [out EXCEPT ![w] = o]
      /\ pc'[w] = step /\ out'[w] = o
      /\ \A v \in Worker \ {w} : pc'[v] = pc[v] /\ out'[v] = out[v]
  BY <1>1 DEF PublishNext, TypeOK, WorkerOK
<1>3. \A s \in Source : objects \subseteq objects' \/ StorageMode # "s3"
  BY DEF StoreGrows, Stored, TypeOK, EffectOK
<1>4. \A v \in Worker : pc'[v] = "notify" => Stored(Src(v))'
  <2> SUFFICES ASSUME NEW v \in Worker, pc'[v] = "notify"
               PROVE  Stored(Src(v))'
    OBVIOUS
  <2>1. CASE v = w
    BY <1>1, <1>2, <2>1
  <2>2. CASE v # w
    <3>1. pc[v] = "notify" /\ msg[v].body.src \in Source /\ Stored(msg[v].body.src)
      BY <1>2, <2>2, SrcType DEF ArtifactInv, StoredBefore, Src, Active
    <3> QED BY <1>1, <3>1 DEF StoreGrows, Stored, Src
  <2> QED BY <2>1, <2>2
<1>5. \A v \in Worker : pc'[v] = "unlink" => StorageMode = "s3" /\ (Src(v) \in objects)'
  <2> SUFFICES ASSUME NEW v \in Worker, pc'[v] = "unlink"
               PROVE  StorageMode = "s3" /\ (Src(v) \in objects)'
    OBVIOUS
  <2>1. CASE v = w
    BY <1>1, <1>2, <2>1 DEF Src
  <2>2. CASE v # w
    BY <1>1, <1>2, <1>3, <2>2, SrcType DEF ArtifactInv, StoredBefore, Src, Active
  <2> QED BY <2>1, <2>2
<1>6. \A i \in Id : queue'[i] # "free" /\ copy'[i].mode = "success"
                    => Stored(copy[i].body.src)'
  <2> SUFFICES ASSUME NEW i \in Id, queue[i] # "free", copy[i].mode = "success"
               PROVE  Stored(copy[i].body.src)'
    BY <1>1
  <2>1. copy[i].body.src \in Source /\ Stored(copy[i].body.src)
    BY DEF ArtifactInv, StoredBefore, TypeOK, BrokerOK, Message, Body
  <2> QED BY <1>1, <2>1 DEF StoreGrows, Stored
<1>7. \A v \in Worker : pc'[v] \in Active /\ msg'[v].mode = "success" => Stored(Src(v))'
  <2> SUFFICES ASSUME NEW v \in Worker, pc'[v] \in Active, msg[v].mode = "success"
               PROVE  Stored(Src(v))'
    BY <1>1
  <2>1. pc[v] \in Active /\ msg[v].body.src \in Source /\ Stored(msg[v].body.src)
    BY <1>2, SrcType DEF ArtifactInv, StoredBefore, Src
  <2> QED BY <1>1, <2>1 DEF StoreGrows, Stored, Src
<1>8. \A v \in Worker : pc'[v] = "publish_retry" /\ out'[v].mode = "success"
                        => Stored(out[v].body.src)'
  <2> SUFFICES ASSUME NEW v \in Worker, pc'[v] = "publish_retry", out'[v].mode = "success"
               PROVE  Stored(out[v].body.src)'
    OBVIOUS
  <2>1. CASE v = w
    BY <1>1, <1>2, <2>1
  <2>2. CASE v # w
    <3>1. pc[v] = "publish_retry" /\ out'[v] = out[v] /\ out[v].body.src \in Source
          /\ Stored(out[v].body.src)
      BY <1>2, <2>2 DEF ArtifactInv, StoredBefore, TypeOK, WorkerOK, Message, Body
    <3> QED BY <3>1 DEF StoreGrows, Stored
  <2> QED BY <2>1, <2>2
<1>9. DoneImpliesStored'
  BY DEF ArtifactInv, DoneImpliesStored, CoveredReport, StoreGrows
<1> QED BY <1>4, <1>5, <1>6, <1>7, <1>8, <1>9 DEF ArtifactInv, StoredBefore

\* Every step of a handler keeps the invariant.
LEMMA HandleArtifact ==
  ASSUME TypeOK, ArtifactInv, NEW w \in Worker, Handle(w)
  PROVE  ArtifactInv'
<1>1. pc[w] \in Active
  BY HandleEffect
<1>2. StoreGrows /\ CoveredReport /\ (Covered(w) \/ (RequeueAndStop(w) /\ UNCHANGED store))
  BY HandleCovered
<1>3. CASE Covered(w)
  BY <1>1, <1>2, <1>3, CoveredSafe
<1>4. CASE RequeueAndStop(w) /\ UNCHANGED store
  BY <1>2, <1>4, RequeueAndStopArtifact
<1> QED BY <1>2, <1>3, <1>4

\* Publications and acknowledgements hand on what their handler covered.
LEMMA SettleArtifact ==
  ASSUME TypeOK, ArtifactInv, NEW w \in Worker, Settle(w)
  PROVE  ArtifactInv'
<1> USE DEF TypeOK
<1>1. CASE ConfirmRetry(w)
  <2>1. PICK j \in Id : /\ queue[j] = "free" /\ queue' = [queue EXCEPT ![j] = "retry"]
                        /\ copy' = [copy EXCEPT ![j] = out[w]]
    BY <1>1, NewCopyIsFree DEF ConfirmRetry, PutCopy
  <2>2. pc[w] = "publish_retry" /\ msg' = msg /\ UNCHANGED <<store, harmony>>
        /\ Goto(w, "ack")
    BY <1>1 DEF ConfirmRetry, store
  <2>3. CopiesCarried
    BY <2>1, <2>2 DEF CopiesCarried, ArtifactInv, StoredBefore, BrokerOK
  <2>4. HandlersCarried
    BY <2>2 DEF HandlersCarried, Goto, PublishNext, WorkerOK, ArtifactInv, StoredBefore, Src,
                Active
  <2> QED BY <2>2, <2>3, <2>4, CarriedSafe DEF CoveredReport
<1>2. CASE ConfirmArchive(w)
  <2>1. pc[w] = "publish_archive" /\ UNCHANGED <<store, harmony>>
    BY <1>2 DEF ConfirmArchive, store
  <2>2. CoveredReport
    BY <2>1 DEF CoveredReport
  <2>3. CASE RequeueAndStop(w)
    BY <2>1, <2>2, <2>3, RequeueAndStopArtifact
  <2>4. CASE UNCHANGED <<broker, msg>> /\ (Goto(w, "ack") \/ Goto(w, "notify_failure"))
    <3>1. CopiesCarried
      BY <2>4 DEF broker, CopiesCarried, ArtifactInv, StoredBefore
    <3>2. HandlersCarried
      BY <2>1, <2>4 DEF HandlersCarried, Goto, PublishNext, WorkerOK, ArtifactInv,
                        StoredBefore, Src, Active
    <3> QED BY <2>1, <2>2, <3>1, <3>2, CarriedSafe
  <2> QED BY <1>2, <2>3, <2>4 DEF ConfirmArchive, broker
<1>3. CASE PublishFails(w)
  BY <1>3, RequeueAndStopArtifact DEF PublishFails, CoveredReport
<1>4. ASSUME RemoveCopy(tag[w]), UNCHANGED <<store, harmony>>, HandlersCarried
      PROVE  ArtifactInv'
  <2>1. CopiesCarried
    BY <1>4 DEF RemoveCopy, CopiesCarried, ArtifactInv, StoredBefore, BrokerOK
  <2> QED BY <1>4, <2>1, CarriedSafe DEF CoveredReport
<1>5. CASE Ack(w)
  <2>1. HandlersCarried
    BY <1>5 DEF Ack, HandlersCarried, WorkerOK, Active
  <2> QED BY <1>4, <1>5, <2>1 DEF Ack, store
<1>6. CASE AckFails(w)
  <2>1. UNCHANGED <<store, harmony>> /\ Stop(w)
    BY <1>6 DEF AckFails
  <2>2. HandlersCarried /\ CoveredReport
    BY <2>1, StopCarried DEF CoveredReport
  <2>3. CASE RemoveCopy(tag[w])
    BY <1>4, <2>1, <2>2, <2>3
  <2>4. CASE GiveBack(w)
    BY <2>1, <2>2, <2>4, GiveBackCarried, CarriedSafe
  <2>5. ~Live(w) /\ UNCHANGED <<broker, repeated>> => GiveBack(w)
    BY DEF GiveBack, broker
  <2> QED BY <1>6, <2>3, <2>4, <2>5 DEF AckFails
<1> QED BY <1>1, <1>2, <1>3, <1>5, <1>6 DEF Settle

\* Failures invent no success.
LEMMA FailArtifact ==
  ASSUME TypeOK, ArtifactInv, NEW w \in Worker, Fail(w)
  PROVE  ArtifactInv'
<1> USE DEF TypeOK
<1>1. CASE ConfirmLost(w)
  <2>1. UNCHANGED <<store, harmony>> /\ Stop(w) /\ Live(w)
    BY <1>1 DEF ConfirmLost
  <2>2. HandlersCarried /\ CoveredReport
    BY <2>1, StopCarried DEF CoveredReport
  <2>3. CopiesCarried
    <3>1. CASE pc[w] = "publish_retry"
      <4>1. PICK j \in Id :
              /\ queue[j] = "free"
              /\ queue' = [queue EXCEPT ![j] = "retry", ![tag[w]] = "main"]
              /\ copy' = [copy EXCEPT ![j] = out[w]]
        BY <1>1, <3>1, NewCopyIsFree DEF ConfirmLost
      <4> QED BY <2>1, <3>1, <4>1
              DEF CopiesCarried, ArtifactInv, StoredBefore, BrokerOK, HoldOK
    <3>2. CASE pc[w] = "publish_archive"
      <4>1. GiveBack(w)
        BY <1>1, <3>2 DEF ConfirmLost, GiveBack
      <4> QED BY <4>1, GiveBackCarried
    <3> QED BY <1>1, <3>1, <3>2 DEF ConfirmLost
  <2> QED BY <2>1, <2>2, <2>3, CarriedSafe
<1>2. CASE Disconnect(w)
  <2>1. HandlersCarried /\ CoveredReport
    BY <1>2 DEF Disconnect, HandlersCarried, CoveredReport
  <2> QED BY <1>2, <2>1, GiveBackCarried, CarriedSafe DEF Disconnect
<1>3. CASE Crash(w)
  BY <1>3, RequeueAndStopArtifact DEF Crash, CoveredReport
<1> QED BY <1>1, <1>2, <1>3 DEF Fail

\* Deliveries and dead-lettering keep the mode of a message; a producer sets none.
LEMMA BrokerStepArtifact ==
  ASSUME TypeOK, ArtifactInv
  PROVE  /\ \A s \in Source : Accept(s) => ArtifactInv'
         /\ \A w \in Worker : Connect(w) => ArtifactInv'
         /\ \A w \in Worker, i \in Id : Deliver(w, i) => ArtifactInv'
         /\ \A i \in Id : Expire(i) => ArtifactInv'
         /\ \A i \in Id : ExpireTwice(i) => ArtifactInv'
<1> USE DEF TypeOK
<1>h. UNCHANGED <<pc, msg, out>> => HandlersCarried
  BY DEF HandlersCarried
<1>r. UNCHANGED harmony => CoveredReport
  BY DEF CoveredReport
<1>1. ASSUME NEW s \in Source, Accept(s)
      PROVE  ArtifactInv'
  <2>1. PICK j \in Id : /\ queue[j] = "free" /\ queue' = [queue EXCEPT ![j] = "main"]
                        /\ copy' = [copy EXCEPT ![j] = SourceMessage(s)]
    BY <1>1, NewCopyIsFree DEF Accept, PutCopy
  <2>2. SourceMessage(s).mode = "none"
    BY DEF SourceMessage
  <2>3. CopiesCarried
    BY <2>1, <2>2 DEF CopiesCarried, ArtifactInv, StoredBefore, BrokerOK
  <2> QED BY <1>1, <1>h, <1>r, <2>3, CarriedSafe DEF Accept
<1>2. ASSUME NEW w \in Worker, Connect(w)
      PROVE  ArtifactInv'
  <2>1. HandlersCarried
    BY <1>2 DEF Connect, HandlersCarried, WorkerOK, Active
  <2>2. CopiesCarried
    BY <1>2 DEF Connect, CopiesCarried, ArtifactInv, StoredBefore, broker
  <2> QED BY <1>2, <1>r, <2>1, <2>2, CarriedSafe DEF Connect
<1>3. ASSUME NEW w \in Worker, NEW i \in Id, Deliver(w, i)
      PROVE  ArtifactInv'
  <2>1. /\ queue' = [queue EXCEPT ![i] = "unacked"] /\ copy' = copy
        /\ msg' = [msg EXCEPT ![w] = copy[i]] /\ queue[i] = "main"
        /\ UNCHANGED <<store, harmony>>
    BY <1>3 DEF Deliver
  <2>2. PICK step, o : step \in {"render", "callback", "publish_archive"} /\ PublishNext(w, step, o)
    BY <1>3 DEF Deliver, Goto, ArchiveNext
  <2>3. copy[i].mode = "success" => Stored(copy[i].body.src)
    BY <2>1 DEF ArtifactInv, StoredBefore
  <2>4. HandlersCarried
    BY <2>1, <2>2, <2>3 DEF HandlersCarried, PublishNext, WorkerOK
  <2>5. CopiesCarried
    BY <2>1 DEF CopiesCarried, ArtifactInv, StoredBefore, BrokerOK
  <2> QED BY <1>r, <2>1, <2>4, <2>5, CarriedSafe
<1>4. ASSUME NEW i \in Id, Expire(i)
      PROVE  ArtifactInv'
  <2>1. copy[i] \in Message /\ queue[i] = "retry"
    BY <1>4 DEF Expire, BrokerOK
  <2>2. CopiesCarried
    BY <1>4, <2>1 DEF Expire, CopiesCarried, ArtifactInv, StoredBefore, BrokerOK, Message
  <2> QED BY <1>4, <1>h, <1>r, <2>2, CarriedSafe DEF Expire
<1>5. ASSUME NEW i \in Id, ExpireTwice(i)
      PROVE  ArtifactInv'
  <2> DEFINE m == [copy[i] EXCEPT !.died = TRUE]
  <2>1. PICK j \in Id : /\ queue[j] = "free" /\ queue' = [queue EXCEPT ![j] = "main"]
                        /\ copy' = [copy EXCEPT ![j] = m]
    BY <1>5, NewCopyIsFree DEF ExpireTwice, PutCopy
  <2>2. copy[i] \in Message /\ queue[i] = "retry"
    BY <1>5 DEF ExpireTwice, BrokerOK
  <2>3. m.mode = copy[i].mode /\ m.body = copy[i].body
    BY <2>2 DEF Message
  <2>4. CopiesCarried
    BY <2>1, <2>2, <2>3 DEF CopiesCarried, ArtifactInv, StoredBefore, BrokerOK
  <2> QED BY <1>5, <1>h, <1>r, <2>4, CarriedSafe DEF ExpireTwice
<1> QED BY <1>1, <1>2, <1>3, <1>4, <1>5

\* Every step keeps the invariant.
LEMMA NextArtifact == TypeOK /\ ArtifactInv /\ [Next]_vars => ArtifactInv'
<1> SUFFICES ASSUME TypeOK, ArtifactInv, [Next]_vars
             PROVE  ArtifactInv'
  OBVIOUS
<1>1. CASE Next
  BY <1>1, HandleArtifact, SettleArtifact, FailArtifact, BrokerStepArtifact DEF Next
<1>2. CASE UNCHANGED vars
  BY <1>2 DEF vars, store, ArtifactInv, StoredBefore, DoneImpliesStored, Stored, Src
<1> QED BY <1>1, <1>2

\* Harmony hears that a job is done only when its artifact is stored, for any number of
\* workers, retries, duplicates and failures.
THEOREM DoneIsStored == Spec => []DoneImpliesStored
<1>1. Init => ArtifactInv
  BY DEF Init, ArtifactInv, StoredBefore, DoneImpliesStored, Active
<1>2. ArtifactInv => DoneImpliesStored
  BY DEF ArtifactInv
<1> QED BY <1>1, <1>2, InitTypeOK, NextTypeOK, NextArtifact, PTL DEF Spec

-----------------------------------------------------------------------------
(* Failed is reported only for a request whose envelope is in the archive. *)

\* The archive has the envelope that says that the attempts of s are exhausted.
Exhausted(s) == \E e \in archive : e.body.src = s /\ e.code = "processing-failed"

\* The envelope is confirmed before the failure callback is called or promised.
HandlerExhausted(w) ==
  /\ pc[w] = "notify_failure" => Exhausted(Src(w))
  /\ pc[w] \in Active /\ msg[w].mode = "failure" => Exhausted(Src(w))
  /\ pc[w] = "publish_retry" /\ out[w].mode = "failure" => Exhausted(out[w].body.src)

CopyExhausted(i) ==
  queue[i] # "free" /\ copy[i].mode = "failure" => Exhausted(copy[i].body.src)

FailureInv == /\ \A w \in Worker : HandlerExhausted(w)
              /\ \A i \in Id : CopyExhausted(i)
              /\ FailedIsArchived

\* Nothing is taken from the archive, so an exhausted request stays exhausted.
LEMMA StaysExhausted ==
  ASSUME archive \subseteq archive', NEW s, Exhausted(s)
  PROVE  Exhausted(s)'
BY DEF Exhausted

\* A worker that a step leaves alone is answered for as before.
LEMMA HandlerStays ==
  ASSUME archive \subseteq archive', NEW w \in Worker, HandlerExhausted(w),
         pc'[w] = pc[w], msg'[w] = msg[w], out'[w] = out[w]
  PROVE  HandlerExhausted(w)'
BY StaysExhausted DEF HandlerExhausted, Src

\* So is a copy that stays, or moves between the queues.
LEMMA CopyStays ==
  ASSUME archive \subseteq archive', NEW i \in Id, CopyExhausted(i),
         queue[i] # "free", copy'[i].mode = copy[i].mode, copy'[i].body = copy[i].body
  PROVE  CopyExhausted(i)'
BY StaysExhausted DEF CopyExhausted

\* Failed is reported for an exhausted request only.
ReportsExhausted == \A s \in Source :
  "failed" \in harmony'[s] => "failed" \in harmony[s] \/ Exhausted(s)

\* A step that is such for the workers and the copies keeps the invariant.
LEMMA FailureSafe ==
  ASSUME FailureInv, archive \subseteq archive', ReportsExhausted,
         \A w \in Worker : HandlerExhausted(w)', \A i \in Id : CopyExhausted(i)'
  PROVE  FailureInv'
<1>1. ASSUME NEW s \in Source, "failed" \in harmony'[s]
      PROVE  Exhausted(s)'
  <2>1. Exhausted(s)
    BY <1>1 DEF ReportsExhausted, FailureInv, FailedIsArchived, Exhausted
  <2> QED BY <2>1, StaysExhausted
<1>2. FailedIsArchived'
  BY <1>1 DEF FailedIsArchived, Exhausted
<1> QED BY <1>2 DEF FailureInv

\* What a handler's step may lead to: a failed processing is tried again without a mode or
\* archived, a failure continuation follows an envelope.
Answered(w) == \E step \in Active \ {"notify_failure"}, o \in Message \cup Envelope \cup {NoOut} :
  /\ PublishNext(w, step, o)
  /\ step = "publish_retry" /\ o.mode = "failure" => Exhausted(o.body.src)
  /\ UNCHANGED <<queue, copy, tag, msg>>

LEMMA ProcessingFailureAnswered ==
  ASSUME TypeOK, NEW w \in Worker, pc[w] \in Active, SettleProcessingFailure(w),
         UNCHANGED <<queue, copy, tag, msg>>
  PROVE  Answered(w)
<1> DEFINE k == Attempt(w, msg[w])
           r == RetryMessage(msg[w].body, k + 1, "none")
           e == ArchiveBody(w, msg[w].body, k + 1, "processing-failed")
<1>1. msg[w].body \in Body /\ k \in Nat
  BY SrcType, AttemptType
<1>2. r \in Message /\ e \in Envelope
  BY <1>1, RetryMessageType, ArchiveBodyType DEF Mode, ArchiveFailureCode
<1>3. r.mode = "none"
  BY DEF RetryMessage
<1>4. PublishNext(w, "publish_retry", r) \/ PublishNext(w, "publish_archive", e)
  BY DEF SettleProcessingFailure, RetryNext, ArchiveNext
<1> QED BY <1>2, <1>3, <1>4 DEF Answered, Active

LEMMA CallbackFailureAnswered ==
  ASSUME TypeOK, NEW w \in Worker, pc[w] \in Active, NEW b \in Body, NEW mode \in Mode,
         NEW k \in Nat, SettleCallbackFailure(w, b, mode, k),
         mode = "failure" => Exhausted(b.src), UNCHANGED <<queue, copy, tag, msg>>
  PROVE  Answered(w)
<1> DEFINE r == RetryMessage(b, k + 1, mode)
           e == ArchiveBody(w, b, k + 1, "callback-failed")
<1>1. r \in Message /\ e \in Envelope
  BY RetryMessageType, ArchiveBodyType DEF ArchiveFailureCode
<1>2. r.mode = mode /\ r.body = b
  BY DEF RetryMessage
<1>3. PublishNext(w, "publish_retry", r) \/ PublishNext(w, "publish_archive", e)
  BY DEF SettleCallbackFailure, RetryNext, ArchiveNext
<1> QED BY <1>1, <1>2, <1>3 DEF Answered, Active

\* Every step of a handler reports failed, and promises to, for exhausted requests only.
LEMMA HandleAnswered ==
  ASSUME TypeOK, FailureInv, NEW w \in Worker, Handle(w)
  PROVE  ReportsExhausted /\ (Answered(w) \/ RequeueAndStop(w))
<1> DEFINE kept == UNCHANGED <<queue, copy, tag, msg>>
<1>s. pc[w] \in Active => Src(w) \in Source /\ msg[w] \in Message /\ msg[w].body \in Body
  BY SrcType
<1>r. UNCHANGED harmony => ReportsExhausted
  BY DEF ReportsExhausted
<1>n. \A step \in Active \ {"notify_failure", "publish_retry"} :
        Goto(w, step) /\ kept => Answered(w)
  BY DEF Goto, Answered
<1>i. HandlerExhausted(w)
  BY DEF FailureInv
<1>1. CASE RejectRequest(w)
  <2>1. KindOf[Src(w)] \in ArchiveFailureCode /\ pc[w] \in Active /\ kept
    BY <1>1 DEF RejectRequest, ArchiveFailureCode, broker, Active
  <2>2. ArchiveBody(w, msg[w].body, 1, KindOf[Src(w)]) \in Envelope
    BY <1>s, <2>1, ArchiveBodyType
  <2>3. Answered(w)
    BY <1>1, <2>1, <2>2 DEF RejectRequest, ArchiveNext, Answered, Active
  <2> QED BY <1>1, <1>r, <2>3 DEF RejectRequest
<1>2. CASE RequestUncaught(w)
  BY <1>2, <1>r, ProcessingFailureAnswered DEF RequestUncaught, broker, Active
<1>3. CASE Render(w)
  BY <1>3, <1>r, <1>n DEF Render, broker, Active
<1>4. CASE RenderFails(w)
  BY <1>4, <1>r, ProcessingFailureAnswered DEF RenderFails, broker, Active
<1>5. CASE PublishDocument(w)
  BY <1>5, <1>r, <1>n DEF PublishDocument, AfterPublish, broker, Active
<1>6. CASE PublishDocumentFails(w)
  BY <1>6, <1>r, ProcessingFailureAnswered DEF PublishDocumentFails, broker, Active
<1>7. CASE Unlink(w)
  BY <1>7, <1>r, <1>n DEF Unlink, broker, Active
<1>8. CASE UnlinkFails(w)
  BY <1>8, <1>r, ProcessingFailureAnswered DEF UnlinkFails, broker, Active
<1>9. CASE NotifySuccess(w)
  <2>1. pc[w] \in Active /\ kept /\ "success" \in Mode
    BY <1>9 DEF NotifySuccess, broker, Mode, Active
  <2>2. PICK b \in Body : b = [src |-> Src(w), what |-> "success"]
    BY <1>s, <2>1 DEF Body
  <2>3. ReportsExhausted
    BY <1>9, <1>s, <2>1
    DEF NotifySuccess, MayReport, Report, ReportedStatus, ReportsExhausted, TypeOK, EffectOK
  <2>4. SettleCallbackFailure(w, b, "success", 0) => Answered(w)
    BY <2>1, CallbackFailureAnswered
  <2>5. SettleProcessingFailure(w) => Answered(w)
    BY <2>1, ProcessingFailureAnswered
  <2> QED BY <1>9, <1>n, <2>1, <2>2, <2>3, <2>4, <2>5 DEF NotifySuccess, Active
<1>10. CASE DeliverCallback(w)
  <2> DEFINE mode == CallbackMode(w, msg[w])
             b == msg[w].body
  <2>1. pc[w] \in Active /\ kept
    BY <1>10 DEF DeliverCallback, broker, Active
  <2>2. b \in Body /\ b.src = Src(w) /\ mode \in Mode /\ Attempt(w, msg[w]) \in Nat
    BY <1>s, <2>1, AttemptType DEF Src
  <2>3. mode = "failure" => Exhausted(Src(w))
    BY <1>i, <2>1 DEF CallbackMode, HandlerExhausted
  <2>4. b.what = mode => mode \in {"success", "failure"}
    BY <2>2 DEF Body, Mode
  <2>5. UNCHANGED harmony \/ (b.what = mode /\ Report(w, mode))
    BY <1>10 DEF DeliverCallback
  <2>6. ReportsExhausted
    BY <1>s, <2>1, <2>3, <2>4, <2>5
    DEF Report, ReportedStatus, ReportsExhausted, TypeOK, EffectOK
  <2>7. SettleCallbackFailure(w, b, mode, Attempt(w, msg[w])) => Answered(w)
    BY <2>1, <2>2, <2>3, CallbackFailureAnswered
  <2> QED BY <1>10, <1>n, <2>1, <2>6, <2>7 DEF DeliverCallback, Active
<1>11. CASE NotifyFailure(w)
  <2> DEFINE b == [src |-> Src(w), what |-> "failure"]
             r == RetryMessage(b, 1, "failure")
             e == ArchiveBody(w, b, 1, "callback-failed")
  <2>1. pc[w] \in Active /\ "failure" \in Mode /\ Exhausted(Src(w))
    BY <1>11, <1>i DEF NotifyFailure, Mode, Active, HandlerExhausted
  <2>2. b \in Body
    BY <1>s, <2>1 DEF Body
  <2>3. r \in Message /\ r.body.src = Src(w) /\ e \in Envelope
    BY <2>1, <2>2, RetryMessageType, ArchiveBodyType DEF RetryMessage, ArchiveFailureCode
  <2>4. ReportsExhausted
    BY <1>11, <1>s, <2>1
    DEF NotifyFailure, MayReport, Report, ReportedStatus, ReportsExhausted, TypeOK, EffectOK
  <2>5. kept /\ RetryNext(w, b, 1, "failure") => Answered(w)
    BY <2>1, <2>3 DEF RetryNext, Answered, Active
  <2>6. kept /\ ArchiveNext(w, b, 1, "callback-failed") => Answered(w)
    BY <2>3 DEF ArchiveNext, Answered, Active
  <2>7. Answered(w) \/ RequeueAndStop(w)
    BY <1>11, <1>n, <2>1, <2>5, <2>6 DEF NotifyFailure, broker, Active
  <2> QED BY <2>4, <2>7
<1> QED BY <1>1, <1>2, <1>3, <1>4, <1>5, <1>6, <1>7, <1>8, <1>9, <1>10, <1>11 DEF Handle

\* A delivery that is given back is answered for as it was.
LEMMA GiveBackAnswered ==
  ASSUME TypeOK, FailureInv, NEW w \in Worker, GiveBack(w), archive \subseteq archive'
  PROVE  \A i \in Id : CopyExhausted(i)'
<1>1. copy' = copy /\ \A i \in Id : queue'[i] # "free" => queue[i] # "free"
  BY DEF GiveBack, TypeOK, HoldOK, BrokerOK
<1>2. \A i \in Id : queue'[i] # "free" => CopyExhausted(i)'
  BY <1>1, CopyStays DEF FailureInv
<1> QED BY <1>2 DEF CopyExhausted

\* A worker that stops answers for nothing.
LEMMA StopAnswered ==
  ASSUME TypeOK, FailureInv, NEW w \in Worker, Stop(w), archive \subseteq archive'
  PROVE  \A v \in Worker : HandlerExhausted(v)'
<1>1. pc'[w] = "down"
  BY DEF Stop, TypeOK, WorkerOK
<1>2. HandlerExhausted(w)'
  BY <1>1 DEF HandlerExhausted, Active
<1>3. ASSUME NEW v \in Worker, v # w
      PROVE  HandlerExhausted(v)'
  <2>1. pc'[v] = pc[v] /\ msg'[v] = msg[v] /\ out'[v] = out[v]
    BY <1>3 DEF Stop, TypeOK, WorkerOK
  <2> QED BY <2>1, HandlerStays DEF FailureInv
<1> QED BY <1>2, <1>3

LEMMA RequeueAndStopFailure ==
  ASSUME TypeOK, FailureInv, NEW w \in Worker, RequeueAndStop(w), archive \subseteq archive',
         ReportsExhausted
  PROVE  FailureInv'
BY GiveBackAnswered, StopAnswered, FailureSafe DEF RequeueAndStop

\* Copies that do not change stay answered for.
LEMMA CopiesStay ==
  ASSUME FailureInv, archive \subseteq archive', UNCHANGED <<queue, copy>>
  PROVE  \A i \in Id : CopyExhausted(i)'
BY StaysExhausted DEF FailureInv, CopyExhausted

\* A step of a handler keeps the invariant.
LEMMA HandleFailure ==
  ASSUME TypeOK, FailureInv, NEW w \in Worker, Handle(w)
  PROVE  FailureInv'
<1>1. archive' = archive /\ pc[w] \in Active
  BY HandleEffect
<1>2. ReportsExhausted /\ (Answered(w) \/ RequeueAndStop(w))
  BY HandleAnswered
<1>3. CASE Answered(w)
  <2>1. PICK step \in Active \ {"notify_failure"}, o \in Message \cup Envelope \cup {NoOut} :
          /\ PublishNext(w, step, o)
          /\ step = "publish_retry" /\ o.mode = "failure" => Exhausted(o.body.src)
          /\ UNCHANGED <<queue, copy, tag, msg>>
    BY <1>3 DEF Answered
  <2>2. /\ pc'[w] = step /\ out'[w] = o
        /\ \A v \in Worker \ {w} : pc'[v] = pc[v] /\ out'[v] = out[v]
    BY <2>1 DEF PublishNext, TypeOK, WorkerOK
  <2>3. HandlerExhausted(w)'
    <3>1. step = "publish_retry" /\ o.mode = "failure" => Exhausted(o.body.src)'
      BY <1>1, <2>1 DEF Exhausted
    <3>2. msg[w].mode = "failure" => Exhausted(Src(w))'
      BY <1>1, <2>1 DEF FailureInv, HandlerExhausted, Exhausted, Src
    <3> QED BY <2>1, <2>2, <3>1, <3>2 DEF HandlerExhausted
  <2>4. \A v \in Worker \ {w} : HandlerExhausted(v)'
    BY <1>1, <2>1, <2>2, HandlerStays DEF FailureInv
  <2> QED BY <1>1, <1>2, <2>1, <2>3, <2>4, CopiesStay, FailureSafe
<1>4. CASE RequeueAndStop(w)
  BY <1>1, <1>2, <1>4, RequeueAndStopFailure
<1> QED BY <1>2, <1>3, <1>4

\* A copy added in a free place is answered for when its message is.
LEMMA AddedAnswered ==
  ASSUME TypeOK, FailureInv, NEW j \in Id, NEW q, NEW m, queue[j] = "free",
         queue' = [queue EXCEPT ![j] = q], copy' = [copy EXCEPT ![j] = m],
         archive' = archive, m.mode = "failure" => Exhausted(m.body.src)
  PROVE  \A i \in Id : CopyExhausted(i)'
<1>1. copy'[j] = m /\ \A i \in Id \ {j} : queue'[i] = queue[i] /\ copy'[i] = copy[i]
  BY DEF TypeOK, BrokerOK
<1>2. \A s : Exhausted(s)' <=> Exhausted(s)
  BY DEF Exhausted
<1> QED BY <1>1, <1>2 DEF FailureInv, CopyExhausted

\* Publications and acknowledgements hand on what was answered for.
LEMMA SettleFailure ==
  ASSUME TypeOK, FailureInv, Tracked, NEW w \in Worker, Settle(w)
  PROVE  FailureInv'
<1>r. UNCHANGED harmony => ReportsExhausted
  BY DEF ReportsExhausted
<1>i. HandlerExhausted(w)
  BY DEF FailureInv
<1>1. CASE ConfirmRetry(w)
  <2>1. PICK j \in Id : /\ queue[j] = "free" /\ queue' = [queue EXCEPT ![j] = "retry"]
                        /\ copy' = [copy EXCEPT ![j] = out[w]]
    BY <1>1, NewCopyIsFree DEF ConfirmRetry, PutCopy
  <2>2. pc[w] = "publish_retry" /\ UNCHANGED <<msg, harmony, archive>> /\ Goto(w, "ack")
    BY <1>1 DEF ConfirmRetry
  <2>3. \A i \in Id : CopyExhausted(i)'
    BY <1>i, <2>1, <2>2, AddedAnswered DEF HandlerExhausted
  <2>4. /\ pc'[w] = "ack"
        /\ \A v \in Worker \ {w} : pc'[v] = pc[v] /\ out'[v] = out[v]
    BY <2>2 DEF Goto, PublishNext, TypeOK, WorkerOK
  <2>5. HandlerExhausted(w)'
    BY <1>i, <2>2, <2>4 DEF HandlerExhausted, Exhausted, Src, Active
  <2>6. \A v \in Worker \ {w} : HandlerExhausted(v)'
    BY <2>2, <2>4, HandlerStays DEF FailureInv
  <2> QED BY <1>r, <2>2, <2>3, <2>5, <2>6, FailureSafe
<1>2. CASE ConfirmArchive(w)
  <2>1. /\ pc[w] = "publish_archive" /\ archive' = archive \cup {out[w]} /\ UNCHANGED harmony
        /\ out[w].body.src = Src(w)
    BY <1>2 DEF ConfirmArchive, Tracked
  <2>2. CASE RequeueAndStop(w)
    BY <1>r, <2>1, <2>2, RequeueAndStopFailure
  <2>3. CASE ~RequeueAndStop(w)
    <3>1. /\ UNCHANGED <<queue, copy, tag, msg>>
          /\ \/ Goto(w, "ack")
             \/ out[w].code = "processing-failed" /\ Goto(w, "notify_failure")
      BY <1>2, <2>3 DEF ConfirmArchive, broker
    <3>2. /\ \/ pc'[w] = "ack"
             \/ pc'[w] = "notify_failure" /\ out[w].code = "processing-failed"
          /\ \A v \in Worker \ {w} : pc'[v] = pc[v] /\ out'[v] = out[v]
      BY <3>1 DEF Goto, PublishNext, TypeOK, WorkerOK
    <3>3. out[w].code = "processing-failed" => Exhausted(Src(w))'
      BY <2>1, <3>1 DEF Exhausted, Src
    <3>4. msg[w].mode = "failure" => Exhausted(Src(w))'
      BY <1>i, <2>1, <3>1 DEF HandlerExhausted, Exhausted, Src, Active
    <3>5. HandlerExhausted(w)'
      BY <3>1, <3>2, <3>3, <3>4 DEF HandlerExhausted
    <3>6. \A v \in Worker \ {w} : HandlerExhausted(v)'
      BY <2>1, <3>1, <3>2, HandlerStays DEF FailureInv
    <3> QED BY <1>r, <2>1, <3>1, <3>5, <3>6, CopiesStay, FailureSafe
  <2> QED BY <2>2, <2>3
<1>3. CASE PublishFails(w)
  BY <1>3, <1>r, RequeueAndStopFailure DEF PublishFails
<1>4. ASSUME RemoveCopy(tag[w]), UNCHANGED <<archive, harmony>>,
             \A v \in Worker : HandlerExhausted(v)'
      PROVE  FailureInv'
  <2>1. \A i \in Id : queue'[i] # "free" => queue[i] # "free" /\ copy'[i] = copy[i]
    BY <1>4 DEF RemoveCopy, TypeOK, BrokerOK
  <2>2. \A i \in Id : queue'[i] # "free" => CopyExhausted(i)'
    BY <1>4, <2>1, CopyStays DEF FailureInv
  <2>3. \A i \in Id : CopyExhausted(i)'
    BY <2>2 DEF CopyExhausted
  <2> QED BY <1>4, <1>r, <2>3, FailureSafe
<1>5. CASE Ack(w)
  <2>1. /\ pc'[w] = "idle" /\ archive' = archive
        /\ \A v \in Worker \ {w} : pc'[v] = pc[v] /\ msg'[v] = msg[v] /\ out'[v] = out[v]
    BY <1>5 DEF Ack, TypeOK, WorkerOK
  <2>2. HandlerExhausted(w)'
    BY <2>1 DEF HandlerExhausted, Active
  <2>3. \A v \in Worker \ {w} : HandlerExhausted(v)'
    BY <2>1, HandlerStays DEF FailureInv
  <2> QED BY <1>4, <1>5, <2>2, <2>3 DEF Ack
<1>6. CASE AckFails(w)
  <2>1. UNCHANGED <<archive, harmony>> /\ Stop(w)
    BY <1>6 DEF AckFails
  <2>2. CASE RemoveCopy(tag[w])
    BY <1>4, <2>1, <2>2, StopAnswered
  <2>3. CASE GiveBack(w)
    BY <1>r, <2>1, <2>3, RequeueAndStopFailure DEF RequeueAndStop
  <2>4. ~Live(w) /\ UNCHANGED <<broker, repeated>> => GiveBack(w)
    BY DEF GiveBack, broker
  <2> QED BY <1>6, <2>2, <2>3, <2>4 DEF AckFails
<1> QED BY <1>1, <1>2, <1>3, <1>5, <1>6 DEF Settle

\* Failures hand on no more.
LEMMA FailFailure ==
  ASSUME TypeOK, FailureInv, NEW w \in Worker, Fail(w)
  PROVE  FailureInv'
<1>r. UNCHANGED harmony => ReportsExhausted
  BY DEF ReportsExhausted
<1>1. CASE ConfirmLost(w)
  <2>1. UNCHANGED harmony /\ Stop(w) /\ Live(w)
    BY <1>1 DEF ConfirmLost
  <2>2. CASE pc[w] = "publish_retry"
    <3>1. PICK t \in Id : t = tag[w] /\ queue[t] = "unacked"
      BY <2>1 DEF TypeOK, HoldOK, WorkerOK, Live
    <3>2. PICK j \in Id :
            /\ queue[j] = "free"
            /\ queue' = [queue EXCEPT ![j] = "retry", ![t] = "main"]
            /\ copy' = [copy EXCEPT ![j] = out[w]] /\ archive' = archive
      BY <1>1, <2>2, <3>1, NewCopyIsFree DEF ConfirmLost
    <3>3. out[w].mode = "failure" => Exhausted(out[w].body.src)
      BY <2>2 DEF FailureInv, HandlerExhausted
    <3>4. copy'[j] = out[w] /\ \A i \in Id \ {j} :
                                 copy'[i] = copy[i] /\ (queue'[i] # "free" => queue[i] # "free")
      BY <3>1, <3>2 DEF TypeOK, BrokerOK
    <3>5. \A s : Exhausted(s)' <=> Exhausted(s)
      BY <3>2 DEF Exhausted
    <3>6. \A i \in Id : CopyExhausted(i)'
      BY <3>3, <3>4, <3>5 DEF FailureInv, CopyExhausted
    <3> QED BY <1>r, <2>1, <3>2, <3>6, StopAnswered, FailureSafe
  <2>3. CASE pc[w] = "publish_archive"
    <3>1. GiveBack(w) /\ archive \subseteq archive'
      BY <1>1, <2>3 DEF ConfirmLost, GiveBack
    <3> QED BY <1>r, <2>1, <3>1, RequeueAndStopFailure DEF RequeueAndStop
  <2> QED BY <1>1, <2>2, <2>3 DEF ConfirmLost
<1>2. CASE Disconnect(w)
  <2>1. GiveBack(w) /\ UNCHANGED <<pc, msg, out, archive, harmony>>
    BY <1>2 DEF Disconnect
  <2>2. \A v \in Worker : HandlerExhausted(v)'
    BY <2>1, HandlerStays DEF FailureInv
  <2> QED BY <1>r, <2>1, <2>2, GiveBackAnswered, FailureSafe
<1>3. CASE Crash(w)
  BY <1>3, <1>r, RequeueAndStopFailure DEF Crash
<1> QED BY <1>1, <1>2, <1>3 DEF Fail

\* The broker keeps the mode of a message, and a producer sets none.
LEMMA BrokerStepFailure ==
  ASSUME TypeOK, FailureInv
  PROVE  /\ \A s \in Source : Accept(s) => FailureInv'
         /\ \A w \in Worker : Connect(w) => FailureInv'
         /\ \A w \in Worker, i \in Id : Deliver(w, i) => FailureInv'
         /\ \A i \in Id : Expire(i) => FailureInv'
         /\ \A i \in Id : ExpireTwice(i) => FailureInv'
<1>r. UNCHANGED harmony => ReportsExhausted
  BY DEF ReportsExhausted
<1>h. UNCHANGED <<pc, msg, out, archive>> => \A v \in Worker : HandlerExhausted(v)'
  BY HandlerStays DEF FailureInv
<1>1. ASSUME NEW s \in Source, Accept(s)
      PROVE  FailureInv'
  <2>1. PICK j \in Id : /\ queue[j] = "free" /\ queue' = [queue EXCEPT ![j] = "main"]
                        /\ copy' = [copy EXCEPT ![j] = SourceMessage(s)]
    BY <1>1, NewCopyIsFree DEF Accept, PutCopy
  <2>2. SourceMessage(s).mode # "failure"
    BY DEF SourceMessage
  <2>3. \A i \in Id : CopyExhausted(i)'
    BY <1>1, <2>1, <2>2, AddedAnswered DEF Accept
  <2> QED BY <1>1, <1>h, <1>r, <2>3, FailureSafe DEF Accept
<1>2. ASSUME NEW w \in Worker, Connect(w)
      PROVE  FailureInv'
  <2>1. /\ UNCHANGED <<queue, copy, msg, out, archive, harmony>> /\ pc'[w] = "idle"
        /\ \A v \in Worker \ {w} : pc'[v] = pc[v]
    BY <1>2 DEF Connect, broker, TypeOK, WorkerOK
  <2>2. HandlerExhausted(w)'
    BY <2>1 DEF HandlerExhausted, Active
  <2>3. \A v \in Worker \ {w} : HandlerExhausted(v)'
    BY <2>1, HandlerStays DEF FailureInv
  <2> QED BY <1>r, <2>1, <2>2, <2>3, CopiesStay, FailureSafe
<1>3. ASSUME NEW w \in Worker, NEW i \in Id, Deliver(w, i)
      PROVE  FailureInv'
  <2>1. /\ queue[i] = "main" /\ queue' = [queue EXCEPT ![i] = "unacked"] /\ copy' = copy
        /\ msg' = [msg EXCEPT ![w] = copy[i]] /\ UNCHANGED <<archive, harmony>>
    BY <1>3 DEF Deliver
  <2>2. PICK step, o : /\ step \in {"render", "callback", "publish_archive"}
                       /\ PublishNext(w, step, o)
    BY <1>3 DEF Deliver, Goto, ArchiveNext
  <2>3. /\ pc'[w] = step /\ msg'[w] = copy[i]
        /\ \A v \in Worker \ {w} : pc'[v] = pc[v] /\ msg'[v] = msg[v] /\ out'[v] = out[v]
    BY <2>1, <2>2 DEF PublishNext, TypeOK, WorkerOK
  <2>4. HandlerExhausted(w)'
    <3>1. copy[i].mode = "failure" => Exhausted(copy[i].body.src)
      BY <2>1 DEF FailureInv, CopyExhausted
    <3>2. copy[i].mode = "failure" => Exhausted(copy[i].body.src)'
      BY <2>1, <3>1 DEF Exhausted
    <3> QED BY <2>1, <2>2, <2>3, <3>2 DEF HandlerExhausted, Src, Exhausted
  <2>5. \A v \in Worker \ {w} : HandlerExhausted(v)'
    BY <2>1, <2>3, HandlerStays DEF FailureInv
  <2>6. \A k \in Id : queue'[k] # "free" => queue[k] # "free"
    BY <2>1 DEF TypeOK, BrokerOK
  <2>7. \A k \in Id : queue'[k] # "free" => CopyExhausted(k)'
    BY <2>1, <2>6, CopyStays DEF FailureInv
  <2>8. \A k \in Id : CopyExhausted(k)'
    BY <2>7 DEF CopyExhausted
  <2> QED BY <1>r, <2>1, <2>4, <2>5, <2>8, FailureSafe
<1>4. ASSUME NEW i \in Id, Expire(i)
      PROVE  FailureInv'
  <2>1. copy[i] \in Message /\ queue[i] = "retry"
        /\ UNCHANGED <<pc, msg, out, archive, harmony>>
    BY <1>4 DEF Expire, TypeOK, BrokerOK
  <2>2. \A k \in Id : queue'[k] # "free" => queue[k] # "free"
    BY <1>4 DEF Expire, TypeOK, BrokerOK
  <2>3. \A k \in Id : queue[k] # "free" =>
          copy'[k].body = copy[k].body /\ copy'[k].mode = copy[k].mode
    BY <1>4, <2>1 DEF Expire, TypeOK, BrokerOK, Message
  <2>4. \A k \in Id : queue'[k] # "free" => CopyExhausted(k)'
    BY <2>1, <2>2, <2>3, CopyStays DEF FailureInv
  <2>5. \A k \in Id : CopyExhausted(k)'
    BY <2>4 DEF CopyExhausted
  <2> QED BY <1>h, <1>r, <2>1, <2>5, FailureSafe
<1>5. ASSUME NEW i \in Id, ExpireTwice(i)
      PROVE  FailureInv'
  <2> DEFINE m == [copy[i] EXCEPT !.died = TRUE]
  <2>1. PICK j \in Id : /\ queue[j] = "free" /\ queue' = [queue EXCEPT ![j] = "main"]
                        /\ copy' = [copy EXCEPT ![j] = m]
    BY <1>5, NewCopyIsFree DEF ExpireTwice, PutCopy
  <2>2. copy[i] \in Message /\ queue[i] = "retry"
        /\ UNCHANGED <<pc, msg, out, archive, harmony>>
    BY <1>5 DEF ExpireTwice, TypeOK, BrokerOK
  <2>3. m.mode = copy[i].mode /\ m.body = copy[i].body
    BY <2>2 DEF Message
  <2>4. m.mode = "failure" => Exhausted(m.body.src)
    BY <2>2, <2>3 DEF FailureInv, CopyExhausted
  <2>5. \A k \in Id : CopyExhausted(k)'
    BY <2>1, <2>2, <2>4, AddedAnswered
  <2> QED BY <1>h, <1>r, <2>2, <2>5, FailureSafe
<1> QED BY <1>1, <1>2, <1>3, <1>4, <1>5

LEMMA NextFailure == TypeOK /\ Tracked /\ FailureInv /\ [Next]_vars => FailureInv'
<1> SUFFICES ASSUME TypeOK, Tracked, FailureInv, [Next]_vars
             PROVE  FailureInv'
  OBVIOUS
<1>1. CASE Next
  BY <1>1, HandleFailure, SettleFailure, FailFailure, BrokerStepFailure DEF Next
<1>2. CASE UNCHANGED vars
  BY <1>2 DEF vars, FailureInv, HandlerExhausted, CopyExhausted, FailedIsArchived, Exhausted,
              Src
<1> QED BY <1>1, <1>2

\* Harmony hears that a job failed only when the archive has the envelope of its exhausted
\* request, whatever crashed, was replayed, or was taken up by another worker in between.
THEOREM FailuresAreArchived == Spec => []FailedIsArchived
<1>1. Init => FailureInv
  BY DEF Init, FailureInv, HandlerExhausted, CopyExhausted, FailedIsArchived, Active
<1>2. FailureInv => FailedIsArchived
  BY DEF FailureInv
<1>3. Init => Tracked /\ NothingSilent
  BY DEF Init, Tracked, NothingSilent, Active
<1> QED BY <1>1, <1>2, <1>3, InitTypeOK, NextTypeOK, NextSafe, NextFailure, PTL DEF Spec

-----------------------------------------------------------------------------
(* The garbled response is the only way to lose a continuation.            *)

\* Where a worker that is about to report a success may go next.
LEMMA LeavesNotify ==
  ASSUME "garbled" \notin CallbackOutcome, TypeOK, [Next]_vars, NEW w \in Worker,
         pc[w] = "notify", pc'[w] = "publish_retry"
  PROVE  out'[w].body.what = "success"
<1> USE DEF TypeOK
<1>1. ASSUME NEW v \in Worker, NotifySuccess(v)
      PROVE  out'[w].body.what = "success"
  <2> DEFINE b == [src |-> Src(v), what |-> "success"]
             r == RetryMessage(b, 1, "success")
  <2>1. pc' = pc \/ v = w \/ pc'[w] = pc[w]
    BY <1>1 DEF NotifySuccess, SettleCallbackFailure, RetryNext, ArchiveNext, Goto, PublishNext,
                WorkerOK
  <2>2. v = w
    BY <2>1
  <2>3. Goto(v, "ack") \/ SettleCallbackFailure(v, b, "success", 0)
    BY <1>1 DEF NotifySuccess
  <2>4. Goto(v, "ack") \/ RetryNext(v, b, 0 + 1, "success")
        \/ ArchiveNext(v, b, 0 + 1, "callback-failed")
    BY <2>3 DEF SettleCallbackFailure
  <2>5. PublishNext(v, "publish_retry", r)
    BY <2>2, <2>4 DEF Goto, RetryNext, ArchiveNext, PublishNext, WorkerOK
  <2>6. out'[w] = r
    BY <2>2, <2>5 DEF PublishNext, WorkerOK
  <2> QED BY <2>6 DEF RetryMessage
<1>2. ASSUME NEW v \in Worker, Handle(v), ~NotifySuccess(v)
      PROVE  FALSE
  <2>1. pc[v] # "notify"
    BY <1>2 DEF Handle, RejectRequest, RequestUncaught, Render, RenderFails, PublishDocument,
                PublishDocumentFails, Unlink, UnlinkFails, NotifySuccess, DeliverCallback,
                NotifyFailure
  <2>2. v # w
    BY <2>1
  <2>3. Onward(v) \/ RequeueAndStop(v)
    BY <1>2, HandleEffect
  <2>4. pc'[w] = pc[w]
    BY <2>2, <2>3 DEF Onward, PublishNext, RequeueAndStop, Stop, WorkerOK
  <2> QED BY <2>4
<1>3. ASSUME NEW v \in Worker, Settle(v) \/ Fail(v) \/ Connect(v)
      PROVE  pc'[w] # "publish_retry"
  <2>1. \/ UNCHANGED pc
        \/ \E step \in {"ack", "notify_failure", "idle", "down"} : pc' = [pc EXCEPT ![v] = step]
    BY <1>3 DEF Settle, ConfirmRetry, ConfirmArchive, PublishFails, Ack, AckFails, Fail,
                ConfirmLost, Disconnect, Crash, Connect, Goto, PublishNext, RequeueAndStop, Stop
  <2> QED BY <2>1 DEF WorkerOK
<1>4. ASSUME NEW v \in Worker, NEW i \in Id, Deliver(v, i)
      PROVE  FALSE
  <2>1. v # w
    BY <1>4 DEF Deliver
  <2>2. pc'[w] = pc[w]
    BY <1>4, <2>1 DEF Deliver, Goto, ArchiveNext, PublishNext, WorkerOK
  <2> QED BY <2>2
<1>5. ASSUME UNCHANGED pc
      PROVE  FALSE
  BY <1>5
<1>6. CASE UNCHANGED vars
  BY <1>5, <1>6 DEF vars
<1>7. CASE Next
  BY <1>1, <1>2, <1>3, <1>4, <1>5, <1>7 DEF Next, Accept, Expire, ExpireTwice
<1> QED BY <1>6, <1>7

\* While Harmony answers with what _post_callback expects, a failed success callback always
\* becomes a success continuation: the garbled response is the only cause of its loss.
THEOREM OnlyGarbledLoses ==
  ASSUME "garbled" \notin CallbackOutcome
  PROVE  Spec => CallbackFailureKeepsArtifact
<1>1. TypeOK /\ [Next]_vars =>
        [\A w \in Worker : pc[w] = "notify" /\ pc'[w] = "publish_retry"
                           => out'[w].body.what = "success"]_vars
  BY LeavesNotify
<1> QED BY <1>1, InitTypeOK, NextTypeOK, PTL DEF Spec, CallbackFailureKeepsArtifact

-----------------------------------------------------------------------------
(* DocumentWorker implements DocumentStore.                                *)

documents == [s \in Source |-> IF Stored(s) THEN {s} ELSE {}]
toldDone == [s \in Source |-> IF "done" \in harmony[s] THEN {s} ELSE {}]

\* A step of a handler stores the document of its own request, or leaves the storage alone.
StoresOnly(d) ==
  /\ UNCHANGED harmony
  /\ \A s \in Source : /\ Stored(s) => Stored(s)'
                       /\ s # d => (Stored(s)' <=> Stored(s))

LEMMA HandleStores ==
  ASSUME TypeOK, ArtifactInv, NEW w \in Worker, Handle(w)
  PROVE  UNCHANGED store \/ StoresOnly(Src(w))
<1>1. CASE Render(w)
  <2>1. files' = files \cup {Src(w)} /\ UNCHANGED <<objects, harmony>>
    BY <1>1 DEF Render
  <2> QED  BY <2>1 DEF StoresOnly, Stored
<1>2. CASE RenderFails(w)
  <2>1. files' \in {files, files \cup {Src(w)}} /\ UNCHANGED <<objects, harmony>>
    BY <1>2 DEF RenderFails
  <2> QED  BY <2>1 DEF StoresOnly, Stored
<1>3. CASE PublishDocument(w)
  <2>1. UNCHANGED <<files, harmony>>
        /\ objects' = IF StorageMode = "s3" THEN objects \cup {Src(w)} ELSE objects
    BY <1>3 DEF PublishDocument
  <2> QED  BY <2>1 DEF StoresOnly, Stored
<1>4. CASE PublishDocumentFails(w)
  <2>1. UNCHANGED <<files, harmony>> /\ objects' \in {objects, objects \cup {Src(w)}}
    BY <1>4 DEF PublishDocumentFails
  <2> QED  BY <2>1 DEF StoresOnly, Stored
<1>5. CASE Unlink(w)
  <2>1. StorageMode = "s3"
    BY <1>5 DEF Unlink, ArtifactInv, StoredBefore
  <2>2. UNCHANGED <<objects, harmony>>
    BY <1>5 DEF Unlink
  <2> QED  BY <2>1, <2>2 DEF StoresOnly, Stored
<1>6. CASE RejectRequest(w) \/ RequestUncaught(w) \/ UnlinkFails(w) \/ NotifySuccess(w)
           \/ DeliverCallback(w) \/ NotifyFailure(w)
  BY <1>6 DEF RejectRequest, RequestUncaught, UnlinkFails, NotifySuccess, DeliverCallback,
              NotifyFailure
<1> QED  BY <1>1, <1>2, <1>3, <1>4, <1>5, <1>6 DEF Handle

\* So it is a step of DocumentStore, or none.
LEMMA HandleKeepsPromise ==
  ASSUME TypeOK, ArtifactInv, NEW w \in Worker, Handle(w)
  PROVE  [Documents!Next]_(Documents!vars)
<1>0. pc[w] \in Active /\ Src(w) \in Source
  BY HandleEffect, SrcType
<1>1. PICK src \in Source : src = Src(w)
  BY <1>0
<1>2. UNCHANGED store \/ StoresOnly(src)
  BY <1>1, HandleStores
<1>3. CASE StoresOnly(src)
  <2>1. toldDone' = toldDone
    BY <1>3 DEF StoresOnly, toldDone
  <2>2. CASE Stored(src)' <=> Stored(src)
    <3>1. \A s \in Source : Stored(s)' <=> Stored(s)
      BY <1>3, <2>2 DEF StoresOnly
    <3>2. documents' = documents
      BY <3>1 DEF documents
    <3> QED  BY <2>1, <3>2 DEF Documents!vars, documents, toldDone
  <2>3. CASE ~ (Stored(src)' <=> Stored(src))
    <3>1. ~ Stored(src) /\ Stored(src)'
      BY <1>1, <1>3, <2>3 DEF StoresOnly
    <3>2. \A s \in Source : s # src => (Stored(s)' <=> Stored(s))
      BY <1>3 DEF StoresOnly
    <3>3. documents' = [documents EXCEPT ![src] = {src}] /\ documents[src] = {}
      BY <1>1, <3>1, <3>2 DEF documents
    <3>4. Documents!Store(src, src)
      BY <2>1, <3>3 DEF Documents!Store, documents, toldDone
    <3> QED  BY <1>1, <3>4 DEF Documents!Next
  <2> QED  BY <2>2, <2>3
<1>4. CASE UNCHANGED store
  <2>1. \A s \in Source : Stored(s)' <=> Stored(s)
    BY <1>4 DEF store, Stored
  <2>2. documents' = documents
    BY <2>1 DEF documents
  <2>3. CoveredReport /\ Reported(w)
    BY HandleCovered, HandleEffect
  <2>4. \A s \in Source : s # src => harmony'[s] = harmony[s]
    BY <1>1, <2>3 DEF Reported, TypeOK, EffectOK
  <2>5. "done" \in harmony[src] => "done" \in harmony'[src]
    BY <1>1, <2>3 DEF Reported, TypeOK, EffectOK
  <2>6. CASE "done" \in harmony'[src] <=> "done" \in harmony[src]
    <3>1. toldDone' = toldDone
      BY <2>4, <2>6 DEF toldDone
    <3> QED  BY <2>2, <3>1 DEF Documents!vars, documents, toldDone
  <2>7. CASE ~ ("done" \in harmony'[src] <=> "done" \in harmony[src])
    <3>1. "done" \in harmony'[src] /\ "done" \notin harmony[src]
      BY <2>5, <2>7
    <3>2. Stored(src)
      BY <1>1, <2>1, <2>3, <3>1 DEF CoveredReport
    <3>3. documents[src] = {src}
      BY <1>1, <3>2 DEF documents
    <3>4. toldDone' = [toldDone EXCEPT ![src] = @ \cup documents[src]]
      BY <1>1, <2>4, <3>1, <3>3 DEF toldDone
    <3>5. Documents!Report(src)
      BY <2>2, <3>3, <3>4 DEF Documents!Report, documents, toldDone
    <3> QED  BY <1>1, <3>5 DEF Documents!Next
  <2> QED  BY <2>6, <2>7
<1> QED  BY <1>2, <1>3, <1>4

LEMMA NextKeepsPromise ==
  TypeOK /\ ArtifactInv /\ [Next]_vars => [Documents!Next]_(Documents!vars)
<1> SUFFICES ASSUME TypeOK, ArtifactInv, [Next]_vars
             PROVE  [Documents!Next]_(Documents!vars)
  OBVIOUS
<1>1. CASE UNCHANGED <<store, harmony>>
  BY <1>1 DEF store, Documents!vars, Stored
<1>2. \A w \in Worker : Settle(w) \/ Fail(w) \/ Connect(w) => UNCHANGED <<store, harmony>>
  BY DEF Settle, Fail, ConfirmRetry, ConfirmArchive, PublishFails, Ack, AckFails, ConfirmLost,
         Disconnect, Crash, Connect
<1>3. \A i \in Id : Expire(i) \/ ExpireTwice(i) => UNCHANGED <<store, harmony>>
  BY DEF Expire, ExpireTwice
<1>4. /\ \A s \in Source : Accept(s) => UNCHANGED <<store, harmony>>
      /\ \A w \in Worker, i \in Id : Deliver(w, i) => UNCHANGED <<store, harmony>>
  BY DEF Accept, Deliver
<1>5. UNCHANGED vars => UNCHANGED <<store, harmony>>
  BY DEF vars, store
<1> QED  BY <1>1, <1>2, <1>3, <1>4, <1>5, HandleKeepsPromise DEF Next

\* Whatever is retried, replayed or run by two workers, Harmony hears done after the
\* document is stored, and a stored document is never taken away.
THEOREM StorageKept == Spec => ImplementsStore
<1>1. Init => Documents!Init /\ ArtifactInv
  BY DEF Init, Documents!Init, Stored, ArtifactInv, StoredBefore, DoneImpliesStored, Active
<1>2. Spec => [](TypeOK /\ ArtifactInv)
  BY <1>1, InitTypeOK, NextTypeOK, NextArtifact, PTL DEF Spec
<1> QED  BY <1>1, <1>2, NextKeepsPromise, PTL DEF Spec, ImplementsStore, Documents!Spec
=============================================================================
