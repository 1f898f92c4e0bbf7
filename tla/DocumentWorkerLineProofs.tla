----------------------- MODULE DocumentWorkerLineProofs -----------------------
(***************************************************************************)
(* The line of a request that is never put back unsettled: one open copy   *)
(* at a time, which no verdict precedes.                                   *)
(***************************************************************************)
EXTENDS DocumentWorkerProofs

USE DEF Active

IsSource(m) == m.body.what = "source"

\* A continuation announces the callback it carries, the request itself none.
Sane(m) == m.mode = IF IsSource(m) THEN "none" ELSE m.body.what

About(m, s, what) == m.body.src = s /\ m.body.what = what

Early == {"render", "publish", "unlink", "notify"}
Publishing == {"publish_retry", "publish_archive"}

\* What each step of a handler knows of its message, and of what it publishes.
HandlerShape(w) ==
  /\ pc[w] \in Active => Sane(msg[w])
  /\ pc[w] \in Active /\ IsSource(msg[w]) => Live(w) \/ Src(w) \in repeated
  /\ pc[w] \in Early \cup {"notify_failure"} => IsSource(msg[w])
  /\ pc[w] = "callback" => /\ ~IsSource(msg[w])
                           /\ CallbackMode(w, msg[w]) = msg[w].body.what
  /\ pc[w] = "publish_retry" => Sane(out[w])
  /\ pc[w] \in Publishing => /\ IsSource(out[w]) => IsSource(msg[w])
                             /\ ~IsSource(msg[w]) => out[w].body.what = msg[w].body.what
  /\ pc[w] = "publish_archive" /\ out[w].code = "processing-failed" => IsSource(out[w])

CopyShape == \A i \in Id : queue[i] # "free" => Sane(copy[i])

ShapeInv == CopyShape /\ \A w \in Worker : HandlerShape(w)

-----------------------------------------------------------------------------
(* What a handler does.                                                    *)

\* It goes on with its delivery.
Goes(w, step, o) == /\ PublishNext(w, step, o)
                    /\ UNCHANGED <<queue, copy, tag, msg, archive, accepted>>

\* The attempts that a message claims, for a worker that believes it.
Count(m) == IF m.sig = NoSignature THEN 0 ELSE m.attempt

\* What it publishes of the request counts the run that it ends.
Tallied(w, step, o) ==
  LET k == Attempt(w, msg[w]) IN
  IF step = "publish_retry"
  THEN Count(o) = k + 1
  ELSE o.code = "processing-failed" => o.attempts = k + 1 /\ ~MayRetry(w, k)

\* It works on the document, or publishes the request again or its end.
Works(w) ==
  /\ pc[w] \in Early
  /\ \E step \in {"publish", "unlink", "notify"} \cup Publishing : \E o :
       /\ Goes(w, step, o)
       /\ step \in Publishing => o.body = msg[w].body
       /\ step = "publish_retry" => o.mode = "none"
       /\ step \in Publishing => Tallied(w, step, o)
  /\ UNCHANGED <<harmony, repeated>> \/ Src(w) \in repeated'
  /\ StorageMode = "s3" /\ pc'[w] = "notify" => Src(w) \notin files'

\* The callback of each step.
Callback(w) == IF pc[w] = "notify" THEN "success"
               ELSE IF pc[w] = "notify_failure" THEN "failure" ELSE msg[w].body.what

\* It calls Harmony, or publishes the continuation of the call.
Calls(w) ==
  /\ pc[w] \in {"notify", "notify_failure", "callback"}
  /\ \E step \in {"ack"} \cup Publishing : \E o :
       /\ Goes(w, step, o)
       /\ step \in Publishing => About(o, Src(w), Callback(w))
       /\ step = "publish_retry" => o.mode = Callback(w)
       /\ step = "publish_archive" => o.code # "processing-failed"
  /\ \/ UNCHANGED harmony
     \/ harmony' = [harmony EXCEPT ![Src(w)] = @ \cup {ReportedStatus(Callback(w))}]
  /\ UNCHANGED <<files, repeated>>

GivesUp(w) == /\ pc[w] = "notify_failure" /\ RequeueAndStop(w)
              /\ UNCHANGED <<files, archive, accepted>>

\* Requests other than its own are left alone.
Own(w) == /\ \A s \in Source \ {Src(w)} : /\ harmony'[s] = harmony[s]
                                          /\ s \in files' => s \in files
          /\ repeated \subseteq repeated'

LEMMA FailureWorks ==
  ASSUME NEW w \in Worker, pc[w] \in Early, SettleProcessingFailure(w),
         UNCHANGED <<queue, copy, tag, msg, archive, accepted>>,
         UNCHANGED <<harmony, repeated>> \/ Src(w) \in repeated',
         pc \in [Worker -> Active \cup {"down", "idle"}], msg[w] \in Message
  PROVE  Works(w)
<1> DEFINE k == Attempt(w, msg[w])
           r == RetryMessage(msg[w].body, k + 1, "none")
           e == ArchiveBody(w, msg[w].body, k + 1, "processing-failed")
<1>1. r.body = msg[w].body /\ r.mode = "none" /\ e.body = msg[w].body
  BY DEF RetryMessage, ArchiveBody
<1>2. \/ PublishNext(w, "publish_retry", r)
      \/ PublishNext(w, "publish_archive", e) /\ ~MayRetry(w, k)
  BY DEF SettleProcessingFailure, RetryNext, ArchiveNext
<1>3. k \in 0..MaxRetries[w]
  BY RetryAssumption DEF Attempt, Message
<1>4. Count(r) = k + 1
  <2>1. r.sig \in Signature
    BY <1>3, RetryAssumption DEF RetryMessage, RetrySignature, Signature, Message, Mode
  <2> QED  BY <2>1, NoSignatureAssumption DEF Count, RetryMessage
<1>5. e.attempts = k + 1
  BY <1>3, RetryAssumption DEF ArchiveBody
<1> HIDE DEF r, e
<1>6. pc'[w] # "notify"  BY <1>2 DEF PublishNext
<1>7. CASE PublishNext(w, "publish_retry", r)
  BY <1>1, <1>4, <1>6, <1>7 DEF Works, Goes, Publishing, Tallied
<1>8. CASE PublishNext(w, "publish_archive", e) /\ ~MayRetry(w, k)
  BY <1>1, <1>5, <1>6, <1>8 DEF Works, Goes, Publishing, Tallied
<1> QED  BY <1>2, <1>7, <1>8

\* A failed callback publishes its continuation.
Continues(w) == \E step \in Publishing : \E o :
  /\ Goes(w, step, o)
  /\ About(o, Src(w), Callback(w))
  /\ step = "publish_retry" => o.mode = Callback(w)
  /\ step = "publish_archive" => o.code # "processing-failed"

LEMMA RetryContinues ==
  ASSUME NEW w \in Worker, NEW b, NEW k, b.src = Src(w), b.what = Callback(w),
         RetryNext(w, b, k, Callback(w)),
         UNCHANGED <<queue, copy, tag, msg, archive, accepted>>
  PROVE  Continues(w)
<1> DEFINE r == RetryMessage(b, k, Callback(w))
<1>1. r.body = b /\ r.mode = Callback(w)  BY DEF RetryMessage
<1>2. PublishNext(w, "publish_retry", r)  BY DEF RetryNext
<1> HIDE DEF r
<1> QED  BY <1>1, <1>2 DEF Continues, Goes, About, Publishing

LEMMA ArchiveContinues ==
  ASSUME NEW w \in Worker, NEW b, NEW k, b.src = Src(w), b.what = Callback(w),
         ArchiveNext(w, b, k, "callback-failed"),
         UNCHANGED <<queue, copy, tag, msg, archive, accepted>>
  PROVE  Continues(w)
<1> DEFINE e == ArchiveBody(w, b, k, "callback-failed")
<1>1. e.body = b /\ e.code = "callback-failed"  BY DEF ArchiveBody
<1>2. PublishNext(w, "publish_archive", e)  BY DEF ArchiveNext
<1> HIDE DEF e
<1> QED  BY <1>1, <1>2 DEF Continues, Goes, About, Publishing

LEMMA CallbackFailureContinues ==
  ASSUME NEW w \in Worker, NEW b, NEW k, b.src = Src(w), b.what = Callback(w),
         SettleCallbackFailure(w, b, Callback(w), k),
         UNCHANGED <<queue, copy, tag, msg, archive, accepted>>
  PROVE  Continues(w)
BY RetryContinues, ArchiveContinues DEF SettleCallbackFailure

LEMMA ContinuesCalls ==
  ASSUME NEW w \in Worker, pc[w] \in {"notify", "notify_failure", "callback"},
         Continues(w) \/ Goes(w, "ack", NoOut),
         \/ UNCHANGED harmony
         \/ harmony' = [harmony EXCEPT ![Src(w)] = @ \cup {ReportedStatus(Callback(w))}],
         UNCHANGED <<files, repeated>>
  PROVE  Calls(w)
BY DEF Calls, Continues, Publishing

LEMMA HandleOutcome ==
  ASSUME TypeOK, ShapeInv, NEW w \in Worker, Handle(w)
  PROVE  Own(w) /\ (Works(w) \/ Calls(w) \/ GivesUp(w))
<1> USE DEF TypeOK
<1> DEFINE kept == UNCHANGED <<queue, copy, tag, msg, archive, accepted>>
<1>0. /\ pc \in [Worker -> Active \cup {"down", "idle"}]
      /\ harmony \in [Source -> SUBSET {"done", "failed"}]
      /\ pc[w] \in Active => Src(w) \in Source /\ msg[w] \in Message
  BY DEF WorkerOK, EffectOK, Message, Body, Src
<1>f. pc[w] \in Early /\ SettleProcessingFailure(w) /\ kept
        /\ (UNCHANGED <<harmony, repeated>> \/ Src(w) \in repeated') => Works(w)
  BY <1>0, FailureWorks DEF Early
<1>o. harmony' = harmony /\ repeated' = repeated /\ files' \subseteq files \cup {Src(w)}
        => Own(w)
  BY DEF Own
<1>g. ASSUME NEW step \in {"publish", "unlink", "notify"}, pc[w] \in Early,
             Goto(w, step), kept,
             UNCHANGED <<harmony, repeated>>,
             StorageMode = "s3" /\ step = "notify" => Src(w) \notin files'
      PROVE  Works(w)
  <2>1. Goes(w, step, NoOut)  BY <1>g DEF Goto, Goes
  <2>2. pc'[w] = step  BY <1>0, <1>g DEF Goto, PublishNext, Early
  <2>3. step \notin Publishing  BY DEF Publishing
  <2> QED  BY <1>g, <2>1, <2>2, <2>3 DEF Works
<1>1. CASE RejectRequest(w)
  <2> DEFINE e == ArchiveBody(w, msg[w].body, 1, KindOf[Src(w)])
  <2>1. e.body = msg[w].body /\ e.code \in PermanentKind
    BY <1>1 DEF ArchiveBody, RejectRequest
  <2>2. PublishNext(w, "publish_archive", e)  BY <1>1 DEF RejectRequest, ArchiveNext
  <2> HIDE DEF e
  <2>3. pc[w] \in Early /\ kept /\ UNCHANGED <<harmony, repeated, files>>
    BY <1>1 DEF RejectRequest, broker, store, Early
  <2>4. pc'[w] = "publish_archive"  BY <1>0, <2>2, <2>3 DEF PublishNext, Early
  <2>5. Goes(w, "publish_archive", e)  BY <2>2, <2>3 DEF Goes
  <2>6. Works(w)
    BY <2>1, <2>3, <2>4, <2>5 DEF Works, Publishing, Tallied, PermanentKind
  <2> QED  BY <1>o, <2>3, <2>6
<1>2. CASE RequestUncaught(w) \/ RenderFails(w) \/ PublishDocumentFails(w) \/ UnlinkFails(w)
  <2>1. Works(w)
    BY <1>2, <1>f
    DEF RequestUncaught, RenderFails, PublishDocumentFails, UnlinkFails, broker, Early
  <2> QED  BY <1>2, <1>o, <2>1
           DEF RequestUncaught, RenderFails, PublishDocumentFails, UnlinkFails, store
<1>3. CASE Render(w)
  <2>1. Works(w)  BY <1>3, <1>g DEF Render, broker, Early
  <2> QED  BY <1>3, <1>o, <2>1 DEF Render
<1>4. CASE PublishDocument(w)
  <2>1. Works(w)  BY <1>4, <1>g DEF PublishDocument, AfterPublish, broker, Early
  <2> QED  BY <1>4, <1>o, <2>1 DEF PublishDocument
<1>5. CASE Unlink(w)
  <2>1. Works(w)  BY <1>5, <1>g DEF Unlink, broker, Early
  <2> QED  BY <1>5, <1>o, <2>1 DEF Unlink
<1>6. CASE NotifySuccess(w)
  <2> DEFINE b == [src |-> Src(w), what |-> "success"]
  <2>1. pc[w] = "notify" /\ kept /\ UNCHANGED files /\ Callback(w) = "success"
        /\ Src(w) \in Source
    BY <1>0, <1>6 DEF NotifySuccess, broker, store, Callback
  <2>2. harmony' = harmony
        \/ harmony' = [harmony EXCEPT ![Src(w)] = @ \cup {ReportedStatus(Callback(w))}]
    BY <1>6, <2>1 DEF NotifySuccess, MayReport, Report
  <2>3. CASE Goto(w, "ack") /\ UNCHANGED repeated
    BY <1>0, <2>1, <2>2, <2>3, ContinuesCalls DEF Goto, Goes, Own
  <2>4. CASE SettleCallbackFailure(w, b, "success", 0) /\ UNCHANGED repeated
    <3>1. b.src = Src(w) /\ b.what = Callback(w)  BY <2>1
    <3>2. Continues(w)  BY <2>1, <2>4, <3>1, CallbackFailureContinues
    <3> QED  BY <1>0, <2>1, <2>2, <2>4, <3>2, ContinuesCalls DEF Own
  <2>5. CASE SettleProcessingFailure(w) /\ Repeat(msg[w])
    <3>1. IsSource(msg[w])  BY <2>1 DEF ShapeInv, HandlerShape, Early
    <3>2. Src(w) \in repeated' /\ repeated \subseteq repeated'
      BY <2>5, <3>1 DEF Repeat, IsSource, Src
    <3>3. Works(w)  BY <1>f, <2>1, <2>5, <3>2 DEF Early
    <3> QED  BY <1>0, <2>1, <2>2, <3>2, <3>3 DEF Own
  <2> QED  BY <1>6, <2>3, <2>4, <2>5 DEF NotifySuccess
<1>7. CASE DeliverCallback(w)
  <2> DEFINE b == msg[w].body
  <2>1. pc[w] = "callback" /\ kept /\ UNCHANGED <<files, repeated>> /\ Src(w) \in Source
        /\ Callback(w) = b.what /\ CallbackMode(w, msg[w]) = b.what /\ b.src = Src(w)
    BY <1>0, <1>7 DEF DeliverCallback, broker, store, Callback, ShapeInv, HandlerShape, Src
  <2>2. harmony' = harmony
        \/ harmony' = [harmony EXCEPT ![Src(w)] = @ \cup {ReportedStatus(Callback(w))}]
    BY <1>7, <2>1 DEF DeliverCallback, Report
  <2>3. CASE Goto(w, "ack")
    BY <1>0, <2>1, <2>2, <2>3, ContinuesCalls DEF Goto, Goes, Own
  <2>4. CASE SettleCallbackFailure(w, b, CallbackMode(w, msg[w]), Attempt(w, msg[w]))
    <3>1. Continues(w)  BY <2>1, <2>4, CallbackFailureContinues
    <3> QED  BY <1>0, <2>1, <2>2, <3>1, ContinuesCalls DEF Own
  <2> QED  BY <1>7, <2>3, <2>4 DEF DeliverCallback
<1>8. CASE NotifyFailure(w)
  <2> DEFINE b == [src |-> Src(w), what |-> "failure"]
  <2>1. pc[w] = "notify_failure" /\ UNCHANGED <<files, archive, accepted>>
        /\ Callback(w) = "failure" /\ Src(w) \in Source /\ b.src = Src(w) /\ b.what = "failure"
    BY <1>0, <1>8 DEF NotifyFailure, store, Callback
  <2>2. harmony' = harmony
        \/ harmony' = [harmony EXCEPT ![Src(w)] = @ \cup {ReportedStatus(Callback(w))}]
    BY <1>8, <2>1 DEF NotifyFailure, MayReport, Report
  <2>3. CASE Goto(w, "ack") /\ UNCHANGED <<broker, tag, msg, repeated>>
    BY <1>0, <2>1, <2>2, <2>3, ContinuesCalls DEF Goto, Goes, Own, broker
  <2>4. CASE (RetryNext(w, b, 1, "failure") \/ ArchiveNext(w, b, 1, "callback-failed"))
             /\ UNCHANGED <<broker, tag, msg, repeated>>
    <3>1. Continues(w)
      BY <2>1, <2>4, RetryContinues, ArchiveContinues DEF broker
    <3> QED  BY <1>0, <2>1, <2>2, <2>4, <3>1, ContinuesCalls DEF Own, broker
  <2>5. CASE RequeueAndStop(w)
    <3>1. repeated \subseteq repeated'  BY <2>5 DEF RequeueAndStop, GiveBack, Repeat
    <3> QED  BY <1>0, <2>1, <2>2, <2>5, <3>1 DEF Own, GivesUp
  <2> QED  BY <1>8, <2>3, <2>4, <2>5 DEF NotifyFailure
<1> QED  BY <1>1, <1>2, <1>3, <1>4, <1>5, <1>6, <1>7, <1>8 DEF Handle

-----------------------------------------------------------------------------
(* The shape is kept.                                                      *)

\* All handlers but w's are where they were.
OthersStay(w) == \A v \in Worker \ {w} :
  pc'[v] = pc[v] /\ msg'[v] = msg[v] /\ out'[v] = out[v] /\ tag'[v] = tag[v]

LEMMA ShapeKept ==
  ASSUME ShapeInv, NEW w \in Worker, OthersStay(w), repeated \subseteq repeated', CopyShape',
         HandlerShape(w)'
  PROVE  ShapeInv'
<1>1. ASSUME NEW v \in Worker \ {w}  PROVE HandlerShape(v)'
  <2>1. HandlerShape(v) /\ Src(v)' = Src(v) /\ Live(v)' = Live(v)
    BY DEF ShapeInv, OthersStay, Src, Live
  <2>2. CallbackMode(v, msg[v])' = CallbackMode(v, msg[v])
    BY DEF OthersStay, CallbackMode, Attempt
  <2> QED  BY <2>1, <2>2 DEF OthersStay, HandlerShape, Sane, IsSource
<1> QED  BY <1>1 DEF ShapeInv

\* A worker that is down or idle has no shape.
LEMMA RestShape ==
  ASSUME NEW w \in Worker, pc'[w] \in {"down", "idle"}
  PROVE  HandlerShape(w)'
BY DEF HandlerShape, Early, Publishing

\* A handler's step: where it goes.
LEMMA StepShape ==
  ASSUME TypeOK, NEW w \in Worker, NEW step, NEW o, PublishNext(w, step, o),
         UNCHANGED <<tag, msg>>
  PROVE  OthersStay(w) /\ pc'[w] = step /\ out'[w] = o /\ msg'[w] = msg[w]
         /\ Src(w)' = Src(w) /\ Live(w)' = Live(w)
BY DEF TypeOK, WorkerOK, PublishNext, OthersStay, Src, Live

LEMMA StopShape ==
  ASSUME TypeOK, NEW w \in Worker, Stop(w)
  PROVE  OthersStay(w) /\ HandlerShape(w)' /\ pc'[w] = "down"
<1>1. OthersStay(w) /\ pc'[w] = "down"
  BY DEF TypeOK, WorkerOK, Stop, OthersStay
<1> QED  BY <1>1, RestShape

LEMMA GiveBackShape ==
  ASSUME TypeOK, ShapeInv, NEW w \in Worker, GiveBack(w)
  PROVE  CopyShape' /\ repeated \subseteq repeated'
<1>1. CASE Live(w)
  <2>1. queue[tag[w]] = "unacked"  BY <1>1 DEF TypeOK, HoldOK
  <2> QED  BY <1>1, <2>1
           DEF GiveBack, Repeat, ShapeInv, CopyShape, TypeOK, BrokerOK, Sane, IsSource
<1>2. CASE ~Live(w)
  BY <1>2 DEF GiveBack, ShapeInv, CopyShape, Sane, IsSource
<1> QED  BY <1>1, <1>2

LEMMA RequeueShape ==
  ASSUME TypeOK, ShapeInv, NEW w \in Worker, RequeueAndStop(w)
  PROVE  ShapeInv'
BY GiveBackShape, StopShape, ShapeKept DEF RequeueAndStop

LEMMA HandleShape ==
  ASSUME TypeOK, ShapeInv, NEW w \in Worker, Handle(w)
  PROVE  ShapeInv'
<1>0. Own(w) /\ (Works(w) \/ Calls(w) \/ GivesUp(w))  BY HandleOutcome
<1>h. HandlerShape(w)  BY DEF ShapeInv
<1>1. CASE Works(w)
  <2>1. PICK step \in {"publish", "unlink", "notify"} \cup Publishing : \E o :
          /\ Goes(w, step, o)
          /\ step \in Publishing => o.body = msg[w].body
          /\ step = "publish_retry" => o.mode = "none"
    BY <1>1 DEF Works
  <2>2. PICK o :
          /\ Goes(w, step, o)
          /\ step \in Publishing => o.body = msg[w].body
          /\ step = "publish_retry" => o.mode = "none"
    BY <2>1
  <2>3. /\ OthersStay(w) /\ pc'[w] = step /\ out'[w] = o /\ msg'[w] = msg[w]
        /\ Src(w)' = Src(w) /\ Live(w)' = Live(w)
    BY <2>2, StepShape DEF Goes
  <2>4. CopyShape'  BY <2>2 DEF Goes, ShapeInv, CopyShape, Sane, IsSource
  <2>5. IsSource(msg[w]) /\ Sane(msg[w]) /\ (Live(w) \/ Src(w) \in repeated)
    BY <1>1, <1>h DEF Works, HandlerShape, Early
  <2>6. step \in Publishing => IsSource(o)  BY <2>2, <2>5 DEF IsSource
  <2>7. step = "publish_retry" => Sane(o)  BY <2>2, <2>6 DEF Sane, Publishing
  <2>8. HandlerShape(w)'
    BY <1>0, <2>3, <2>5, <2>6, <2>7
    DEF Own, HandlerShape, Sane, IsSource, Early, Publishing
  <2> QED  BY <1>0, <2>3, <2>4, <2>8, ShapeKept DEF Own
<1>2. CASE Calls(w)
  <2>1. PICK step \in {"ack"} \cup Publishing : \E o :
          /\ Goes(w, step, o)
          /\ step \in Publishing => About(o, Src(w), Callback(w))
          /\ step = "publish_retry" => o.mode = Callback(w)
          /\ step = "publish_archive" => o.code # "processing-failed"
    BY <1>2 DEF Calls
  <2>2. PICK o :
          /\ Goes(w, step, o)
          /\ step \in Publishing => About(o, Src(w), Callback(w))
          /\ step = "publish_retry" => o.mode = Callback(w)
          /\ step = "publish_archive" => o.code # "processing-failed"
    BY <2>1
  <2>3. /\ OthersStay(w) /\ pc'[w] = step /\ out'[w] = o /\ msg'[w] = msg[w]
        /\ Src(w)' = Src(w) /\ Live(w)' = Live(w)
    BY <2>2, StepShape DEF Goes
  <2>4. CopyShape'  BY <2>2 DEF Goes, ShapeInv, CopyShape, Sane, IsSource
  <2>5. Sane(msg[w]) /\ (IsSource(msg[w]) => Live(w) \/ Src(w) \in repeated)
        /\ Callback(w) # "source"
        /\ (~IsSource(msg[w]) => Callback(w) = msg[w].body.what)
    BY <1>2, <1>h DEF Calls, HandlerShape, Early, Callback, IsSource
  <2>6. step \in Publishing => ~IsSource(o) /\ o.body.what = Callback(w)
    BY <2>2, <2>5 DEF IsSource, About
  <2>7. step = "publish_retry" => Sane(o)  BY <2>2, <2>6 DEF Sane, Publishing
  <2>8. step = "publish_archive" => o.code # "processing-failed"  BY <2>2
  <2>9. HandlerShape(w)'
    BY <1>0, <2>3, <2>5, <2>6, <2>7, <2>8
    DEF Own, HandlerShape, Sane, IsSource, Early, Publishing
  <2> QED  BY <1>0, <2>3, <2>4, <2>9, ShapeKept DEF Own
<1>3. CASE GivesUp(w)
  BY <1>3, RequeueShape DEF GivesUp
<1> QED  BY <1>0, <1>1, <1>2, <1>3

\* A new copy is sane when what it is made of is.
LEMMA NewCopyShape ==
  ASSUME TypeOK, ShapeInv, NEW q, NEW m, PutCopy(q, m), Sane(m)
  PROVE  CopyShape'
<1>1. PICK j \in Id : /\ queue[j] = "free" /\ queue' = [queue EXCEPT ![j] = q]
                      /\ copy' = [copy EXCEPT ![j] = m]
  BY NewCopyIsFree DEF PutCopy
<1> QED  BY <1>1 DEF ShapeInv, CopyShape, TypeOK, BrokerOK, Sane, IsSource

LEMMA RemoveShape ==
  ASSUME TypeOK, ShapeInv, NEW i, RemoveCopy(i)
  PROVE  CopyShape'
BY DEF RemoveCopy, ShapeInv, CopyShape, TypeOK, BrokerOK, Sane, IsSource

\* The handler goes to a step at which it has nothing to publish.
LEMMA GotoShape ==
  ASSUME TypeOK, ShapeInv, NEW w \in Worker, pc[w] \in Active,
         NEW step \in {"ack", "notify_failure"},
         Goto(w, step), UNCHANGED <<tag, msg, repeated>>, CopyShape',
         step = "notify_failure" => IsSource(msg[w])
  PROVE  ShapeInv'
<1>1. /\ OthersStay(w) /\ pc'[w] = step /\ msg'[w] = msg[w]
      /\ Src(w)' = Src(w) /\ Live(w)' = Live(w)
  BY StepShape DEF Goto
<1>2. HandlerShape(w)  BY DEF ShapeInv
<1>3. HandlerShape(w)'
  BY <1>1, <1>2 DEF HandlerShape, Sane, IsSource, Early, Publishing
<1> QED  BY <1>1, <1>3, ShapeKept

LEMMA SettleShape ==
  ASSUME TypeOK, ShapeInv, NEW w \in Worker, Settle(w)
  PROVE  ShapeInv'
<1>h. HandlerShape(w)  BY DEF ShapeInv
<1>k. UNCHANGED broker => CopyShape'  BY DEF broker, ShapeInv, CopyShape, Sane, IsSource
<1>1. CASE ConfirmRetry(w)
  <2>1. Sane(out[w])  BY <1>1, <1>h DEF ConfirmRetry, HandlerShape
  <2> QED  BY <1>1, <2>1, NewCopyShape, GotoShape DEF ConfirmRetry
<1>2. CASE ConfirmArchive(w)
  <2>1. out[w].code = "processing-failed" => IsSource(msg[w])
    BY <1>2, <1>h DEF ConfirmArchive, HandlerShape, Publishing
  <2> QED  BY <1>2, <1>k, <2>1, GotoShape, RequeueShape DEF ConfirmArchive
<1>3. CASE PublishFails(w)
  BY <1>3, RequeueShape DEF PublishFails
<1>4. CASE Ack(w)
  <2>1. OthersStay(w) /\ pc'[w] = "idle" /\ repeated' = repeated
    BY <1>4 DEF Ack, TypeOK, WorkerOK, OthersStay
  <2> QED  BY <1>4, <2>1, RemoveShape, RestShape, ShapeKept DEF Ack
<1>5. CASE AckFails(w)
  <2>1. CopyShape' /\ repeated \subseteq repeated'
    BY <1>5, <1>k, RemoveShape, GiveBackShape DEF AckFails
  <2> QED  BY <1>5, <2>1, StopShape, ShapeKept DEF AckFails
<1> QED  BY <1>1, <1>2, <1>3, <1>4, <1>5 DEF Settle

LEMMA FailShape ==
  ASSUME TypeOK, ShapeInv, NEW w \in Worker, Fail(w)
  PROVE  ShapeInv'
<1>h. HandlerShape(w)  BY DEF ShapeInv
<1>1. CASE ConfirmLost(w)
  <2>0. repeated \subseteq repeated' /\ Live(w)  BY <1>1 DEF ConfirmLost, Repeat
  <2>1. CASE pc[w] = "publish_retry"
    <3>1. PICK j \in Id :
            /\ queue[j] = "free"
            /\ queue' = [queue EXCEPT ![j] = "retry", ![tag[w]] = "main"]
            /\ copy' = [copy EXCEPT ![j] = out[w]]
      BY <1>1, <2>1, NewCopyIsFree DEF ConfirmLost
    <3>2. Sane(out[w]) /\ queue[tag[w]] = "unacked"
      BY <1>h, <2>0, <2>1 DEF HandlerShape, TypeOK, HoldOK
    <3>3. CopyShape'
      BY <3>1, <3>2 DEF ShapeInv, CopyShape, TypeOK, BrokerOK, Sane, IsSource
    <3> QED  BY <1>1, <2>0, <3>3, StopShape, ShapeKept DEF ConfirmLost
  <2>2. CASE pc[w] = "publish_archive"
    <3>1. GiveBack(w)  BY <1>1, <2>2 DEF ConfirmLost, GiveBack
    <3> QED  BY <1>1, <3>1, GiveBackShape, StopShape, ShapeKept DEF ConfirmLost
  <2> QED  BY <1>1, <2>1, <2>2 DEF ConfirmLost
<1>2. CASE Disconnect(w)
  <2>1. OthersStay(w) /\ pc'[w] = pc[w] /\ msg'[w] = msg[w] /\ out'[w] = out[w]
    BY <1>2 DEF Disconnect, TypeOK, WorkerOK, OthersStay
  <2>2. IsSource(msg[w]) => Src(w) \in repeated'
    BY <1>2 DEF Disconnect, GiveBack, Repeat, IsSource, Src
  <2>3. CallbackMode(w, msg[w])' = CallbackMode(w, msg[w]) /\ Src(w)' = Src(w)
    BY <2>1 DEF CallbackMode, Attempt, Src
  <2>4. HandlerShape(w)'
    BY <1>h, <2>1, <2>2, <2>3 DEF HandlerShape, Sane, IsSource
  <2> QED  BY <1>2, <2>1, <2>4, GiveBackShape, ShapeKept DEF Disconnect
<1>3. CASE Crash(w)
  BY <1>3, RequeueShape DEF Crash
<1> QED  BY <1>1, <1>2, <1>3 DEF Fail

\* The mode and the body of a message survive its death.
LEMMA DeadShape ==
  ASSUME NEW m \in Message
  PROVE  /\ [m EXCEPT !.died = TRUE].body = m.body
         /\ [m EXCEPT !.died = TRUE].mode = m.mode
         /\ [m EXCEPT !.died = TRUE].sig = m.sig
         /\ [m EXCEPT !.died = TRUE].attempt = m.attempt
BY DEF Message

LEMMA DeliverShape ==
  ASSUME TypeOK, ShapeInv, NEW w \in Worker, NEW i \in Id, Deliver(w, i)
  PROVE  ShapeInv'
<1> DEFINE m == copy[i]
           e == ArchiveBody(w, m.body, 1, "invalid-retry-state")
<1>1. /\ pc[w] = "idle" /\ queue[i] = "main" /\ queue' = [queue EXCEPT ![i] = "unacked"]
      /\ tag' = [tag EXCEPT ![w] = i] /\ msg' = [msg EXCEPT ![w] = m]
      /\ UNCHANGED <<copy, repeated>>
  BY DEF Deliver
<1>2. CopyShape' /\ Sane(m) /\ m \in Message
  BY <1>1 DEF ShapeInv, CopyShape, TypeOK, BrokerOK, Sane, IsSource
<1>3. msg'[w] = m /\ Live(w)'
  BY <1>1, NoTagAssumption DEF TypeOK, WorkerOK, Live
<1>4. e.body = m.body /\ e.code = "invalid-retry-state"  BY DEF ArchiveBody
<1> HIDE DEF e, m
<1>5. PICK step, o :
        /\ PublishNext(w, step, o)
        /\ \/ step = "publish_archive" /\ o = e
           \/ step = "render" /\ CallbackMode(w, m) = "none" /\ ~InvalidRetryState(w, m)
           \/ step = "callback" /\ CallbackMode(w, m) # "none"
  BY DEF Deliver, ArchiveNext, Goto, m, e
<1>6. pc'[w] = step /\ out'[w] = o /\ OthersStay(w)
  BY <1>1, <1>5 DEF PublishNext, TypeOK, WorkerOK, OthersStay
<1>7. step = "render" => m.mode = "none"
  BY <1>5 DEF CallbackMode, InvalidRetryState, HasRetryState
<1>8. step = "callback" => CallbackMode(w, m) = m.mode /\ m.mode # "none"
  BY <1>5 DEF CallbackMode
<1>9. m.body.what \in {"source", "success", "failure"}  BY <1>2 DEF Message, Body
<1>10. CallbackMode(w, msg[w])' = CallbackMode(w, m)
  BY <1>3 DEF CallbackMode, Attempt
<1>11. HandlerShape(w)'
  BY <1>2, <1>3, <1>4, <1>5, <1>6, <1>7, <1>8, <1>9, <1>10
  DEF HandlerShape, Sane, IsSource, Early, Publishing
<1> QED  BY <1>1, <1>2, <1>6, <1>11, ShapeKept

LEMMA BrokerStepShape ==
  ASSUME TypeOK, ShapeInv
  PROVE  /\ \A s \in Source : Accept(s) => ShapeInv'
         /\ \A w \in Worker : Connect(w) => ShapeInv'
         /\ \A i \in Id : Expire(i) => ShapeInv'
         /\ \A i \in Id : ExpireTwice(i) => ShapeInv'
<1>w. ASSUME UNCHANGED <<pc, tag, msg, out>>, repeated \subseteq repeated', CopyShape'
      PROVE  ShapeInv'
  <2> SUFFICES ASSUME NEW v \in Worker PROVE HandlerShape(v)'  BY <1>w DEF ShapeInv
  <2>1. HandlerShape(v) /\ Src(v)' = Src(v) /\ Live(v)' = Live(v)
    BY <1>w DEF ShapeInv, Src, Live
  <2>2. CallbackMode(v, msg[v])' = CallbackMode(v, msg[v])
    BY <1>w DEF CallbackMode, Attempt
  <2> QED  BY <1>w, <2>1, <2>2 DEF HandlerShape, Sane, IsSource
<1>1. ASSUME NEW s \in Source, Accept(s)  PROVE ShapeInv'
  <2>1. Sane(SourceMessage(s))  BY DEF SourceMessage, Sane, IsSource
  <2>2. CopyShape'  BY <1>1, <2>1, NewCopyShape DEF Accept
  <2> QED  BY <1>1, <1>w, <2>2 DEF Accept
<1>2. ASSUME NEW w \in Worker, Connect(w)  PROVE ShapeInv'
  <2>1. OthersStay(w) /\ pc'[w] = "idle" /\ repeated' = repeated
    BY <1>2 DEF Connect, TypeOK, WorkerOK, OthersStay
  <2>2. CopyShape'  BY <1>2 DEF Connect, broker, ShapeInv, CopyShape, Sane, IsSource
  <2> QED  BY <2>1, <2>2, RestShape, ShapeKept
<1>3. ASSUME NEW i \in Id, Expire(i)  PROVE ShapeInv'
  <2>1. copy[i] \in Message /\ Sane(copy[i]) /\ copy' = [copy EXCEPT ![i].died = TRUE]
        /\ queue' = [queue EXCEPT ![i] = "main"] /\ repeated' = repeated
    BY <1>3 DEF Expire, TypeOK, BrokerOK, ShapeInv, CopyShape
  <2>2. CopyShape'
    BY <2>1, DeadShape DEF ShapeInv, CopyShape, TypeOK, BrokerOK, Sane, IsSource
  <2> QED  BY <1>3, <1>w, <2>1, <2>2 DEF Expire
<1>4. ASSUME NEW i \in Id, ExpireTwice(i)  PROVE ShapeInv'
  <2>1. copy[i] \in Message /\ Sane(copy[i])
    BY <1>4 DEF ExpireTwice, TypeOK, BrokerOK, ShapeInv, CopyShape
  <2>2. Sane([copy[i] EXCEPT !.died = TRUE])  BY <2>1, DeadShape DEF Sane, IsSource
  <2>3. CopyShape'  BY <1>4, <2>2, NewCopyShape DEF ExpireTwice
  <2> QED  BY <1>4, <1>w, <2>3 DEF ExpireTwice, Repeat
<1> QED  BY <1>1, <1>2, <1>3, <1>4

LEMMA NextShape == TypeOK /\ ShapeInv /\ [Next]_vars => ShapeInv'
<1> SUFFICES ASSUME TypeOK, ShapeInv, [Next]_vars PROVE ShapeInv'  OBVIOUS
<1>1. CASE Next
  BY <1>1, HandleShape, SettleShape, FailShape, DeliverShape, BrokerStepShape DEF Next
<1>2. CASE UNCHANGED vars
  <2>1. \A v \in Worker : CallbackMode(v, msg[v])' = CallbackMode(v, msg[v])
    BY <1>2 DEF vars, CallbackMode, Attempt
  <2> QED  BY <1>2, <2>1 DEF vars, ShapeInv, CopyShape, HandlerShape, Sane, IsSource, Src, Live
<1> QED  BY <1>1, <1>2

-----------------------------------------------------------------------------
(* The line of a request.                                                  *)

\* A copy of the request itself that has yet to be settled.
Open(s, i) == Pending(s, i) /\ IsSource(copy[i])

\* Harmony was told, or a continuation that will tell it exists.
Told(s, what) ==
  \/ ReportedStatus(what) \in harmony[s]
  \/ \E i \in Id : queue[i] # "free" /\ About(copy[i], s, what)
  \/ \E w \in Worker : pc[w] \in Active /\ About(msg[w], s, what)
  \/ \E w \in Worker : pc[w] \in Publishing /\ About(out[w], s, what)

Exhausted(e, s) == e.code = "processing-failed" /\ e.body.src = s

Failed(s) == \E e \in archive : Exhausted(e, s)

Verdicts == {"success", "failure"}

Closed(s) == Failed(s) \/ \E what \in Verdicts : Told(s, what)

\* The handler has done with the request and settles how it ended.
Ended(w) == pc[w] = "notify_failure" \/ (pc[w] \in Publishing /\ ~IsSource(out[w]))

At(w, s, step) == pc[w] = step /\ Src(w) = s

Unique(s) == \A i, j \in Id : Open(s, i) /\ Open(s, j) => i = j

After(s) == Closed(s) => \A i \in Id : Open(s, i) => \E w \in Worker : tag[w] = i /\ Ended(w)

OneVerdict(s) ==
  /\ ~(Told(s, "success") /\ Told(s, "failure"))
  /\ \A w \in Worker : At(w, s, "notify_failure") => ~Told(s, "success")

Clean(s) ==
  StorageMode = "s3" /\ (Told(s, "success") \/ \E w \in Worker : At(w, s, "notify"))
    => s \notin files

Line(s) == Unique(s) /\ After(s) /\ OneVerdict(s) /\ Clean(s)

LineInv == /\ \A s \in Source \ repeated : Line(s)
           /\ \A s \in Source \ accepted : harmony[s] = {}

\* A step that adds nothing to what the line of s rests on.
Undisturbed(s) ==
  /\ \A i \in Id : Open(s, i)' => Open(s, i)
  /\ \A i \in Id, w \in Worker : Open(s, i)' /\ tag[w] = i /\ Ended(w)
       => tag'[w] = i /\ Ended(w)'
  /\ \A what \in Verdicts : Told(s, what)' => Told(s, what)
  /\ Failed(s)' => Failed(s)
  /\ \A w \in Worker : At(w, s, "notify_failure")' => At(w, s, "notify_failure")
  /\ \A w \in Worker : At(w, s, "notify")' => At(w, s, "notify")
  /\ s \in files' => s \in files

LEMMA UndisturbedLine ==
  ASSUME NEW s \in Source, Line(s), Undisturbed(s)
  PROVE  Line(s)'
<1>1. Unique(s)'  BY DEF Line, Undisturbed, Unique
<1>2. After(s)'
  <2>1. Closed(s)' => Closed(s)  BY DEF Undisturbed, Closed
  <2> QED  BY <2>1 DEF Line, Undisturbed, After
<1>3. OneVerdict(s)'  BY DEF Line, Undisturbed, OneVerdict, Verdicts
<1>4. Clean(s)'  BY DEF Line, Undisturbed, Clean, Verdicts
<1> QED  BY <1>1, <1>2, <1>3, <1>4 DEF Line

\* The handler of the request itself has its only open copy, and before it has ended
\* nothing else has.
LEMMA Sole ==
  ASSUME TypeOK, ShapeInv, NEW s \in Source \ repeated, Line(s),
         NEW w \in Worker, pc[w] \in Active \ {"ack"}, IsSource(msg[w]), Src(w) = s
  PROVE  /\ Live(w) /\ tag[w] \in Id
         /\ \A i \in Id : Open(s, i) <=> i = tag[w]
         /\ ~Ended(w) => ~Closed(s)
         /\ \A v \in Worker : pc[v] \in Active \ {"ack"} /\ IsSource(msg[v]) /\ Src(v) = s
              => v = w
<1>1. ASSUME NEW v \in Worker, pc[v] \in Active \ {"ack"}, IsSource(msg[v]), Src(v) = s
      PROVE  Live(v) /\ tag[v] \in Id /\ Open(s, tag[v])
  <2>1. Live(v) /\ tag[v] \in Id  BY <1>1 DEF ShapeInv, HandlerShape, TypeOK, WorkerOK, Live
  <2>2. queue[tag[v]] = "unacked" /\ copy[tag[v]] = msg[v]
    BY <2>1 DEF TypeOK, HoldOK
  <2>3. ~Acking(tag[v])  BY <1>1, <2>1 DEF Acking, TypeOK, HoldOK
  <2> QED  BY <1>1, <2>1, <2>2, <2>3 DEF Open, Pending, Src
<1>2. Live(w) /\ tag[w] \in Id /\ \A i \in Id : Open(s, i) <=> i = tag[w]
  BY <1>1 DEF Line, Unique
<1>3. ASSUME Closed(s)  PROVE Ended(w)
  <2>1. PICK v \in Worker : tag[v] = tag[w] /\ Ended(v)
    BY <1>2, <1>3 DEF Line, After
  <2> QED  BY <1>2, <2>1 DEF TypeOK, HoldOK
<1>4. ASSUME NEW v \in Worker, pc[v] \in Active \ {"ack"}, IsSource(msg[v]), Src(v) = s
      PROVE  v = w
  BY <1>1, <1>2, <1>4 DEF TypeOK, HoldOK
<1> QED  BY <1>2, <1>3, <1>4

-----------------------------------------------------------------------------
(* A handler goes on.                                                      *)

\* What a step of handler w leaves as it was.
LEMMA GoesStay ==
  ASSUME TypeOK, NEW w \in Worker, NEW step \in Active, NEW o, Goes(w, step, o),
         pc[w] \in Active \ {"ack"}
  PROVE  /\ OthersStay(w) /\ pc'[w] = step /\ out'[w] = o
         /\ UNCHANGED <<queue, copy, tag, msg, archive>>
         /\ \A v \in Worker : Src(v)' = Src(v)
         /\ \A s, i : Open(s, i)' => Open(s, i)
         /\ \A s : Failed(s)' <=> Failed(s)
<1>1. /\ OthersStay(w) /\ pc'[w] = step /\ out'[w] = o
      /\ UNCHANGED <<queue, copy, tag, msg, archive>>
  BY StepShape DEF Goes
<1>2. \A i : Acking(i) => Acking(i)'  BY <1>1 DEF Acking, OthersStay
<1>3. \A s, i : Open(s, i)' => Open(s, i)  BY <1>1, <1>2 DEF Open, Pending, IsSource
<1>4. \A s : Failed(s)' <=> Failed(s)  BY <1>1 DEF Failed, Exhausted
<1> QED  BY <1>1, <1>3, <1>4 DEF Src

\* What is told after the step of a handler was told before, or by the step.
LEMMA GoesTold ==
  ASSUME TypeOK, NEW w \in Worker, NEW step \in Active, NEW o, Goes(w, step, o),
         pc[w] \in Active \ {"ack"}, NEW s, NEW what, Told(s, what)', ~Told(s, what)
  PROVE  \/ ReportedStatus(what) \in harmony'[s] \ harmony[s]
         \/ step \in Publishing /\ About(o, s, what)
<1>1. /\ OthersStay(w) /\ pc'[w] = step /\ out'[w] = o
      /\ UNCHANGED <<queue, copy, tag, msg, archive>>
  BY GoesStay
<1>2. \A v \in Worker \ {w} : pc'[v] = pc[v] /\ out'[v] = out[v]
  BY <1>1 DEF OthersStay
<1>3. ~(\E i \in Id : queue'[i] # "free" /\ About(copy'[i], s, what))
  BY <1>1 DEF Told
<1>4. ~(\E v \in Worker : pc'[v] \in Active /\ About(msg'[v], s, what))
  BY <1>1, <1>2 DEF Told
<1>5. ASSUME NEW v \in Worker, pc'[v] \in Publishing, About(out'[v], s, what)
      PROVE  step \in Publishing /\ About(o, s, what)
  BY <1>1, <1>2, <1>5 DEF Told
<1>6. ReportedStatus(what) \notin harmony[s]  BY DEF Told
<1> QED  BY <1>3, <1>4, <1>5, <1>6 DEF Told, About

LEMMA GoesElsewhere ==
  ASSUME TypeOK, NEW w \in Worker, NEW step \in Active, NEW o, Goes(w, step, o),
         pc[w] \in Active \ {"ack"}, Own(w), step \in Publishing => o.body.src = Src(w),
         NEW s \in Source \ {Src(w)}
  PROVE  Undisturbed(s)
<1>1. /\ OthersStay(w) /\ pc'[w] = step /\ UNCHANGED <<queue, copy, tag, msg>>
      /\ \A v \in Worker : Src(v)' = Src(v)
      /\ \A i : Open(s, i)' => Open(s, i)
      /\ Failed(s)' => Failed(s)
  BY GoesStay
<1>2. \A what : Told(s, what)' => Told(s, what)
  BY GoesTold DEF About, Own
<1>3. \A i \in Id : Open(s, i)' => tag[w] # i
  BY <1>1, NoTagAssumption DEF Open, Pending, TypeOK, HoldOK, Live, Src
<1>4. \A v \in Worker \ {w} : Ended(v) => Ended(v)'
  BY <1>1 DEF OthersStay, Ended, IsSource
<1>5. \A v \in Worker, x \in {"notify", "notify_failure"} : At(v, s, x)' => At(v, s, x)
  BY <1>1 DEF At, OthersStay
<1> QED  BY <1>1, <1>2, <1>3, <1>4, <1>5 DEF Undisturbed, Own

\* A handler that works on the document: nothing has ended, before and after.
LEMMA WorksLine ==
  ASSUME TypeOK, ShapeInv, NEW w \in Worker, Works(w), Own(w),
         NEW s \in Source \ repeated', s = Src(w), Line(s)
  PROVE  Line(s)'
<1>1. PICK step \in {"publish", "unlink", "notify"} \cup Publishing : \E o :
        Goes(w, step, o) /\ (step \in Publishing => o.body = msg[w].body)
  BY DEF Works
<1>2. PICK o : Goes(w, step, o) /\ (step \in Publishing => o.body = msg[w].body)
  BY <1>1
<1>3. pc[w] \in Active \ {"ack"} /\ step \in Active /\ s \notin repeated /\ ~Ended(w)
      /\ UNCHANGED harmony /\ IsSource(msg[w])
  BY DEF Works, Own, Early, Publishing, Ended, ShapeInv, HandlerShape
<1>4. /\ ~Closed(s)
      /\ \A v \in Worker : pc[v] \in Active \ {"ack"} /\ IsSource(msg[v]) /\ Src(v) = s
           => v = w
  BY <1>3, Sole
<1>5. /\ OthersStay(w) /\ pc'[w] = step /\ UNCHANGED msg
      /\ \A v \in Worker : Src(v)' = Src(v)
      /\ \A i : Open(s, i)' => Open(s, i)
      /\ Failed(s)' <=> Failed(s)
  BY <1>2, <1>3, GoesStay
<1>6. \A what \in Verdicts : ~Told(s, what)'
  <2> SUFFICES ASSUME NEW what \in Verdicts, Told(s, what)' PROVE FALSE  OBVIOUS
  <2>1. ~Told(s, what)  BY <1>4 DEF Closed
  <2> QED  BY <1>2, <1>3, <2>1, GoesTold DEF About, IsSource, Verdicts
<1>7. Unique(s)' /\ After(s)' /\ OneVerdict(s)'
  BY <1>4, <1>5, <1>6 DEF Line, Unique, After, OneVerdict, Closed, Verdicts
<1>8. Clean(s)'
  <2> SUFFICES ASSUME StorageMode = "s3", NEW v \in Worker, At(v, s, "notify")'
               PROVE  s \notin files'
    BY <1>6 DEF Clean, Verdicts
  <2>1. CASE v = w
    BY <2>1, <1>5 DEF At, Works
  <2>2. CASE v # w
    <3>1. pc[v] = "notify" /\ Src(v) = s  BY <1>5, <2>2 DEF At, OthersStay
    <3>2. IsSource(msg[v])  BY <3>1 DEF ShapeInv, HandlerShape, Early
    <3> QED  BY <1>4, <2>2, <3>1, <3>2
  <2> QED  BY <2>1, <2>2
<1> QED  BY <1>7, <1>8 DEF Line

\* A handler that calls Harmony for the request itself ends it, with one verdict.
LEMMA EndsLine ==
  ASSUME TypeOK, ShapeInv, NEW w \in Worker, Calls(w), Own(w), IsSource(msg[w]),
         NEW s \in Source \ repeated', s = Src(w), Line(s)
  PROVE  Line(s)'
<1> DEFINE done == Callback(w)
<1>1. PICK step \in {"ack"} \cup Publishing : \E o :
        Goes(w, step, o) /\ (step \in Publishing => About(o, Src(w), done))
  BY DEF Calls
<1>2. PICK o : Goes(w, step, o) /\ (step \in Publishing => About(o, Src(w), done))
  BY <1>1
<1>3. pc[w] \in {"notify", "notify_failure"} /\ step \in Active /\ s \notin repeated
      /\ files' = files
  BY DEF Calls, Own, Publishing, ShapeInv, HandlerShape
<1>4. /\ tag[w] \in Id
      /\ \A i \in Id : Open(s, i) <=> i = tag[w]
      /\ ~Ended(w) => ~Closed(s)
      /\ \A v \in Worker : pc[v] \in Active \ {"ack"} /\ IsSource(msg[v]) /\ Src(v) = s
           => v = w
  BY <1>3, Sole
<1>5. /\ OthersStay(w) /\ pc'[w] = step /\ out'[w] = o /\ UNCHANGED <<msg, tag>>
      /\ \A v \in Worker : Src(v)' = Src(v)
      /\ \A i : Open(s, i)' => Open(s, i)
  BY <1>2, <1>3, GoesStay
<1>6. done \in Verdicts
      /\ ReportedStatus("success") = "done" /\ ReportedStatus("failure") = "failed"
  BY <1>3 DEF Callback, Verdicts, ReportedStatus
<1>7. \A what \in Verdicts \ {done} : Told(s, what)' => Told(s, what)
  <2> SUFFICES ASSUME NEW what \in Verdicts \ {done}, Told(s, what)', ~Told(s, what)
               PROVE  FALSE
    OBVIOUS
  <2>1. ReportedStatus(what) \in harmony'[s] \ harmony[s]
    BY <1>2, <1>3, GoesTold DEF About
  <2>2. ReportedStatus(what) # ReportedStatus(done)  BY <1>6 DEF Verdicts
  <2>3. harmony'[s] \subseteq harmony[s] \cup {ReportedStatus(done)}
    BY DEF Calls, TypeOK, EffectOK
  <2> QED  BY <2>1, <2>2, <2>3
<1>8. \A what \in Verdicts \ {done} : ~Told(s, what)'
  <2>1. CASE pc[w] = "notify"
    <3>1. ~Closed(s)  BY <1>4, <2>1 DEF Ended, Publishing
    <3> QED  BY <1>7, <3>1 DEF Closed
  <2>2. CASE pc[w] = "notify_failure"
    <3>1. ~Told(s, "success") /\ done = "failure"
      BY <2>2 DEF Line, OneVerdict, At, Callback
    <3> QED  BY <1>7, <3>1 DEF Verdicts
  <2> QED  BY <1>3, <2>1, <2>2
<1>9. \A v \in Worker, x \in {"notify", "notify_failure"} : ~At(v, s, x)'
  <2> SUFFICES ASSUME NEW v \in Worker, NEW x \in {"notify", "notify_failure"}, At(v, s, x)'
               PROVE  FALSE
    OBVIOUS
  <2>1. v # w  BY <1>5 DEF At, Publishing
  <2>2. pc[v] = x /\ Src(v) = s  BY <1>5, <2>1 DEF At, OthersStay
  <2>3. IsSource(msg[v])  BY <2>2 DEF ShapeInv, HandlerShape, Early
  <2> QED  BY <1>4, <2>1, <2>2, <2>3
<1>10. Unique(s)'  BY <1>5 DEF Line, Unique
<1>11. After(s)'
  <2> SUFFICES ASSUME NEW i \in Id, Open(s, i)'
               PROVE  \E v \in Worker : tag'[v] = i /\ Ended(v)'
    BY DEF After
  <2>1. i = tag[w]  BY <1>4, <1>5
  <2>2. step # "ack"  BY <1>5, <2>1 DEF Open, Pending, Acking
  <2>3. step \in Publishing /\ ~IsSource(o)
    BY <1>2, <1>6, <2>2 DEF About, IsSource, Verdicts
  <2>4. Ended(w)'  BY <1>5, <2>3 DEF Ended, IsSource
  <2> QED  BY <1>5, <2>1, <2>4
<1>12. OneVerdict(s)'  BY <1>6, <1>8, <1>9 DEF OneVerdict, Verdicts
<1>13. Clean(s)'
  <2> SUFFICES ASSUME StorageMode = "s3", Told(s, "success")' PROVE s \notin files'
    BY <1>9 DEF Clean
  <2>1. pc[w] = "notify"  BY <1>3, <1>8 DEF Callback, Verdicts
  <2> QED  BY <1>3, <2>1 DEF Line, Clean, At
<1> QED  BY <1>10, <1>11, <1>12, <1>13 DEF Line

\* A continuation repeats what was promised.
LEMMA RepeatsLine ==
  ASSUME TypeOK, ShapeInv, NEW w \in Worker, Calls(w), Own(w), ~IsSource(msg[w]),
         NEW s \in Source, s = Src(w)
  PROVE  Undisturbed(s)
<1> DEFINE done == Callback(w)
<1>1. PICK step \in {"ack"} \cup Publishing : \E o :
        Goes(w, step, o) /\ (step \in Publishing => About(o, Src(w), done))
  BY DEF Calls
<1>2. PICK o : Goes(w, step, o) /\ (step \in Publishing => About(o, Src(w), done))
  BY <1>1
<1>3. pc[w] = "callback" /\ step \in Active /\ files' = files /\ done = msg[w].body.what
      /\ done \in Verdicts
  BY DEF Calls, Publishing, ShapeInv, HandlerShape, Early, Callback, IsSource, Verdicts,
         TypeOK, WorkerOK, Message, Body
<1>4. /\ OthersStay(w) /\ pc'[w] = step /\ out'[w] = o
      /\ UNCHANGED <<queue, copy, tag, msg>>
      /\ \A v \in Worker : Src(v)' = Src(v)
      /\ \A i : Open(s, i)' => Open(s, i)
      /\ Failed(s)' <=> Failed(s)
  BY <1>2, <1>3, GoesStay
<1>5. Told(s, done)  BY <1>3 DEF Told, About, Src
<1>6. \A what \in Verdicts : Told(s, what)' => Told(s, what)
  <2> SUFFICES ASSUME NEW what \in Verdicts \ {done}, Told(s, what)', ~Told(s, what)
               PROVE  FALSE
    BY <1>5
  <2>1. ReportedStatus(what) \in harmony'[s] \ harmony[s]
    BY <1>2, <1>3, GoesTold DEF About
  <2>2. ReportedStatus(what) # ReportedStatus(done)
    BY <1>3 DEF Verdicts, ReportedStatus
  <2>3. harmony'[s] \subseteq harmony[s] \cup {ReportedStatus(done)}
    BY DEF Calls, TypeOK, EffectOK
  <2> QED  BY <2>1, <2>2, <2>3
<1>7. \A i \in Id, v \in Worker : Open(s, i)' /\ tag[v] = i /\ Ended(v)
        => tag'[v] = i /\ Ended(v)'
  BY <1>3, <1>4 DEF OthersStay, Ended, IsSource, Publishing
<1>8. \A v \in Worker, x \in {"notify", "notify_failure"} : At(v, s, x)' => At(v, s, x)
  BY <1>4 DEF At, OthersStay, Publishing
<1> QED  BY <1>3, <1>4, <1>6, <1>7, <1>8 DEF Undisturbed

-----------------------------------------------------------------------------
(* Steps of the broker and of the connection.                              *)

\* Each handler stays as it was, or stops.
Ceases == \A v \in Worker :
  \/ pc'[v] \in {"down", "idle"}
  \/ pc'[v] = pc[v] /\ msg'[v] = msg[v] /\ out'[v] = out[v]

\* What is told, at which step, is no more than before, when no copy, envelope or report
\* is added.
LEMMA CeasesTold ==
  ASSUME Ceases, NEW s \in Source, harmony'[s] = harmony[s],
         \A i \in Id : queue'[i] # "free" /\ copy'[i].body.src = s =>
           \/ queue[i] # "free" /\ copy'[i].body = copy[i].body
           \/ copy'[i].body.what \in Verdicts => Told(s, copy'[i].body.what)
  PROVE  /\ \A what \in Verdicts : Told(s, what)' => Told(s, what)
         /\ \A v \in Worker, x \in Active : At(v, s, x)' => At(v, s, x)
<1>1. ASSUME NEW what \in Verdicts, Told(s, what)'  PROVE Told(s, what)
  <2>1. CASE ReportedStatus(what) \in harmony'[s]
    BY <2>1 DEF Told
  <2>2. ASSUME NEW i \in Id, queue'[i] # "free", About(copy'[i], s, what)
        PROVE  Told(s, what)
    BY <1>1, <2>2 DEF Told, About
  <2>3. ASSUME NEW v \in Worker, \/ pc'[v] \in Active /\ About(msg'[v], s, what)
                                 \/ pc'[v] \in Publishing /\ About(out'[v], s, what)
        PROVE  Told(s, what)
    BY <2>3 DEF Told, Ceases, Publishing
  <2> QED  BY <1>1, <2>1, <2>2, <2>3 DEF Told
<1>2. \A v \in Worker, x \in Active : At(v, s, x)' => At(v, s, x)
  BY DEF Ceases, At, Src
<1> QED  BY <1>1, <1>2

\* A delivery that is given back: the request itself is repeated then, a continuation
\* stays what it was.
LEMMA GiveBackLine ==
  ASSUME TypeOK, ShapeInv, NEW w \in Worker, GiveBack(w), tag' = [tag EXCEPT ![w] = NoTag],
         Stop(w) \/ UNCHANGED <<pc, msg, out>>, UNCHANGED files,
         NEW s \in Source \ repeated', harmony'[s] = harmony[s], Failed(s)' => Failed(s)
  PROVE  Undisturbed(s)
<1>1. /\ Ceases /\ tag'[w] = NoTag
      /\ \A v \in Worker \ {w} : pc'[v] = pc[v] /\ tag'[v] = tag[v] /\ out'[v] = out[v]
  BY DEF Stop, Ceases, TypeOK, WorkerOK
<1>2. copy' = copy /\ \A i \in Id : queue'[i] # "free" => queue[i] # "free"
  BY DEF GiveBack, TypeOK, BrokerOK, HoldOK
<1>3. /\ \A what \in Verdicts : Told(s, what)' => Told(s, what)
      /\ \A v \in Worker, x \in Active : At(v, s, x)' => At(v, s, x)
  BY <1>1, <1>2, CeasesTold
<1>4. ASSUME NEW i \in Id, Open(s, i)'
      PROVE  tag[w] # i /\ Open(s, i)
  <2>1. tag[w] # i
    <3> SUFFICES ASSUME tag[w] = i PROVE FALSE  OBVIOUS
    <3>1. Live(w) /\ copy[i] = msg[w]  BY NoTagAssumption DEF TypeOK, HoldOK, Live
    <3>2. IsSource(msg[w]) /\ Src(w) = s
      BY <1>2, <1>4, <3>1 DEF Open, Pending, IsSource, Src
    <3> QED  BY <3>1, <3>2 DEF GiveBack, Repeat, IsSource, Src
  <2>2. queue'[i] = queue[i]  BY <2>1 DEF GiveBack, TypeOK, BrokerOK
  <2>3. Acking(i) => Acking(i)'  BY <1>1, <2>1 DEF Acking
  <2> QED  BY <1>2, <1>4, <2>1, <2>2, <2>3 DEF Open, Pending, IsSource
<1>5. \A i \in Id, v \in Worker : Open(s, i)' /\ tag[v] = i /\ Ended(v)
        => tag'[v] = i /\ Ended(v)'
  BY <1>1, <1>4 DEF Ended, IsSource
<1> QED  BY <1>3, <1>4, <1>5 DEF Undisturbed

\* The broker forgets an acknowledged delivery, which counted for nothing.
LEMMA RemoveLine ==
  ASSUME TypeOK, NEW w \in Worker, pc[w] = "ack", Live(w), RemoveCopy(tag[w]),
         tag' = [tag EXCEPT ![w] = NoTag], OthersStay(w), pc'[w] \in {"down", "idle"},
         UNCHANGED <<files, harmony, archive>>, NEW s \in Source
  PROVE  Undisturbed(s)
<1>1. Ceases /\ tag'[w] = NoTag /\ \A v \in Worker \ {w} : tag'[v] = tag[v]
  BY DEF Ceases, OthersStay, TypeOK, WorkerOK
<1>2. \A i \in Id : queue'[i] # "free" =>
        i # tag[w] /\ queue'[i] = queue[i] /\ copy'[i] = copy[i]
  BY DEF RemoveCopy, TypeOK, BrokerOK
<1>3. /\ \A what \in Verdicts : Told(s, what)' => Told(s, what)
      /\ \A v \in Worker, x \in Active : At(v, s, x)' => At(v, s, x)
  BY <1>1, <1>2, CeasesTold
<1>4. \A i \in Id : i # tag[w] /\ Acking(i) => Acking(i)'
  BY <1>1 DEF Acking, OthersStay
<1>5. \A i \in Id : Open(s, i)' => Open(s, i) /\ i # tag[w]
  BY <1>2, <1>4 DEF Open, Pending, IsSource
<1>6. \A i \in Id, v \in Worker : Open(s, i)' /\ tag[v] = i /\ Ended(v)
        => tag'[v] = i /\ Ended(v)'
  BY <1>1, <1>5 DEF Ended, IsSource, OthersStay
<1>7. Failed(s)' => Failed(s)  BY DEF Failed, Exhausted
<1> QED  BY <1>3, <1>5, <1>6, <1>7 DEF Undisturbed

\* A place that was free takes a copy.
Puts(j, q, m) == /\ queue[j] = "free" /\ queue' = [queue EXCEPT ![j] = q]
                 /\ copy' = [copy EXCEPT ![j] = m]

\* The handler has nothing more to settle than its acknowledgement.
LEMMA GotoAck ==
  ASSUME TypeOK, NEW w \in Worker, pc[w] \in Active, Goto(w, "ack"), UNCHANGED <<tag, msg>>
  PROVE  /\ OthersStay(w) /\ pc'[w] = "ack" /\ Src(w)' = Src(w)
         /\ \A i : Acking(i) => Acking(i)'
         /\ \A v \in Worker, s \in Source, x \in {"notify", "notify_failure"} :
                At(v, s, x)' => At(v, s, x)
         /\ \A i \in Id, v \in Worker :
              tag[v] = i /\ Ended(v) /\ ~Acking(i)' => tag'[v] = i /\ Ended(v)'
         /\ \A s, what : (\E v \in Worker : \/ pc'[v] \in Active /\ About(msg'[v], s, what)
                                            \/ pc'[v] \in Publishing /\ About(out'[v], s, what))
                         => Told(s, what)
<1>1. /\ OthersStay(w) /\ pc'[w] = "ack" /\ msg'[w] = msg[w] /\ tag'[w] = tag[w]
      /\ Src(w)' = Src(w)
  BY StepShape DEF Goto
<1>2. \A i : Acking(i) => Acking(i)'  BY <1>1 DEF Acking, OthersStay
<1>3. \A v \in Worker, s \in Source, x \in {"notify", "notify_failure"} :
          At(v, s, x)' => At(v, s, x)
  BY <1>1 DEF At, OthersStay, Src
<1>4. \A i \in Id, v \in Worker :
        tag[v] = i /\ Ended(v) /\ ~Acking(i)' => tag'[v] = i /\ Ended(v)'
  BY <1>1 DEF Acking, OthersStay, Ended, IsSource
<1>5. ASSUME NEW s, NEW what, NEW v \in Worker,
             \/ pc'[v] \in Active /\ About(msg'[v], s, what)
             \/ pc'[v] \in Publishing /\ About(out'[v], s, what)
      PROVE  Told(s, what)
  BY <1>1, <1>5 DEF Told, OthersStay, Publishing
<1> QED  BY <1>1, <1>2, <1>3, <1>4, <1>5
\* To keep the invariant, it is enough to keep each line that was there.
LEMMA LineKept ==
  ASSUME LineInv, repeated \subseteq repeated', accepted' = accepted,
         \A s \in Source \ repeated' : Line(s) => Line(s)',
         \A s \in Source \ accepted : harmony'[s] = harmony[s]
  PROVE  LineInv'
BY DEF LineInv

LEMMA HandleLine ==
  ASSUME TypeOK, ShapeInv, Tracked, LineInv, NEW w \in Worker, Handle(w)
  PROVE  LineInv'
<1>1. Own(w) /\ (Works(w) \/ Calls(w) \/ GivesUp(w))  BY HandleOutcome
<1>2. pc[w] \in Active /\ accepted' = accepted  BY HandleEffect
<1>3. Src(w) \in accepted  BY <1>2 DEF Tracked
<1>4. pc[w] # "ack"  BY <1>1 DEF Works, Calls, GivesUp, Early
<1>5. ASSUME NEW s \in Source \ repeated', Line(s)  PROVE Line(s)'
  <2>1. CASE Works(w)
    <3>1. CASE s = Src(w)
      BY <1>1, <1>5, <2>1, <3>1, WorksLine
    <3>2. CASE s # Src(w)
      <4>1. PICK step \in {"publish", "unlink", "notify"} \cup Publishing : \E o :
              Goes(w, step, o) /\ (step \in Publishing => o.body = msg[w].body)
        BY <2>1 DEF Works
      <4>2. PICK o : Goes(w, step, o) /\ (step \in Publishing => o.body = msg[w].body)
        BY <4>1
      <4>3. step \in Active /\ (step \in Publishing => o.body.src = Src(w))
        BY <4>2 DEF Publishing, Src
      <4>4. Undisturbed(s)  BY <1>1, <1>2, <1>4, <3>2, <4>2, <4>3, GoesElsewhere
      <4> QED  BY <1>5, <4>4, UndisturbedLine
    <3> QED  BY <3>1, <3>2
  <2>2. CASE Calls(w)
    <3>1. CASE s = Src(w) /\ IsSource(msg[w])
      BY <1>1, <1>5, <2>2, <3>1, EndsLine
    <3>2. CASE s = Src(w) /\ ~IsSource(msg[w])
      BY <1>1, <1>5, <2>2, <3>2, RepeatsLine, UndisturbedLine
    <3>3. CASE s # Src(w)
      <4>1. PICK step \in {"ack"} \cup Publishing : \E o :
              Goes(w, step, o) /\ (step \in Publishing => About(o, Src(w), Callback(w)))
        BY <2>2 DEF Calls
      <4>2. PICK o : Goes(w, step, o) /\ (step \in Publishing => About(o, Src(w), Callback(w)))
        BY <4>1
      <4>3. step \in Active /\ (step \in Publishing => o.body.src = Src(w))
        BY <4>2 DEF Publishing, About
      <4>4. Undisturbed(s)  BY <1>1, <1>2, <1>4, <3>3, <4>2, <4>3, GoesElsewhere
      <4> QED  BY <1>5, <4>4, UndisturbedLine
    <3> QED  BY <3>1, <3>2, <3>3
  <2>3. CASE GivesUp(w)
    <3>1. IsSource(msg[w]) /\ (Live(w) \/ Src(w) \in repeated)
      BY <1>2, <2>3 DEF GivesUp, ShapeInv, HandlerShape
    <3>2. Src(w) \in repeated'
      BY <1>1, <2>3, <3>1 DEF GivesUp, RequeueAndStop, GiveBack, Repeat, IsSource, Src, Own
    <3>3. harmony'[s] = harmony[s] /\ (Failed(s)' => Failed(s))
      BY <1>1, <1>5, <2>3, <3>2 DEF Own, GivesUp, Failed, Exhausted
    <3>4. Undisturbed(s)
      BY <1>5, <2>3, <3>3, GiveBackLine DEF GivesUp, RequeueAndStop, Stop
    <3> QED  BY <1>5, <3>4, UndisturbedLine
  <2> QED  BY <1>1, <2>1, <2>2, <2>3
<1>6. \A s \in Source \ accepted : harmony'[s] = harmony[s]  BY <1>1, <1>3 DEF Own
<1> QED  BY <1>1, <1>2, <1>5, <1>6, LineKept DEF Own

\* A retry of the request opens its line anew; one of a continuation was announced.
LEMMA ConfirmRetryLine ==
  ASSUME TypeOK, ShapeInv, Tracked, LineInv, NEW w \in Worker, ConfirmRetry(w)
  PROVE  LineInv'
<1>1. /\ pc[w] = "publish_retry" /\ Goto(w, "ack")
      /\ UNCHANGED <<tag, msg, files, harmony, archive, accepted, repeated>>
  BY DEF ConfirmRetry, store
<1>2. PICK j \in Id : Puts(j, "retry", out[w])
  BY NewCopyIsFree DEF ConfirmRetry, PutCopy, Puts
<1>3. /\ OthersStay(w) /\ pc'[w] = "ack" /\ Src(w)' = Src(w)
      /\ \A i : Acking(i) => Acking(i)'
      /\ \A v \in Worker, s \in Source, x \in {"notify", "notify_failure"} :
             At(v, s, x)' => At(v, s, x)
      /\ \A i \in Id, v \in Worker :
           tag[v] = i /\ Ended(v) /\ ~Acking(i)' => tag'[v] = i /\ Ended(v)'
      /\ \A s, what : (\E v \in Worker : \/ pc'[v] \in Active /\ About(msg'[v], s, what)
                                         \/ pc'[v] \in Publishing /\ About(out'[v], s, what))
                      => Told(s, what)
  BY <1>1, GotoAck
<1>4. /\ queue'[j] = "retry" /\ copy'[j] = out[w]
      /\ \A i \in Id \ {j} : queue'[i] = queue[i] /\ copy'[i] = copy[i]
  BY <1>2 DEF Puts, TypeOK, BrokerOK
<1>5. out[w].body.src = Src(w)  BY <1>1 DEF Tracked
<1>6. ASSUME NEW s \in Source, NEW what, Told(s, what)', ~Told(s, what)
      PROVE  About(out[w], s, what)
  BY <1>1, <1>3, <1>4, <1>6 DEF Told, About
<1>7. ASSUME NEW s \in Source, NEW i \in Id \ {j}, Open(s, i)'
      PROVE  Open(s, i)
  BY <1>3, <1>4, <1>7 DEF Open, Pending, IsSource
<1>8. \A s \in Source : Failed(s)' => Failed(s)  BY <1>1 DEF Failed, Exhausted
<1>9. ASSUME NEW s \in Source \ repeated', Line(s)  PROVE Line(s)'
  <2>1. CASE IsSource(out[w]) /\ s = Src(w)
    <3>1. IsSource(msg[w]) /\ ~Ended(w)
      BY <1>1, <2>1 DEF ShapeInv, HandlerShape, Publishing, Ended
    <3>2. /\ \A i \in Id : Open(s, i) <=> i = tag[w]
          /\ ~Closed(s)
          /\ \A v \in Worker : pc[v] \in Active \ {"ack"} /\ IsSource(msg[v]) /\ Src(v) = s
                               => v = w
      BY <1>1, <1>9, <2>1, <3>1, Sole
    <3>3. \A what \in Verdicts : ~Told(s, what)'
      BY <1>6, <2>1, <3>2 DEF Closed, About, IsSource, Verdicts
    <3>4. ~Closed(s)'  BY <1>8, <3>2, <3>3 DEF Closed
    <3>5. \A i \in Id : Open(s, i)' => i = j
      <4>1. \A i \in Id : i = tag[w] => Acking(i)'  BY <1>1, <1>3 DEF Acking
      <4>2. \A i \in Id : Open(s, i)' => ~Acking(i)'  BY DEF Open, Pending
      <4> QED  BY <1>7, <3>2, <4>1, <4>2
    <3>6. \A v \in Worker : ~At(v, s, "notify")'
      BY <1>1, <1>3, <3>2 DEF At, ShapeInv, HandlerShape, Early
    <3> QED  BY <3>3, <3>4, <3>5, <3>6 DEF Line, Unique, After, OneVerdict, Clean, Verdicts
  <2>2. CASE ~(IsSource(out[w]) /\ s = Src(w))
    <3>1. \A i \in Id : Open(s, i)' => Open(s, i)
      BY <1>4, <1>5, <1>7, <2>2 DEF Open, Pending, IsSource
    <3>2. \A what \in Verdicts : Told(s, what)' => Told(s, what)
      BY <1>1, <1>6 DEF Told, Publishing
    <3>3. \A i \in Id, v \in Worker : Open(s, i)' /\ tag[v] = i /\ Ended(v)
            => tag'[v] = i /\ Ended(v)'
      BY <1>3 DEF Open, Pending
    <3>4. Undisturbed(s)  BY <1>1, <1>3, <1>8, <3>1, <3>2, <3>3 DEF Undisturbed
    <3> QED  BY <1>9, <3>4, UndisturbedLine
  <2> QED  BY <2>1, <2>2
<1> QED  BY <1>1, <1>9, LineKept

\* An exhausted request is archived: its line ends with the failure to report.
LEMMA ConfirmArchiveLine ==
  ASSUME TypeOK, ShapeInv, Tracked, LineInv, NEW w \in Worker, ConfirmArchive(w)
  PROVE  LineInv'
<1>1. /\ pc[w] = "publish_archive" /\ archive' = archive \cup {out[w]}
      /\ UNCHANGED <<files, harmony, accepted>>
  BY DEF ConfirmArchive, store
<1>2. out[w].body.src = Src(w)  BY <1>1 DEF Tracked
<1>3. \A s \in Source : s # Src(w) \/ out[w].code # "processing-failed" =>
        (Failed(s)' => Failed(s))
  BY <1>1, <1>2 DEF Failed, Exhausted
<1>4. CASE out[w].code # "processing-failed" /\ Goto(w, "ack")
           /\ UNCHANGED <<broker, tag, msg, repeated>>
  <2>1. /\ OthersStay(w) /\ pc'[w] = "ack" /\ Src(w)' = Src(w)
        /\ \A i : Acking(i) => Acking(i)'
        /\ \A v \in Worker, s \in Source, x \in {"notify", "notify_failure"} :
             At(v, s, x)' => At(v, s, x)
        /\ \A i \in Id, v \in Worker :
             tag[v] = i /\ Ended(v) /\ ~Acking(i)' => tag'[v] = i /\ Ended(v)'
        /\ \A s, what : (\E v \in Worker : \/ pc'[v] \in Active /\ About(msg'[v], s, what)
                                           \/ pc'[v] \in Publishing /\ About(out'[v], s, what))
                        => Told(s, what)
    BY <1>1, <1>4, GotoAck
  <2>2. ASSUME NEW s \in Source \ repeated, Line(s)  PROVE Line(s)'
    <3>1. \A i \in Id : Open(s, i)' => Open(s, i) /\ ~Acking(i)'
      BY <1>4, <2>1 DEF Open, Pending, IsSource, broker
    <3>2. \A what \in Verdicts : Told(s, what)' => Told(s, what)
      BY <1>1, <1>4, <2>1 DEF Told, About, broker
    <3>3. Undisturbed(s)  BY <1>1, <1>3, <1>4, <2>1, <3>1, <3>2 DEF Undisturbed
    <3> QED  BY <2>2, <3>3, UndisturbedLine
  <2> QED  BY <1>1, <1>4, <2>2, LineKept
<1>5. CASE out[w].code = "processing-failed" /\ Goto(w, "notify_failure")
           /\ UNCHANGED <<broker, tag, msg, repeated>>
  <2>1. IsSource(out[w]) /\ IsSource(msg[w]) /\ ~Ended(w)
    BY <1>1, <1>5 DEF ShapeInv, HandlerShape, Publishing, Ended
  <2>3. /\ OthersStay(w) /\ pc'[w] = "notify_failure" /\ Src(w)' = Src(w)
        /\ UNCHANGED <<queue, copy, tag, msg>> /\ \A v \in Worker : Src(v)' = Src(v)
    BY <1>5, StepShape DEF Goto, broker, Src
  <2>4. \A i : Acking(i) => Acking(i)'  BY <1>1, <2>3 DEF Acking, OthersStay
  <2>5. \A s \in Source, i \in Id : Open(s, i)' => Open(s, i)
    BY <2>3, <2>4 DEF Open, Pending, IsSource
  <2>6. \A s \in Source, what \in Verdicts : Told(s, what)' => Told(s, what)
    BY <1>1, <2>3 DEF Told, About, OthersStay, Publishing
  <2>7. ASSUME NEW s \in Source \ repeated, Line(s)  PROVE Line(s)'
    <3>1. CASE s = Src(w)
      <4>1. /\ \A i \in Id : Open(s, i) <=> i = tag[w]
            /\ ~Closed(s)
            /\ \A v \in Worker : pc[v] \in Active \ {"ack"} /\ IsSource(msg[v]) /\ Src(v) = s
                                 => v = w
        BY <1>1, <2>1, <2>7, <3>1, Sole
      <4>2. \A what \in Verdicts : ~Told(s, what)'  BY <2>6, <4>1 DEF Closed
      <4>3. Ended(w)'  BY <2>3 DEF Ended
      <4>4. \A i \in Id : Open(s, i)' => i = tag'[w] /\ tag' = tag  BY <2>3, <2>5, <4>1
      <4>5. \A v \in Worker : ~At(v, s, "notify")'
        BY <1>1, <2>3, <4>1 DEF At, OthersStay, ShapeInv, HandlerShape, Early
      <4> QED  BY <4>2, <4>3, <4>4, <4>5 DEF Line, Unique, After, OneVerdict, Clean, Verdicts
    <3>2. CASE s # Src(w)
      <4>1. \A i \in Id : Open(s, i)' => tag[w] # i
        BY <2>5, <3>2, NoTagAssumption DEF Open, Pending, TypeOK, HoldOK, Live, Src
      <4>2. \A v \in Worker \ {w} : Ended(v) => Ended(v)'
        BY <2>3 DEF OthersStay, Ended, IsSource
      <4>3. \A v \in Worker, x \in {"notify", "notify_failure"} : At(v, s, x)' => At(v, s, x)
        BY <2>3, <3>2 DEF At, OthersStay
      <4>4. Undisturbed(s)
        BY <1>1, <1>3, <2>3, <2>5, <2>6, <3>2, <4>1, <4>2, <4>3 DEF Undisturbed
      <4> QED  BY <2>7, <4>4, UndisturbedLine
    <3> QED  BY <3>1, <3>2
  <2> QED  BY <1>1, <1>5, <2>7, LineKept
<1>6. CASE out[w].code = "processing-failed" /\ RequeueAndStop(w)
  <2>1. IsSource(out[w]) /\ IsSource(msg[w]) /\ (Live(w) \/ Src(w) \in repeated)
    BY <1>1, <1>6 DEF ShapeInv, HandlerShape, Publishing
  <2>2. repeated \subseteq repeated' /\ Src(w) \in repeated'
    BY <1>6, <2>1 DEF RequeueAndStop, GiveBack, Repeat, IsSource, Src
  <2>3. ASSUME NEW s \in Source \ repeated', Line(s)  PROVE Line(s)'
    <3>1. Failed(s)' => Failed(s)  BY <1>3, <2>2, <2>3
    <3>2. Undisturbed(s)
      BY <1>1, <1>6, <2>3, <3>1, GiveBackLine DEF RequeueAndStop, Stop
    <3> QED  BY <2>3, <3>2, UndisturbedLine
  <2> QED  BY <1>1, <2>2, <2>3, LineKept
<1> QED  BY <1>4, <1>5, <1>6 DEF ConfirmArchive

LEMMA GiveBackKeeps ==
  ASSUME TypeOK, ShapeInv, LineInv, NEW w \in Worker, GiveBack(w),
         tag' = [tag EXCEPT ![w] = NoTag], Stop(w) \/ UNCHANGED <<pc, msg, out>>,
         UNCHANGED <<files, harmony, accepted>>,
         \A s \in Source \ repeated' : Failed(s)' => Failed(s)
  PROVE  LineInv'
<1>1. repeated \subseteq repeated'  BY DEF GiveBack, Repeat
<1>2. ASSUME NEW s \in Source \ repeated', Line(s)  PROVE Line(s)'
  BY <1>2, GiveBackLine, UndisturbedLine
<1> QED  BY <1>1, <1>2, LineKept

LEMMA RemoveKeeps ==
  ASSUME TypeOK, LineInv, NEW w \in Worker, pc[w] = "ack", Live(w), RemoveCopy(tag[w]),
         tag' = [tag EXCEPT ![w] = NoTag], OthersStay(w), pc'[w] \in {"down", "idle"},
         UNCHANGED <<files, harmony, archive, accepted, repeated>>
  PROVE  LineInv'
<1>1. ASSUME NEW s \in Source \ repeated', Line(s)  PROVE Line(s)'
  BY <1>1, RemoveLine, UndisturbedLine
<1> QED  BY <1>1, LineKept

LEMMA SettleLine ==
  ASSUME TypeOK, ShapeInv, Tracked, LineInv, NEW w \in Worker, Settle(w)
  PROVE  LineInv'
<1>f. UNCHANGED archive => \A s \in Source : Failed(s)' => Failed(s)  BY DEF Failed, Exhausted
<1>1. CASE ConfirmRetry(w)  BY <1>1, ConfirmRetryLine
<1>2. CASE ConfirmArchive(w)  BY <1>2, ConfirmArchiveLine
<1>3. CASE PublishFails(w)
  BY <1>f, <1>3, GiveBackKeeps DEF PublishFails, RequeueAndStop, Stop, store
<1>4. CASE Ack(w)
  <2>1. OthersStay(w) /\ pc'[w] = "idle"
    BY <1>4 DEF Ack, TypeOK, WorkerOK, OthersStay
  <2> QED  BY <1>4, <2>1, RemoveKeeps DEF Ack, store
<1>5. CASE AckFails(w)
  <2>1. OthersStay(w) /\ pc'[w] = "down" /\ tag' = [tag EXCEPT ![w] = NoTag]
    BY <1>5, StopShape DEF AckFails, Stop
  <2>2. CASE Live(w) /\ RemoveCopy(tag[w]) /\ UNCHANGED repeated
    BY <1>5, <2>1, <2>2, RemoveKeeps DEF AckFails, store
  <2>3. CASE GiveBack(w)
    BY <1>f, <1>5, <2>1, <2>3, GiveBackKeeps DEF AckFails, store
  <2>4. CASE ~Live(w) /\ UNCHANGED <<broker, repeated>>
    <3>1. GiveBack(w)  BY <2>4 DEF GiveBack, broker
    <3> QED  BY <1>f, <1>5, <2>1, <3>1, GiveBackKeeps DEF AckFails, store
  <2> QED  BY <1>5, <2>2, <2>3, <2>4 DEF AckFails
<1> QED  BY <1>1, <1>2, <1>3, <1>4, <1>5 DEF Settle

\* A retry whose confirm is lost: the request itself is repeated, a continuation was
\* announced.
LEMMA RetryLostLine ==
  ASSUME TypeOK, ShapeInv, Tracked, NEW w \in Worker, ConfirmLost(w), pc[w] = "publish_retry",
         NEW s \in Source \ repeated', Line(s)
  PROVE  Undisturbed(s)
<1>1. /\ Live(w) /\ Repeat(msg[w]) /\ Stop(w) /\ UNCHANGED <<files, harmony, archive>>
      /\ Free # {} /\ copy' = [copy EXCEPT ![NewCopy] = out[w]]
      /\ queue' = [queue EXCEPT ![NewCopy] = "retry", ![tag[w]] = "main"]
  BY DEF ConfirmLost, store
<1>2. PICK j \in Id : /\ queue[j] = "free" /\ copy' = [copy EXCEPT ![j] = out[w]]
                      /\ queue' = [queue EXCEPT ![j] = "retry", ![tag[w]] = "main"]
  BY <1>1, NewCopyIsFree
<1>3. /\ tag[w] \in Id \ {j} /\ queue[tag[w]] = "unacked" /\ copy[tag[w]] = msg[w]
      /\ pc[w] \in Active
  BY <1>1, <1>2 DEF TypeOK, WorkerOK, HoldOK, Live
<1>4. /\ copy'[j] = out[w] /\ copy'[tag[w]] = msg[w]
      /\ \A i \in Id \ {j} : copy'[i] = copy[i] /\ (queue'[i] # "free" => queue[i] # "free")
      /\ \A i \in Id \ {j, tag[w]} : queue'[i] = queue[i]
  BY <1>2, <1>3 DEF TypeOK, BrokerOK
<1>5. IsSource(msg[w]) => Src(w) \in repeated'  BY <1>1 DEF Repeat, IsSource, Src
<1>6. IsSource(out[w]) => IsSource(msg[w])
  BY DEF ShapeInv, HandlerShape, Publishing
<1>7. out[w].body.src = Src(w)  BY DEF Tracked
<1>8. /\ Ceases /\ tag'[w] = NoTag
      /\ \A v \in Worker \ {w} : pc'[v] = pc[v] /\ tag'[v] = tag[v] /\ out'[v] = out[v]
  BY <1>1 DEF Stop, Ceases, TypeOK, WorkerOK
<1>9. \A i \in Id : queue'[i] # "free" /\ copy'[i].body.src = s =>
        \/ queue[i] # "free" /\ copy'[i].body = copy[i].body
        \/ copy'[i].body.what \in Verdicts => Told(s, copy'[i].body.what)
  BY <1>4 DEF Told, About, Publishing
<1>10. /\ \A what \in Verdicts : Told(s, what)' => Told(s, what)
       /\ \A v \in Worker, x \in Active : At(v, s, x)' => At(v, s, x)
  BY <1>1, <1>8, <1>9, CeasesTold
<1>11. ASSUME NEW i \in Id, Open(s, i)'  PROVE i # tag[w] /\ Open(s, i)
  <2>1. i # tag[w]  BY <1>4, <1>5, <1>11 DEF Open, Pending, IsSource, Src
  <2>2. i # j  BY <1>4, <1>5, <1>6, <1>7, <1>11 DEF Open, Pending, IsSource
  <2>3. Acking(i) => Acking(i)'  BY <1>8, <2>1 DEF Acking
  <2> QED  BY <1>4, <1>11, <2>1, <2>2, <2>3 DEF Open, Pending, IsSource
<1>12. \A i \in Id, v \in Worker : Open(s, i)' /\ tag[v] = i /\ Ended(v)
         => tag'[v] = i /\ Ended(v)'
  BY <1>8, <1>11 DEF Ended, IsSource
<1>13. Failed(s)' => Failed(s)  BY <1>1 DEF Failed, Exhausted
<1> QED  BY <1>1, <1>10, <1>11, <1>12, <1>13 DEF Undisturbed

LEMMA FailLine ==
  ASSUME TypeOK, ShapeInv, Tracked, LineInv, NEW w \in Worker, Fail(w)
  PROVE  LineInv'
<1>1. CASE ConfirmLost(w)
  <2>1. CASE pc[w] = "publish_retry"
    <3>1. ASSUME NEW s \in Source \ repeated', Line(s)  PROVE Line(s)'
      BY <1>1, <2>1, <3>1, RetryLostLine, UndisturbedLine
    <3> QED  BY <1>1, <3>1, LineKept DEF ConfirmLost, Repeat
  <2>2. CASE pc[w] = "publish_archive"
    <3>1. GiveBack(w) /\ archive' = archive \cup {out[w]}
      BY <1>1, <2>2 DEF ConfirmLost, GiveBack
    <3>2. out[w].body.src = Src(w)  BY <2>2 DEF Tracked
    <3>3. out[w].code = "processing-failed" => IsSource(msg[w])
      BY <2>2 DEF ShapeInv, HandlerShape, Publishing
    <3>4. IsSource(msg[w]) => Src(w) \in repeated'
      BY <1>1 DEF ConfirmLost, Repeat, IsSource, Src
    <3>5. \A s \in Source \ repeated' : Failed(s)' => Failed(s)
      BY <3>1, <3>2, <3>3, <3>4 DEF Failed, Exhausted
    <3> QED  BY <1>1, <3>1, <3>5, GiveBackKeeps DEF ConfirmLost, Stop, store
  <2> QED  BY <1>1, <2>1, <2>2 DEF ConfirmLost
<1>2. CASE Disconnect(w)
  <2>1. \A s \in Source : Failed(s)' => Failed(s)
    BY <1>2 DEF Disconnect, Failed, Exhausted
  <2> QED  BY <1>2, <2>1, GiveBackKeeps DEF Disconnect, store
<1>3. CASE Crash(w)
  <2>1. \A s \in Source : Failed(s)' => Failed(s)
    BY <1>3 DEF Crash, Failed, Exhausted
  <2> QED  BY <1>3, <2>1, GiveBackKeeps DEF Crash, RequeueAndStop, Stop, store
<1> QED  BY <1>1, <1>2, <1>3 DEF Fail

\* The broker moves copies, or repeats the message of a continuation.
LEMMA MovesLine ==
  ASSUME UNCHANGED <<pc, tag, msg, out, files, harmony, archive>>, NEW s \in Source,
         \A i \in Id : queue'[i] # "free" /\ copy'[i].body.src = s =>
           \/ queue[i] # "free" /\ copy'[i].body = copy[i].body
           \/ copy'[i].body.what \in Verdicts /\ Told(s, copy'[i].body.what)
  PROVE  Undisturbed(s)
<1>1. Ceases  BY DEF Ceases
<1>2. /\ \A what \in Verdicts : Told(s, what)' => Told(s, what)
      /\ \A v \in Worker, x \in Active : At(v, s, x)' => At(v, s, x)
  BY <1>1, CeasesTold
<1>3. \A i : Acking(i) => Acking(i)'  BY DEF Acking
<1>4. \A i \in Id : Open(s, i)' => Open(s, i)
  BY <1>3 DEF Open, Pending, IsSource, Verdicts
<1>5. Failed(s)' => Failed(s)  BY DEF Failed, Exhausted
<1>6. \A v \in Worker : Ended(v) => Ended(v)'  BY DEF Ended, IsSource
<1> QED  BY <1>2, <1>4, <1>5, <1>6 DEF Undisturbed

\* A request that the broker has not taken has left no trace, and its line begins.
LEMMA AcceptLine ==
  ASSUME TypeOK, ShapeInv, Tracked, LineInv, NEW r \in Source, Accept(r)
  PROVE  LineInv'
<1>1. /\ r \notin accepted /\ accepted' = accepted \cup {r}
      /\ UNCHANGED <<pc, tag, msg, out, files, harmony, archive, repeated>>
  BY DEF Accept, store
<1>2. PICK j \in Id : Puts(j, "main", SourceMessage(r))
  BY NewCopyIsFree DEF Accept, PutCopy, Puts
<1>3. /\ copy'[j].body = [src |-> r, what |-> "source"]
      /\ \A i \in Id \ {j} : copy'[i] = copy[i] /\ queue'[i] = queue[i]
  BY <1>2 DEF Puts, TypeOK, BrokerOK, SourceMessage
<1>4. ASSUME NEW s \in Source \ repeated', Line(s)  PROVE Line(s)'
  <2>1. CASE s # r
    <3>1. Undisturbed(s)  BY <1>1, <1>3, <2>1, MovesLine
    <3> QED  BY <1>4, <3>1, UndisturbedLine
  <2>2. CASE s = r
    <3>1. harmony'[s] = {} /\ ~Failed(s)'
      BY <1>1, <2>2 DEF LineInv, Tracked, Failed, Exhausted
    <3>2. \A v \in Worker : pc'[v] \in Active => Src(v)' # s
      BY <1>1, <2>2 DEF Tracked, Src
    <3>3. \A v \in Worker : pc'[v] \in Publishing => out'[v].body.src # s
      BY <1>1, <2>2 DEF Tracked, Src, Publishing
    <3>4. \A i \in Id \ {j} : queue'[i] # "free" => copy'[i].body.src # s
      BY <1>1, <1>3, <2>2 DEF Tracked
    <3>5. \A what \in Verdicts : ~Told(s, what)'
      BY <1>3, <3>1, <3>2, <3>3, <3>4 DEF Told, About, Verdicts, Src
    <3>6. ~Closed(s)'  BY <3>1, <3>5 DEF Closed
    <3>7. \A i \in Id : Open(s, i)' => i = j  BY <3>4 DEF Open, Pending
    <3>8. \A v \in Worker, x \in Active : ~At(v, s, x)'  BY <3>2 DEF At
    <3> QED  BY <3>5, <3>6, <3>7, <3>8 DEF Line, Unique, After, OneVerdict, Clean, Verdicts
  <2> QED  BY <2>1, <2>2
<1> QED  BY <1>1, <1>4 DEF LineInv

LEMMA DeliverLine ==
  ASSUME TypeOK, LineInv, NEW w \in Worker, NEW i \in Id, Deliver(w, i)
  PROVE  LineInv'
<1> DEFINE m == copy[i]
           e == ArchiveBody(w, m.body, 1, "invalid-retry-state")
<1>1. /\ pc[w] = "idle" /\ queue[i] = "main" /\ queue' = [queue EXCEPT ![i] = "unacked"]
      /\ tag' = [tag EXCEPT ![w] = i] /\ msg' = [msg EXCEPT ![w] = m]
      /\ UNCHANGED <<copy, files, harmony, archive, accepted, repeated>>
  BY DEF Deliver, store
<1>2. e.body = m.body  BY DEF ArchiveBody
<1> HIDE DEF e, m
<1>3. PICK step, o : /\ PublishNext(w, step, o) /\ (step = "publish_archive" => o = e)
                     /\ step \in {"render", "callback", "publish_archive"}
  BY DEF Deliver, ArchiveNext, Goto, m, e
<1>4. pc'[w] = step /\ out'[w] = o /\ msg'[w] = m /\ OthersStay(w)
  BY <1>1, <1>3 DEF PublishNext, TypeOK, WorkerOK, OthersStay
<1>5. \A k \in Id : queue'[k] # "free" => queue[k] # "free"
  BY <1>1 DEF TypeOK, BrokerOK
<1>6. \A k : Acking(k) => Acking(k)'  BY <1>1, <1>4 DEF Acking, OthersStay
<1>7. ASSUME NEW s \in Source \ repeated', Line(s)  PROVE Line(s)'
  <2>1. \A k \in Id : Open(s, k)' => Open(s, k)
    BY <1>1, <1>5, <1>6 DEF Open, Pending, IsSource
  <2>2. \A what : Told(s, what)' => Told(s, what)
    BY <1>1, <1>2, <1>3, <1>4, <1>5 DEF Told, About, OthersStay, Publishing, m
  <2>3. \A v \in Worker : Ended(v) => Ended(v)' /\ tag'[v] = tag[v]
    BY <1>1, <1>4 DEF Ended, IsSource, OthersStay, Publishing
  <2>4. \A v \in Worker, x \in {"notify", "notify_failure"} : At(v, s, x)' => At(v, s, x)
    BY <1>3, <1>4 DEF At, OthersStay, Src
  <2>5. Failed(s)' => Failed(s)  BY <1>1 DEF Failed, Exhausted
  <2>6. Undisturbed(s)  BY <1>1, <2>1, <2>2, <2>3, <2>4, <2>5 DEF Undisturbed
  <2> QED  BY <1>7, <2>6, UndisturbedLine
<1> QED  BY <1>1, <1>7, LineKept

LEMMA BrokerStepLine ==
  ASSUME TypeOK, ShapeInv, Tracked, LineInv
  PROVE  /\ \A w \in Worker : Connect(w) => LineInv'
         /\ \A i \in Id : Expire(i) => LineInv'
         /\ \A i \in Id : ExpireTwice(i) => LineInv'
<1>1. ASSUME NEW w \in Worker, Connect(w)  PROVE LineInv'
  <2>1. /\ pc[w] = "down" /\ pc'[w] = "idle" /\ \A v \in Worker \ {w} : pc'[v] = pc[v]
        /\ UNCHANGED <<queue, copy, tag, msg, out, files, harmony, archive, accepted,
                       repeated>>
    BY <1>1 DEF Connect, TypeOK, WorkerOK, broker, store
  <2>2. ASSUME NEW s \in Source \ repeated', Line(s)  PROVE Line(s)'
    <3>1. \A i : Acking(i) => Acking(i)'  BY <2>1 DEF Acking
    <3>2. \A i \in Id : Open(s, i)' => Open(s, i)
      BY <2>1, <3>1 DEF Open, Pending, IsSource
    <3>3. \A what : Told(s, what)' => Told(s, what)
      BY <2>1 DEF Told, About, Publishing
    <3>4. \A v \in Worker : Ended(v) => Ended(v)'  BY <2>1 DEF Ended, IsSource, Publishing
    <3>5. \A v \in Worker, x \in {"notify", "notify_failure"} : At(v, s, x)' => At(v, s, x)
      BY <2>1 DEF At, Src
    <3>6. Failed(s)' => Failed(s)  BY <2>1 DEF Failed, Exhausted
    <3>7. Undisturbed(s)  BY <2>1, <3>2, <3>3, <3>4, <3>5, <3>6 DEF Undisturbed
    <3> QED  BY <2>2, <3>7, UndisturbedLine
  <2> QED  BY <2>1, <2>2, LineKept
<1>2. ASSUME NEW i \in Id, Expire(i)  PROVE LineInv'
  <2>1. /\ copy[i] \in Message /\ queue[i] = "retry" /\ copy' = [copy EXCEPT ![i].died = TRUE]
        /\ queue' = [queue EXCEPT ![i] = "main"]
        /\ UNCHANGED <<pc, tag, msg, out, files, harmony, archive, accepted, repeated>>
    BY <1>2 DEF Expire, TypeOK, BrokerOK, store
  <2>2. \A k \in Id : queue'[k] # "free" => queue[k] # "free" /\ copy'[k].body = copy[k].body
    BY <2>1, DeadShape DEF TypeOK, BrokerOK
  <2>3. ASSUME NEW s \in Source \ repeated', Line(s)  PROVE Line(s)'
    <3>1. Undisturbed(s)  BY <2>1, <2>2, MovesLine
    <3> QED  BY <2>3, <3>1, UndisturbedLine
  <2> QED  BY <2>1, <2>3, LineKept
<1>3. ASSUME NEW i \in Id, ExpireTwice(i)  PROVE LineInv'
  <2>1. /\ copy[i] \in Message /\ queue[i] = "retry" /\ Repeat(copy[i])
        /\ UNCHANGED <<pc, tag, msg, out, files, harmony, archive, accepted>>
    BY <1>3 DEF ExpireTwice, TypeOK, BrokerOK, store
  <2>2. PICK j \in Id : Puts(j, "main", [copy[i] EXCEPT !.died = TRUE])
    BY <1>3, NewCopyIsFree DEF ExpireTwice, PutCopy, Puts
  <2>3. /\ copy'[j].body = copy[i].body
        /\ \A k \in Id \ {j} : copy'[k] = copy[k] /\ queue'[k] = queue[k]
    BY <2>1, <2>2, DeadShape DEF Puts, TypeOK, BrokerOK
  <2>4. copy[i].body.what \in Verdicts \cup {"source"}
    BY <2>1 DEF Message, Body, Verdicts
  <2>5. ASSUME NEW s \in Source \ repeated', Line(s)  PROVE Line(s)'
    <3>1. copy[i].body.src = s => copy[i].body.what \in Verdicts /\ Told(s, copy[i].body.what)
      BY <2>1, <2>4 DEF Repeat, Told, About
    <3>2. Undisturbed(s)  BY <2>1, <2>3, <3>1, MovesLine
    <3> QED  BY <2>5, <3>2, UndisturbedLine
  <2> QED  BY <2>1, <2>5, LineKept DEF Repeat
<1> QED  BY <1>1, <1>2, <1>3

LEMMA NextLine == TypeOK /\ ShapeInv /\ Tracked /\ LineInv /\ [Next]_vars => LineInv'
<1> SUFFICES ASSUME TypeOK, ShapeInv, Tracked, LineInv, [Next]_vars PROVE LineInv'  OBVIOUS
<1>1. CASE Next
  BY <1>1, AcceptLine, HandleLine, SettleLine, FailLine, DeliverLine, BrokerStepLine DEF Next
<1>2. CASE UNCHANGED vars
  <2>1. ASSUME NEW s \in Source \ repeated', Line(s)  PROVE Line(s)'
    <3>1. Undisturbed(s)  BY <1>2, MovesLine DEF vars
    <3> QED  BY <2>1, <3>1, UndisturbedLine
  <2> QED  BY <1>2, <2>1, LineKept DEF vars
<1> QED  BY <1>1, <1>2

LEMMA InitLine == Init => ShapeInv /\ LineInv
<1> SUFFICES ASSUME Init PROVE ShapeInv /\ LineInv  OBVIOUS
<1>1. ShapeInv  BY DEF Init, ShapeInv, CopyShape, HandlerShape, Early, Publishing
<1>2. \A s \in Source, what \in Verdicts : ~Told(s, what)  BY DEF Init, Told, Publishing
<1>3. \A s \in Source : Line(s)
  BY <1>2 DEF Init, Line, Unique, Open, Pending, After, Closed, Failed, OneVerdict, Clean,
         At, Verdicts
<1> QED  BY <1>1, <1>3 DEF Init, LineInv

LineAll == TypeOK /\ Tracked /\ NothingSilent /\ ShapeInv /\ LineInv

LEMMA LineAlways == Spec => []LineAll
<1>1. Init => LineAll
  BY InitTypeOK, InitLine DEF LineAll, Init, Tracked, NothingSilent
<1>2. LineAll /\ [Next]_vars => LineAll'
  BY NextTypeOK, NextSafe, NextShape, NextLine DEF LineAll
<1> QED  BY <1>1, <1>2, PTL DEF Spec

\* A request that was never put back unsettled gets one verdict from Harmony's point of
\* view: while one copy of it is handled at a time, it ends in a success or in a failure,
\* and only what it ended in is told, then or by its continuations.
THEOREM VerdictsAgree == Spec => []CallbacksAgree
<1>1. ASSUME LineInv, NEW s \in Source \ repeated  PROVE harmony[s] # {"done", "failed"}
  BY <1>1 DEF LineInv, Line, OneVerdict, Told, ReportedStatus
<1>2. LineAll => CallbacksAgree  BY <1>1 DEF LineAll, CallbacksAgree
<1> QED  BY <1>2, LineAlways, PTL

\* In s3 mode the staging copy of such a request is removed before its success is told,
\* and no other run of it can write the copy again.
THEOREM StagingIsRemoved == Spec => []StagingRemoved
<1>1. ASSUME LineInv, NEW s \in Source \ repeated, "done" \in harmony[s], StorageMode = "s3"
      PROVE  s \notin files
  BY <1>1 DEF LineInv, Line, Clean, Told, ReportedStatus
<1>2. LineAll => StagingRemoved  BY <1>1 DEF LineAll, StagingRemoved
<1> QED  BY <1>2, LineAlways, PTL
=============================================================================
