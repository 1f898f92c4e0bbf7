------------------------ MODULE DocumentWorkerProofs ------------------------
(***************************************************************************)
(* Proofs about DocumentWorker, for any number of requests, workers and    *)
(* copies and any values of max_retries, the retry queue's bound and the   *)
(* number of faults.                                                       *)
(***************************************************************************)
EXTENDS DocumentWorker, FiniteSetTheorems, TLAPS

USE DEF Active

-----------------------------------------------------------------------------
(* Types of what the helpers build.                                        *)

\* The attempt that _attempt reads off a message is a natural number, its mode a mode.
LEMMA AttemptType ==
  ASSUME NEW w \in Worker, NEW m \in Message
  PROVE  Attempt(w, m) \in Nat /\ CallbackMode(w, m) \in Mode
BY DEF Attempt, CallbackMode, Message, Mode

\* What _publish_retry publishes is a message.
LEMMA RetryMessageType ==
  ASSUME NEW b \in Body, NEW k \in Nat, NEW mode \in Mode
  PROVE  RetryMessage(b, k, mode) \in Message
BY DEF RetryMessage, RetrySignature, Message, Signature

\* What _archive_body builds is an envelope.
LEMMA ArchiveBodyType ==
  ASSUME NEW w \in Worker, NEW b \in Body, NEW k \in Nat, NEW code \in ArchiveFailureCode
  PROVE  ArchiveBody(w, b, k, code) \in Envelope
BY RetryAssumption DEF ArchiveBody, Envelope

\* What the producer sends is a message.
LEMMA SourceMessageType ==
  ASSUME NEW s \in Source
  PROVE  SourceMessage(s) \in Message
BY DEF SourceMessage, Message, Body, Mode

\* A new copy takes a place of the broker that was free.
LEMMA NewCopyIsFree ==
  ASSUME Free # {}
  PROVE  NewCopy \in Id /\ queue[NewCopy] = "free"
BY DEF Free, NewCopy

-----------------------------------------------------------------------------
(* Steps that several actions share, and the types they keep.              *)

\* A handler goes from one of its steps to another and leaves its delivery alone.
LEMMA HandlerStepType ==
  ASSUME BrokerOK, WorkerOK, HoldOK, NEW w \in Worker, pc[w] \in Active,
         NEW step \in Active, NEW o \in Message \cup Envelope \cup {NoOut},
         step = "publish_retry" => o \in Message,
         step = "publish_archive" => o \in Envelope,
         PublishNext(w, step, o), UNCHANGED <<queue, copy, tag, msg>>
  PROVE  BrokerOK' /\ WorkerOK' /\ HoldOK'
<1>1. BrokerOK'
  BY DEF BrokerOK
<1>2. WorkerOK'
  BY DEF WorkerOK, PublishNext
<1>3. HoldOK'
  BY DEF HoldOK, WorkerOK, PublishNext, Live
<1> QED BY <1>1, <1>2, <1>3

\* A failed callback is settled by a typed retry message or envelope.
LEMMA CallbackFailureType ==
  ASSUME BrokerOK, WorkerOK, HoldOK, NEW w \in Worker, pc[w] \in Active,
         NEW b \in Body, NEW mode \in Mode, NEW k \in Nat,
         SettleCallbackFailure(w, b, mode, k), UNCHANGED <<queue, copy, tag, msg>>
  PROVE  BrokerOK' /\ WorkerOK' /\ HoldOK'
<1>1. RetryMessage(b, k + 1, mode) \in Message
  BY RetryMessageType
<1>2. ArchiveBody(w, b, k + 1, "callback-failed") \in Envelope
  BY ArchiveBodyType DEF ArchiveFailureCode
<1>3. CASE MayRetry(w, k)
  BY <1>1, <1>3, HandlerStepType DEF SettleCallbackFailure, RetryNext
<1>4. CASE ~MayRetry(w, k)
  BY <1>2, <1>4, HandlerStepType DEF SettleCallbackFailure, ArchiveNext
<1> QED BY <1>3, <1>4

\* So is a failed processing.
LEMMA ProcessingFailureType ==
  ASSUME BrokerOK, WorkerOK, HoldOK, NEW w \in Worker, pc[w] \in Active,
         SettleProcessingFailure(w), UNCHANGED <<queue, copy, tag, msg>>
  PROVE  BrokerOK' /\ WorkerOK' /\ HoldOK'
<1> DEFINE k == Attempt(w, msg[w])
<1>1. msg[w] \in Message /\ msg[w].body \in Body /\ k \in Nat
  BY AttemptType DEF WorkerOK, Message
<1>2. RetryMessage(msg[w].body, k + 1, "none") \in Message
  BY <1>1, RetryMessageType DEF Mode
<1>3. ArchiveBody(w, msg[w].body, k + 1, "processing-failed") \in Envelope
  BY <1>1, ArchiveBodyType DEF ArchiveFailureCode
<1>4. CASE MayRetry(w, k)
  <2>1. PublishNext(w, "publish_retry", RetryMessage(msg[w].body, k + 1, "none"))
    BY <1>4 DEF SettleProcessingFailure, RetryNext
  <2> QED BY <1>2, <2>1, HandlerStepType
<1>5. CASE ~MayRetry(w, k)
  <2>1. PublishNext(w, "publish_archive",
                    ArchiveBody(w, msg[w].body, k + 1, "processing-failed"))
    BY <1>5 DEF SettleProcessingFailure, ArchiveNext
  <2> QED BY <1>3, <2>1, HandlerStepType
<1> QED BY <1>4, <1>5

\* Giving a delivery back makes it a message of the main queue.
LEMMA GiveBackType ==
  ASSUME BrokerOK, WorkerOK, HoldOK, NEW w \in Worker, GiveBack(w),
         tag' = [tag EXCEPT ![w] = NoTag], repeated \subseteq Source
  PROVE  /\ BrokerOK' /\ repeated' \subseteq Source
         /\ \A i \in Id : queue'[i] = "unacked" <=> queue[i] = "unacked" /\ tag[w] # i
<1>1. CASE Live(w)
  <2>1. tag[w] \in Id /\ msg[w] \in Message /\ copy[tag[w]] = msg[w] /\ queue[tag[w]] = "unacked"
    BY <1>1 DEF HoldOK, WorkerOK, Live
  <2>2. queue' = [queue EXCEPT ![tag[w]] = "main"] /\ copy' = copy /\ Repeat(msg[w])
    BY <1>1 DEF GiveBack
  <2>3. BrokerOK'
    BY <2>1, <2>2 DEF BrokerOK
  <2>4. repeated' \subseteq Source
    BY <2>1, <2>2 DEF Repeat, Message, Body
  <2> QED BY <2>1, <2>2, <2>3, <2>4 DEF BrokerOK
<1>2. CASE ~Live(w)
  BY <1>2, NoTagAssumption DEF GiveBack, BrokerOK, Live
<1> QED BY <1>1, <1>2

\* A worker whose connection ends holds nothing.
LEMMA RequeueAndStopType ==
  ASSUME BrokerOK, WorkerOK, HoldOK, NEW w \in Worker, RequeueAndStop(w),
         repeated \subseteq Source
  PROVE  BrokerOK' /\ WorkerOK' /\ HoldOK' /\ repeated' \subseteq Source
<1> USE DEF RequeueAndStop
<1>1. GiveBack(w) /\ Stop(w) /\ tag' = [tag EXCEPT ![w] = NoTag]
  BY DEF Stop
<1>2. BrokerOK' /\ repeated' \subseteq Source
      /\ \A i \in Id : queue'[i] = "unacked" <=> queue[i] = "unacked" /\ tag[w] # i
  BY <1>1, GiveBackType
<1>3. WorkerOK'
  BY <1>1 DEF WorkerOK, Stop
<1>4. copy' = copy
  BY DEF GiveBack
<1>5. HoldOK'
  BY <1>1, <1>2, <1>4, NoTagAssumption DEF HoldOK, WorkerOK, Live, Stop
<1> QED BY <1>2, <1>3, <1>5
-----------------------------------------------------------------------------
(* Type correctness.                                                       *)

\* The initial state has its type.
LEMMA InitTypeOK == Init => TypeOK
BY NoTagAssumption DEF Init, TypeOK, BrokerOK, WorkerOK, HoldOK, EffectOK, Live

\* Every step of a handler keeps the types.
LEMMA HandleTypeOK ==
  ASSUME TypeOK, NEW w \in Worker, Handle(w)
  PROVE  TypeOK'
<1> USE DEF TypeOK
<1> DEFINE kept == UNCHANGED <<queue, copy, tag, msg>>
<1>0. /\ BrokerOK /\ WorkerOK /\ HoldOK
      /\ pc[w] \in Active => msg[w] \in Message /\ msg[w].body \in Body /\ Src(w) \in Source
  BY DEF WorkerOK, Message, Body, Src
<1>1. CASE RejectRequest(w)
  <2>1. KindOf[Src(w)] \in ArchiveFailureCode /\ pc[w] \in Active /\ kept
    BY <1>1 DEF RejectRequest, ArchiveFailureCode, broker
  <2>2. ArchiveBody(w, msg[w].body, 1, KindOf[Src(w)]) \in Envelope
    BY <1>0, <2>1, ArchiveBodyType
  <2>3. BrokerOK' /\ WorkerOK' /\ HoldOK'
    BY <1>0, <1>1, <2>1, <2>2, HandlerStepType DEF RejectRequest, ArchiveNext
  <2> QED BY <1>1, <2>3 DEF RejectRequest, EffectOK, store
<1>2. CASE RequestUncaught(w)
  <2>1. BrokerOK' /\ WorkerOK' /\ HoldOK'
    BY <1>0, <1>2, ProcessingFailureType DEF RequestUncaught, broker
  <2> QED BY <1>2, <2>1 DEF RequestUncaught, EffectOK, store
<1>3. CASE Render(w)
  <2>1. BrokerOK' /\ WorkerOK' /\ HoldOK'
    BY <1>0, <1>3, HandlerStepType DEF Render, Goto, broker
  <2> QED BY <1>0, <1>3, <2>1 DEF Render, EffectOK
<1>4. CASE RenderFails(w)
  <2>1. BrokerOK' /\ WorkerOK' /\ HoldOK'
    BY <1>0, <1>4, ProcessingFailureType DEF RenderFails, broker
  <2> QED BY <1>0, <1>4, <2>1 DEF RenderFails, EffectOK
<1>5. CASE PublishDocument(w)
  <2>1. BrokerOK' /\ WorkerOK' /\ HoldOK'
    BY <1>0, <1>5, HandlerStepType DEF PublishDocument, AfterPublish, Goto, broker
  <2> QED BY <1>0, <1>5, <2>1 DEF PublishDocument, EffectOK
<1>6. CASE PublishDocumentFails(w)
  <2>1. BrokerOK' /\ WorkerOK' /\ HoldOK'
    BY <1>0, <1>6, ProcessingFailureType DEF PublishDocumentFails, broker
  <2> QED BY <1>0, <1>6, <2>1 DEF PublishDocumentFails, EffectOK
<1>7. CASE Unlink(w)
  <2>1. BrokerOK' /\ WorkerOK' /\ HoldOK'
    BY <1>0, <1>7, HandlerStepType DEF Unlink, Goto, broker
  <2> QED BY <1>7, <2>1 DEF Unlink, EffectOK
<1>8. CASE UnlinkFails(w)
  <2>1. BrokerOK' /\ WorkerOK' /\ HoldOK'
    BY <1>0, <1>8, ProcessingFailureType DEF UnlinkFails, broker
  <2> QED BY <1>8, <2>1 DEF UnlinkFails, EffectOK, store
<1>9. CASE NotifySuccess(w)
  <2>1. pc[w] \in Active /\ kept
    BY <1>9 DEF NotifySuccess, broker
  <2>2. [src |-> Src(w), what |-> "success"] \in Body /\ "success" \in Mode
    BY <1>0, <2>1 DEF Body, Mode
  <2>3. Goto(w, "ack") => BrokerOK' /\ WorkerOK' /\ HoldOK'
    BY <1>0, <2>1, HandlerStepType DEF Goto
  <2>4. SettleProcessingFailure(w) => BrokerOK' /\ WorkerOK' /\ HoldOK'
    BY <1>0, <2>1, ProcessingFailureType
  <2>5. SettleCallbackFailure(w, [src |-> Src(w), what |-> "success"], "success", 0)
        => BrokerOK' /\ WorkerOK' /\ HoldOK'
    BY <1>0, <2>1, <2>2, CallbackFailureType
  <2>6. BrokerOK' /\ WorkerOK' /\ HoldOK'
    BY <1>9, <2>3, <2>4, <2>5 DEF NotifySuccess
  <2>7. EffectOK'
    <3>1. /\ Src(w) \in Source /\ msg[w].body.src \in Source
          /\ UNCHANGED <<store, archive, accepted, tries, faults>>
      BY <1>0, <1>9, <2>1 DEF NotifySuccess, Src
    <3>2. UNCHANGED harmony \/ Report(w, "success")
      BY <1>9 DEF NotifySuccess, MayReport
    <3>3. harmony' \in [Source -> SUBSET {"done", "failed"}]
      BY <3>1, <3>2 DEF EffectOK, Report, ReportedStatus
    <3>4. repeated' \subseteq Source
      BY <1>9, <3>1 DEF NotifySuccess, Repeat, EffectOK
    <3> QED BY <3>1, <3>3, <3>4 DEF EffectOK, store
  <2> QED BY <2>6, <2>7
<1>10. CASE DeliverCallback(w)
  <2> DEFINE mode == CallbackMode(w, msg[w])
             k == Attempt(w, msg[w])
  <2>1. pc[w] \in Active /\ kept
    BY <1>10 DEF DeliverCallback, broker
  <2>2. msg[w].body \in Body /\ mode \in Mode /\ k \in Nat
    BY <1>0, <2>1, AttemptType
  <2>3. Goto(w, "ack") => BrokerOK' /\ WorkerOK' /\ HoldOK'
    BY <1>0, <2>1, HandlerStepType DEF Goto
  <2>4. SettleCallbackFailure(w, msg[w].body, mode, k) => BrokerOK' /\ WorkerOK' /\ HoldOK'
    BY <1>0, <2>1, <2>2, CallbackFailureType
  <2>5. BrokerOK' /\ WorkerOK' /\ HoldOK'
    BY <1>10, <2>3, <2>4 DEF DeliverCallback
  <2>6. EffectOK'
    BY <1>0, <1>10, <2>1 DEF DeliverCallback, EffectOK, Report, ReportedStatus, store
  <2> QED BY <2>5, <2>6
<1>11. CASE NotifyFailure(w)
  <2> DEFINE b == [src |-> Src(w), what |-> "failure"]
  <2>1. pc[w] \in Active /\ repeated \subseteq Source
    BY <1>11 DEF NotifyFailure, EffectOK
  <2>2. b \in Body /\ RetryMessage(b, 1, "failure") \in Message
        /\ ArchiveBody(w, b, 1, "callback-failed") \in Envelope
    BY <1>0, <2>1, RetryMessageType, ArchiveBodyType DEF Body, Mode, ArchiveFailureCode
  <2>3. Goto(w, "ack") /\ kept => BrokerOK' /\ WorkerOK' /\ HoldOK'
    BY <1>0, <2>1, HandlerStepType DEF Goto
  <2>4. RetryNext(w, b, 1, "failure") /\ kept => BrokerOK' /\ WorkerOK' /\ HoldOK'
    BY <1>0, <2>1, <2>2, HandlerStepType DEF RetryNext
  <2>5. ArchiveNext(w, b, 1, "callback-failed") /\ kept => BrokerOK' /\ WorkerOK' /\ HoldOK'
    BY <1>0, <2>1, <2>2, HandlerStepType DEF ArchiveNext
  <2>6. BrokerOK' /\ WorkerOK' /\ HoldOK' /\ repeated' \subseteq Source
    BY <1>0, <1>11, <2>1, <2>3, <2>4, <2>5, RequeueAndStopType DEF NotifyFailure, broker
  <2>7. EffectOK'
    BY <1>0, <1>11, <2>1, <2>6 DEF NotifyFailure, EffectOK, MayReport, Report, ReportedStatus, store
  <2> QED BY <2>6, <2>7
<1> QED BY <1>1, <1>2, <1>3, <1>4, <1>5, <1>6, <1>7, <1>8, <1>9, <1>10, <1>11 DEF Handle

\* Publishing and acknowledging keep the types.
LEMMA SettleTypeOK ==
  ASSUME TypeOK, NEW w \in Worker, Settle(w)
  PROVE  TypeOK'
<1> USE DEF TypeOK
<1>0. BrokerOK /\ WorkerOK /\ HoldOK /\ repeated \subseteq Source
  BY DEF EffectOK
<1>1. CASE ConfirmRetry(w)
  <2>1. NewCopy \in Id /\ queue[NewCopy] = "free" /\ out[w] \in Message
    BY <1>1, NewCopyIsFree DEF ConfirmRetry, PutCopy, WorkerOK
  <2>2. BrokerOK'
    BY <1>1, <2>1 DEF ConfirmRetry, PutCopy, BrokerOK
  <2>3. WorkerOK'
    BY <1>1, <2>1 DEF ConfirmRetry, WorkerOK, Goto, PublishNext
  <2>4. HoldOK'
    BY <1>1, <2>1 DEF ConfirmRetry, PutCopy, HoldOK, WorkerOK, BrokerOK, Live, Goto, PublishNext
  <2> QED BY <1>1, <2>2, <2>3, <2>4 DEF ConfirmRetry, EffectOK, store
<1>2. CASE ConfirmArchive(w)
  <2>1. out[w] \in Envelope /\ pc[w] \in Active
    BY <1>2 DEF ConfirmArchive, WorkerOK
  <2>2. Goto(w, "ack") /\ UNCHANGED <<broker, tag, msg, repeated>>
        => BrokerOK' /\ WorkerOK' /\ HoldOK' /\ repeated' \subseteq Source
    BY <1>0, <2>1, HandlerStepType DEF Goto, broker
  <2>3. Goto(w, "notify_failure") /\ UNCHANGED <<broker, tag, msg, repeated>>
        => BrokerOK' /\ WorkerOK' /\ HoldOK' /\ repeated' \subseteq Source
    BY <1>0, <2>1, HandlerStepType DEF Goto, broker
  <2>4. BrokerOK' /\ WorkerOK' /\ HoldOK' /\ repeated' \subseteq Source
    BY <1>0, <1>2, <2>2, <2>3, RequeueAndStopType DEF ConfirmArchive
  <2> QED BY <1>2, <2>1, <2>4 DEF ConfirmArchive, EffectOK, store
<1>3. CASE PublishFails(w)
  BY <1>0, <1>3, RequeueAndStopType DEF PublishFails, EffectOK, store
<1>4. CASE Ack(w)
  <2>1. tag[w] \in Id /\ queue[tag[w]] = "unacked"
    BY <1>4 DEF Ack, Live, HoldOK, WorkerOK
  <2>2. BrokerOK'
    BY <1>4, <2>1 DEF Ack, RemoveCopy, BrokerOK
  <2>3. WorkerOK'
    BY <1>4 DEF Ack, WorkerOK
  <2>4. HoldOK'
    BY <1>4, <2>1, NoTagAssumption DEF Ack, RemoveCopy, HoldOK, WorkerOK, BrokerOK, Live
  <2> QED BY <1>4, <2>2, <2>3, <2>4 DEF Ack, EffectOK, store
<1>5. CASE AckFails(w)
  <2>1. CASE RemoveCopy(tag[w]) /\ Live(w) /\ repeated' = repeated
    <3>1. tag[w] \in Id /\ queue[tag[w]] = "unacked"
      BY <2>1 DEF Live, HoldOK, WorkerOK
    <3>2. BrokerOK'
      BY <2>1, <3>1 DEF RemoveCopy, BrokerOK
    <3>3. WorkerOK'
      BY <1>5 DEF AckFails, Stop, WorkerOK
    <3>4. HoldOK'
      BY <1>5, <2>1, <3>1, NoTagAssumption
      DEF AckFails, Stop, RemoveCopy, HoldOK, WorkerOK, BrokerOK, Live
    <3> QED BY <1>5, <2>1, <3>2, <3>3, <3>4 DEF AckFails, EffectOK, store
  <2>2. CASE GiveBack(w)
    BY <1>0, <1>5, <2>2, RequeueAndStopType DEF AckFails, RequeueAndStop, EffectOK, store
  <2>3. ~Live(w) /\ UNCHANGED <<broker, repeated>> => GiveBack(w)
    BY DEF GiveBack, broker
  <2> QED BY <1>5, <2>1, <2>2, <2>3 DEF AckFails
<1> QED BY <1>1, <1>2, <1>3, <1>4, <1>5 DEF Settle

\* Failures keep the types.
LEMMA FailTypeOK ==
  ASSUME TypeOK, NEW w \in Worker, Fail(w)
  PROVE  TypeOK'
<1> USE DEF TypeOK
<1>0. BrokerOK /\ WorkerOK /\ HoldOK /\ repeated \subseteq Source
  BY DEF EffectOK
<1>1. CASE ConfirmLost(w)
  <2>1. tag[w] \in Id /\ queue[tag[w]] = "unacked" /\ copy[tag[w]] \in Message
        /\ msg[w] \in Message
    BY <1>1 DEF ConfirmLost, Live, HoldOK, WorkerOK, BrokerOK
  <2>2. CASE pc[w] = "publish_retry"
    <3>1. NewCopy \in Id /\ queue[NewCopy] = "free" /\ out[w] \in Message
      BY <1>1, <2>2, NewCopyIsFree DEF ConfirmLost, WorkerOK
    <3>2. /\ queue' = [queue EXCEPT ![NewCopy] = "retry", ![tag[w]] = "main"]
          /\ copy' = [copy EXCEPT ![NewCopy] = out[w]]
          /\ archive' = archive
      BY <1>1, <2>2 DEF ConfirmLost
    <3>3. BrokerOK'
      BY <2>1, <3>1, <3>2 DEF BrokerOK
    <3>4. WorkerOK'
      BY <1>1 DEF ConfirmLost, Stop, WorkerOK
    <3>5. HoldOK'
      BY <1>1, <2>1, <3>1, <3>2, NoTagAssumption
      DEF ConfirmLost, Stop, HoldOK, WorkerOK, BrokerOK, Live
    <3> QED BY <1>1, <2>1, <3>2, <3>3, <3>4, <3>5
            DEF ConfirmLost, EffectOK, Repeat, Message, Body, store
  <2>3. CASE pc[w] = "publish_archive"
    <3>1. /\ queue' = [queue EXCEPT ![tag[w]] = "main"]
          /\ copy' = copy /\ archive' = archive \cup {out[w]}
      BY <1>1, <2>3 DEF ConfirmLost
    <3>2. RequeueAndStop(w)
      BY <1>1, <3>1 DEF ConfirmLost, RequeueAndStop, GiveBack
    <3>3. out[w] \in Envelope
      BY <2>3 DEF WorkerOK
    <3> QED BY <1>0, <1>1, <3>1, <3>2, <3>3, RequeueAndStopType DEF ConfirmLost, EffectOK, store
  <2> QED BY <1>1, <2>2, <2>3 DEF ConfirmLost
<1>2. CASE Disconnect(w)
  <2>1. BrokerOK' /\ repeated' \subseteq Source
        /\ \A i \in Id : queue'[i] = "unacked" <=> queue[i] = "unacked" /\ tag[w] # i
    BY <1>0, <1>2, GiveBackType DEF Disconnect
  <2>2. WorkerOK'
    BY <1>2 DEF Disconnect, WorkerOK
  <2>3. HoldOK'
    BY <1>2, <2>1, NoTagAssumption DEF Disconnect, GiveBack, HoldOK, WorkerOK, Live
  <2> QED BY <1>2, <2>1, <2>2, <2>3 DEF Disconnect, EffectOK, store
<1>3. CASE Crash(w)
  BY <1>0, <1>3, RequeueAndStopType DEF Crash, EffectOK, store
<1> QED BY <1>1, <1>2, <1>3 DEF Fail

\* The broker's own steps and the start of a connection or a delivery keep the types.
LEMMA BrokerStepTypeOK ==
  ASSUME TypeOK
  PROVE  /\ \A s \in Source : Accept(s) => TypeOK'
         /\ \A w \in Worker : Connect(w) => TypeOK'
         /\ \A w \in Worker, i \in Id : Deliver(w, i) => TypeOK'
         /\ \A i \in Id : Expire(i) => TypeOK'
         /\ \A i \in Id : ExpireTwice(i) => TypeOK'
<1> USE DEF TypeOK
<1>1. ASSUME NEW s \in Source, Accept(s)
      PROVE  TypeOK'
  <2>1. NewCopy \in Id /\ queue[NewCopy] = "free" /\ SourceMessage(s) \in Message
    BY <1>1, NewCopyIsFree, SourceMessageType DEF Accept, PutCopy
  <2>2. BrokerOK'
    BY <1>1, <2>1 DEF Accept, PutCopy, BrokerOK
  <2>3. WorkerOK'
    BY <1>1 DEF Accept, WorkerOK
  <2>4. HoldOK'
    BY <1>1, <2>1 DEF Accept, PutCopy, HoldOK, WorkerOK, BrokerOK, Live
  <2> QED BY <1>1, <2>2, <2>3, <2>4 DEF Accept, EffectOK, store
<1>2. ASSUME NEW w \in Worker, Connect(w)
      PROVE  TypeOK'
  BY <1>2 DEF Connect, BrokerOK, WorkerOK, HoldOK, EffectOK, Live, broker, store
<1>3. ASSUME NEW w \in Worker, NEW i \in Id, Deliver(w, i)
      PROVE  TypeOK'
  <2> DEFINE m == copy[i]
  <2>1. m \in Message /\ m.body \in Body /\ m.body.src \in Source /\ queue[i] = "main"
        /\ pc[w] = "idle" /\ copy' = copy
    BY <1>3 DEF Deliver, BrokerOK, Message, Body
  <2>2. ArchiveBody(w, m.body, 1, "invalid-retry-state") \in Envelope
    BY <2>1, ArchiveBodyType DEF ArchiveFailureCode
  <2>3. PICK step \in Active, o \in Envelope \cup {NoOut} :
          /\ PublishNext(w, step, o)
          /\ step # "publish_retry"
          /\ step = "publish_archive" => o \in Envelope
    BY <1>3, <2>2 DEF Deliver, ArchiveNext, Goto
  <2>4. BrokerOK'
    BY <1>3, <2>1 DEF Deliver, BrokerOK
  <2>5. WorkerOK'
    BY <1>3, <2>1, <2>3 DEF Deliver, PublishNext, WorkerOK
  <2>6. HoldOK'
    <3>1. /\ queue' = [queue EXCEPT ![i] = "unacked"] /\ tag' = [tag EXCEPT ![w] = i]
          /\ msg' = [msg EXCEPT ![w] = copy[i]] /\ pc' = [pc EXCEPT ![w] = step]
      BY <1>3, <2>3 DEF Deliver, PublishNext
    <3>2. ~Live(w) /\ \A v \in Worker : tag[v] # i
      BY <2>1, NoTagAssumption DEF HoldOK, Live
    <3> QED BY <2>1, <3>1, <3>2, NoTagAssumption DEF HoldOK, WorkerOK, BrokerOK, Live
  <2>7. tries' \in [Source -> Nat]
    BY <1>3, <2>1 DEF Deliver, EffectOK
  <2> QED BY <1>3, <2>4, <2>5, <2>6, <2>7 DEF Deliver, EffectOK, store
<1>4. ASSUME NEW i \in Id, Expire(i)
      PROVE  TypeOK'
  <2>1. [copy[i] EXCEPT !.died = TRUE] \in Message
    BY <1>4 DEF Expire, BrokerOK, Message
  <2>2. BrokerOK'
    BY <1>4, <2>1 DEF Expire, BrokerOK
  <2>3. HoldOK'
    BY <1>4 DEF Expire, HoldOK, WorkerOK, BrokerOK, Live
  <2> QED BY <1>4, <2>2, <2>3 DEF Expire, WorkerOK, EffectOK, store
<1>5. ASSUME NEW i \in Id, ExpireTwice(i)
      PROVE  TypeOK'
  <2>1. NewCopy \in Id /\ queue[NewCopy] = "free" /\ copy[i] \in Message
        /\ [copy[i] EXCEPT !.died = TRUE] \in Message
    BY <1>5, NewCopyIsFree DEF ExpireTwice, PutCopy, BrokerOK, Message
  <2>2. BrokerOK'
    BY <1>5, <2>1 DEF ExpireTwice, PutCopy, BrokerOK
  <2>3. HoldOK'
    BY <1>5, <2>1 DEF ExpireTwice, PutCopy, HoldOK, WorkerOK, BrokerOK, Live
  <2>4. repeated' \subseteq Source
    BY <1>5, <2>1 DEF ExpireTwice, Repeat, Message, Body, EffectOK
  <2> QED BY <1>5, <2>2, <2>3, <2>4 DEF ExpireTwice, WorkerOK, EffectOK, store
<1> QED BY <1>1, <1>2, <1>3, <1>4, <1>5

\* Every step keeps the types.
LEMMA NextTypeOK == TypeOK /\ [Next]_vars => TypeOK'
<1> SUFFICES ASSUME TypeOK, [Next]_vars
             PROVE  TypeOK'
  OBVIOUS
<1>1. CASE Next
  BY <1>1, HandleTypeOK, SettleTypeOK, FailTypeOK, BrokerStepTypeOK DEF Next
<1>2. CASE UNCHANGED vars
  BY <1>2 DEF vars, TypeOK, BrokerOK, WorkerOK, HoldOK, EffectOK, Live
<1> QED BY <1>1, <1>2

\* The broker and the workers agree on every delivery at all times: a worker whose
\* channel is live holds one unacknowledged copy, no two hold the same, and a handler
\* that works on a lost delivery can neither acknowledge nor publish.
THEOREM TypeCorrect == Spec => []TypeOK
BY InitTypeOK, NextTypeOK, PTL DEF Spec

-----------------------------------------------------------------------------
(* Nothing is lost silently.                                               *)

\* Whatever exists belongs to a request the broker has taken, and what a worker is
\* about to publish belongs to the request it works on.
Tracked ==
  /\ \A i \in Id : queue[i] # "free" => copy[i].body.src \in accepted
  /\ \A w \in Worker : pc[w] \in Active => Src(w) \in accepted
  /\ \A w \in Worker : pc[w] \in {"publish_retry", "publish_archive"}
                       => out[w].body.src = Src(w)
  /\ \A e \in archive : e.body.src \in accepted

\* A worker's handler goes on with the request it holds.
Onward(w) == \E step \in Active, o \in Message \cup Envelope \cup {NoOut} :
  /\ PublishNext(w, step, o)
  /\ step \in {"publish_retry", "publish_archive"} => o.body.src = Src(w)
  /\ step = "ack" => harmony'[Src(w)] # {}
  /\ UNCHANGED <<queue, copy, tag, msg>>

Reported(w) == \/ UNCHANGED harmony
               \/ \E st \in {"done", "failed"} :
                    harmony' = [harmony EXCEPT ![Src(w)] = @ \cup {st}]

\* What any step of a handler does to the rest of the system: it moves on, or gives
\* its delivery back, and it acknowledges only what Harmony was told.
LEMMA HandleEffect ==
  ASSUME TypeOK, NEW w \in Worker, Handle(w)
  PROVE  /\ pc[w] \in Active /\ UNCHANGED <<archive, accepted>>
         /\ Reported(w)
         /\ Onward(w) \/ RequeueAndStop(w)
<1> USE DEF TypeOK
<1>0. /\ BrokerOK /\ WorkerOK /\ HoldOK /\ EffectOK
      /\ pc[w] \in Active => msg[w] \in Message /\ msg[w].body \in Body /\ Src(w) \in Source
  BY DEF WorkerOK, Message, Body, Src
<1> DEFINE kept == UNCHANGED <<queue, copy, tag, msg>>
<1>a. ASSUME pc[w] \in Active, kept, SettleProcessingFailure(w)
      PROVE  Onward(w)
  <2> DEFINE k == Attempt(w, msg[w])
             r == RetryMessage(msg[w].body, k + 1, "none")
             e == ArchiveBody(w, msg[w].body, k + 1, "processing-failed")
  <2>1. k \in Nat
    BY <1>0, <1>a, AttemptType
  <2>2. r \in Message /\ r.body.src = Src(w)
    <3>1. r \in Message
      BY <1>0, <1>a, <2>1, RetryMessageType DEF Mode
    <3>2. r.body = msg[w].body
      BY DEF RetryMessage
    <3> QED BY <3>1, <3>2 DEF Src
  <2>3. e \in Envelope /\ e.body.src = Src(w)
    BY <1>0, <1>a, <2>1, ArchiveBodyType DEF ArchiveFailureCode, ArchiveBody, Src
  <2>4. PublishNext(w, "publish_retry", r) \/ PublishNext(w, "publish_archive", e)
    BY <1>a DEF SettleProcessingFailure, RetryNext, ArchiveNext
  <2> QED BY <1>a, <2>2, <2>3, <2>4 DEF Onward
<1>b. ASSUME pc[w] \in Active, kept, NEW b \in Body, b.src = Src(w), NEW mode \in Mode,
             NEW k \in Nat, SettleCallbackFailure(w, b, mode, k)
      PROVE  Onward(w)
  <2> DEFINE r == RetryMessage(b, k + 1, mode)
             e == ArchiveBody(w, b, k + 1, "callback-failed")
  <2>2. r \in Message /\ r.body.src = Src(w)
    BY <1>b, RetryMessageType DEF RetryMessage
  <2>3. e \in Envelope /\ e.body.src = Src(w)
    BY <1>b, ArchiveBodyType DEF ArchiveFailureCode, ArchiveBody
  <2>4. PublishNext(w, "publish_retry", r) \/ PublishNext(w, "publish_archive", e)
    BY <1>b DEF SettleCallbackFailure, RetryNext, ArchiveNext
  <2> QED BY <1>b, <2>2, <2>3, <2>4 DEF Onward
<1>c. ASSUME pc[w] \in Active, kept, NEW mode \in Mode, Report(w, mode), Goto(w, "ack")
      PROVE  Onward(w)
  <2>1. harmony'[Src(w)] # {}
    BY <1>0, <1>c DEF Report, EffectOK
  <2> QED BY <1>c, <2>1 DEF Onward, Goto
<1>d. ASSUME pc[w] \in Active, NEW mode \in Mode, Report(w, mode) \/ UNCHANGED harmony
      PROVE  Reported(w)
  BY <1>d DEF Report, ReportedStatus, Reported
<1>1. CASE RejectRequest(w)
  <2>1. KindOf[Src(w)] \in ArchiveFailureCode /\ pc[w] \in Active /\ kept
    BY <1>1 DEF RejectRequest, ArchiveFailureCode, broker
  <2>2. ArchiveBody(w, msg[w].body, 1, KindOf[Src(w)]) \in Envelope
    BY <1>0, <2>1, ArchiveBodyType
  <2>3. ArchiveBody(w, msg[w].body, 1, KindOf[Src(w)]).body.src = Src(w)
    BY DEF ArchiveBody, Src
  <2>4. Onward(w)
    BY <1>1, <2>1, <2>2, <2>3 DEF RejectRequest, ArchiveNext, Onward
  <2> QED BY <1>1, <2>1, <2>4 DEF RejectRequest, Reported
<1>2. CASE RequestUncaught(w)
  BY <1>2, <1>a DEF RequestUncaught, Reported, broker
<1>3. CASE Render(w)
  BY <1>3 DEF Render, Goto, Onward, Reported, broker
<1>4. CASE RenderFails(w)
  BY <1>4, <1>a DEF RenderFails, Reported, broker
<1>5. CASE PublishDocument(w)
  BY <1>5 DEF PublishDocument, AfterPublish, Goto, Onward, Reported, broker
<1>6. CASE PublishDocumentFails(w)
  BY <1>6, <1>a DEF PublishDocumentFails, Reported, broker
<1>7. CASE Unlink(w)
  BY <1>7 DEF Unlink, Goto, Onward, Reported, broker
<1>8. CASE UnlinkFails(w)
  BY <1>8, <1>a DEF UnlinkFails, Reported, broker
<1>9. CASE NotifySuccess(w)
  <2> DEFINE b == [src |-> Src(w), what |-> "success"]
  <2>1. pc[w] \in Active /\ kept /\ "success" \in Mode /\ UNCHANGED <<archive, accepted>>
    BY <1>9 DEF NotifySuccess, broker, Mode
  <2>2. b \in Body /\ b.src = Src(w)
    BY <1>0, <2>1 DEF Body
  <2>3. Reported(w)
    BY <1>9, <1>d, <2>1 DEF NotifySuccess, MayReport
  <2>4. Onward(w)
    BY <1>9, <1>a, <1>b, <1>c, <2>1, <2>2 DEF NotifySuccess
  <2> QED BY <2>1, <2>3, <2>4
<1>10. CASE DeliverCallback(w)
  <2> DEFINE mode == CallbackMode(w, msg[w])
  <2>1. pc[w] \in Active /\ kept /\ UNCHANGED <<archive, accepted>>
    BY <1>10 DEF DeliverCallback, broker
  <2>2. msg[w].body \in Body /\ msg[w].body.src = Src(w) /\ mode \in Mode
        /\ Attempt(w, msg[w]) \in Nat
    BY <1>0, <2>1, AttemptType DEF Src
  <2>3. Reported(w)
    BY <1>10, <1>d, <2>1, <2>2 DEF DeliverCallback
  <2>4. Onward(w)
    BY <1>10, <1>b, <1>c, <2>1, <2>2 DEF DeliverCallback
  <2> QED BY <2>1, <2>3, <2>4
<1>11. CASE NotifyFailure(w)
  <2> DEFINE b == [src |-> Src(w), what |-> "failure"]
  <2>1. pc[w] \in Active /\ "failure" \in Mode /\ UNCHANGED <<archive, accepted>>
    BY <1>11 DEF NotifyFailure, Mode
  <2>2. b \in Body /\ b.src = Src(w)
    BY <1>0, <2>1 DEF Body
  <2>3. Reported(w)
    BY <1>11, <1>d, <2>1 DEF NotifyFailure, MayReport
  <2>4. RetryMessage(b, 1, "failure") \in Message /\ RetryMessage(b, 1, "failure").body = b
    BY <2>1, <2>2, RetryMessageType DEF RetryMessage
  <2>5. ArchiveBody(w, b, 1, "callback-failed") \in Envelope
        /\ ArchiveBody(w, b, 1, "callback-failed").body = b
    BY <2>2, ArchiveBodyType DEF ArchiveBody, ArchiveFailureCode
  <2>6. kept /\ RetryNext(w, b, 1, "failure") => Onward(w)
    BY <2>2, <2>4 DEF RetryNext, Onward
  <2>7. kept /\ ArchiveNext(w, b, 1, "callback-failed") => Onward(w)
    BY <2>2, <2>5 DEF ArchiveNext, Onward
  <2>8. Onward(w) \/ RequeueAndStop(w)
    BY <1>11, <1>c, <2>1, <2>6, <2>7 DEF NotifyFailure, broker
  <2> QED BY <2>1, <2>3, <2>8
<1> QED BY <1>1, <1>2, <1>3, <1>4, <1>5, <1>6, <1>7, <1>8, <1>9, <1>10, <1>11 DEF Handle

\* Steps that leave every witness of a request in place, in the same copy, keep the
\* request accounted for.
LEMMA StillAccounted ==
  ASSUME NEW s, Accounted(s), harmony[s] # {} => harmony'[s] # {}, archive \subseteq archive',
         \A i \in Id : Pending(s, i) => Pending(s, i)'
  PROVE  Accounted(s)'
BY DEF Accounted, Archived

\* A handler that goes on keeps all requests accounted for.
LEMMA OnwardSafe ==
  ASSUME TypeOK, Tracked, NothingSilent, NEW w \in Worker, pc[w] \in Active,
         Onward(w), Reported(w), UNCHANGED <<archive, accepted>>
  PROVE  Tracked' /\ NothingSilent'
<1> USE DEF TypeOK
<1>1. PICK step \in Active, o \in Message \cup Envelope \cup {NoOut} :
        /\ pc' = [pc EXCEPT ![w] = step] /\ out' = [out EXCEPT ![w] = o]
        /\ step \in {"publish_retry", "publish_archive"} => o.body.src = Src(w)
        /\ step = "ack" => harmony'[Src(w)] # {}
        /\ UNCHANGED <<queue, copy, tag, msg>>
  BY DEF Onward, PublishNext
<1>2. Tracked'
  BY <1>1 DEF Tracked, Src, WorkerOK
<1>3. ASSUME NEW s \in accepted, Accounted(s)
      PROVE  Accounted(s)'
  <2>1. harmony[s] # {} => harmony'[s] # {}
    BY <1>3 DEF Reported, EffectOK
  <2>2. CASE step = "ack" /\ s = Src(w)
    BY <1>1, <2>2 DEF Accounted
  <2>3. CASE step # "ack" \/ s # Src(w)
    <3>1. ASSUME NEW i \in Id, Pending(s, i)
          PROVE  Pending(s, i)'
      <4>1. ASSUME NEW v \in Worker, tag[v] = i, pc'[v] = "ack"
            PROVE  pc[v] = "ack"
        <5>1. CASE v = w
          <6>1. step = "ack"
            BY <1>1, <4>1, <5>1 DEF WorkerOK
          <6>2. copy[i] = msg[w]
            BY <4>1, <5>1, NoTagAssumption DEF HoldOK, Live
          <6> QED BY <2>3, <3>1, <6>1, <6>2 DEF Pending, Src
        <5>2. CASE v # w
          BY <1>1, <4>1, <5>2 DEF WorkerOK
        <5> QED BY <5>1, <5>2
      <4> QED BY <1>1, <3>1, <4>1 DEF Pending, Acking
    <3> QED BY <1>3, <2>1, <3>1, StillAccounted
  <2> QED BY <2>2, <2>3
<1> QED BY <1>2, <1>3 DEF NothingSilent

\* So does a worker that gives its delivery back, whether it stops or goes on.
LEMMA GiveBackSafe ==
  ASSUME TypeOK, Tracked, NothingSilent, NEW w \in Worker, GiveBack(w),
         tag' = [tag EXCEPT ![w] = NoTag],
         \/ Stop(w)
         \/ UNCHANGED <<pc, msg, out>>,
         Reported(w), archive \subseteq archive', \A e \in archive' : e.body.src \in accepted,
         UNCHANGED accepted
  PROVE  Tracked' /\ NothingSilent'
<1> USE DEF TypeOK
<1>1. /\ copy' = copy
      /\ \A i \in Id : \/ queue'[i] = queue[i]
                       \/ queue'[i] = "main" /\ tag[w] = i /\ queue[i] = "unacked"
  <2>1. CASE Live(w)
    BY <2>1 DEF GiveBack, HoldOK, BrokerOK, WorkerOK
  <2>2. CASE ~Live(w)
    BY <2>2 DEF GiveBack
  <2> QED BY <2>1, <2>2
<1>2. \A v \in Worker : \/ pc'[v] = pc[v] /\ msg'[v] = msg[v] /\ out'[v] = out[v]
                        \/ pc'[v] = "down"
  BY DEF Stop, WorkerOK
<1>3. Tracked'
  BY <1>1, <1>2 DEF Tracked, Src
<1>4. ASSUME NEW s \in accepted, Accounted(s)
      PROVE  Accounted(s)'
  <2>1. harmony[s] # {} => harmony'[s] # {}
    BY DEF Reported, EffectOK
  <2>2. ASSUME NEW i \in Id, Pending(s, i)
        PROVE  Pending(s, i)'
    <3>1. \A v \in Worker : tag'[v] = i /\ pc'[v] = "ack" => tag[v] = i /\ pc[v] = "ack"
      BY <1>2, NoTagAssumption DEF WorkerOK
    <3> QED BY <1>1, <2>2, <3>1 DEF Pending, Acking
  <2> QED BY <1>4, <2>1, <2>2, StillAccounted
<1> QED BY <1>3, <1>4 DEF NothingSilent

\* No delivery tag names a free place.
LEMMA FreeNotHeld ==
  ASSUME TypeOK, NEW i \in Id, queue[i] # "unacked"
  PROVE  \A w \in Worker : tag[w] # i
BY NoTagAssumption DEF TypeOK, HoldOK, Live

\* Steps of a handler.
LEMMA HandleSafe ==
  ASSUME TypeOK, Tracked, NothingSilent, NEW w \in Worker, Handle(w)
  PROVE  Tracked' /\ NothingSilent'
<1>1. /\ pc[w] \in Active /\ UNCHANGED <<archive, accepted>> /\ Reported(w)
      /\ Onward(w) \/ RequeueAndStop(w)
  BY HandleEffect
<1>2. CASE Onward(w)
  BY <1>1, <1>2, OnwardSafe
<1>3. CASE RequeueAndStop(w)
  BY <1>1, <1>3, GiveBackSafe DEF RequeueAndStop, Stop, Tracked
<1> QED BY <1>1, <1>2, <1>3

\* Publishing and acknowledging: the acknowledgement comes after a witness that does
\* not depend on it.
LEMMA SettleSafe ==
  ASSUME TypeOK, Tracked, NothingSilent, NEW w \in Worker, Settle(w)
  PROVE  Tracked' /\ NothingSilent'
<1> USE DEF TypeOK
<1>1. CASE ConfirmRetry(w)
  <2>1. out[w] \in Message /\ out[w].body.src = Src(w) /\ Src(w) \in accepted
    BY <1>1 DEF ConfirmRetry, WorkerOK, Tracked
  <2>2. PICK j \in Id :
          /\ queue[j] = "free"
          /\ queue' = [queue EXCEPT ![j] = "retry"] /\ copy' = [copy EXCEPT ![j] = out[w]]
          /\ pc' = [pc EXCEPT ![w] = "ack"]
          /\ UNCHANGED <<tag, msg, harmony, archive, accepted>>
    BY <1>1, NewCopyIsFree DEF ConfirmRetry, PutCopy, Goto, PublishNext
  <2>3. Tracked'
    BY <1>1, <2>1, <2>2 DEF Tracked, Src, WorkerOK, BrokerOK, ConfirmRetry, Goto, PublishNext
  <2>4. \A v \in Worker : tag'[v] # j
    BY <2>1, <2>2, FreeNotHeld
  <2>5. queue'[j] # "free" /\ copy'[j].body.src = Src(w) /\ ~Acking(j)'
    <3>1. queue'[j] = "retry" /\ copy'[j] = out[w]
      BY <2>1, <2>2 DEF BrokerOK
    <3>2. ~Acking(j)'
      BY <2>4 DEF Acking
    <3> QED BY <2>1, <3>1, <3>2
  <2>6. ASSUME NEW s \in accepted, Accounted(s)
        PROVE  Accounted(s)'
    <3>1. CASE s = Src(w)
      <4>1. Pending(s, j)'
        BY <2>5, <3>1 DEF Pending
      <4> QED BY <4>1 DEF Accounted
    <3>2. CASE s # Src(w)
      <4>1. ASSUME NEW i \in Id, Pending(s, i)
            PROVE  Pending(s, i)'
        <5>1. i # j
          BY <2>2, <4>1 DEF Pending
        <5>2. tag[w] # i
          BY <1>1, <3>2, <4>1 DEF ConfirmRetry, HoldOK, Pending, Src
        <5> QED BY <2>1, <2>2, <4>1, <5>1, <5>2 DEF Pending, Acking, BrokerOK, WorkerOK
      <4> QED BY <2>2, <2>6, <4>1, StillAccounted
    <3> QED BY <3>1, <3>2
  <2> QED BY <2>2, <2>3, <2>6 DEF NothingSilent
<1>2. CASE ConfirmArchive(w)
  <2>1. /\ out[w] \in Envelope /\ out[w].body.src = Src(w) /\ Src(w) \in accepted
        /\ pc[w] \in Active /\ archive' = archive \cup {out[w]} /\ UNCHANGED <<harmony, accepted>>
    BY <1>2 DEF ConfirmArchive, WorkerOK, Tracked
  <2>2. CASE RequeueAndStop(w)
    BY <1>2, <2>1, <2>2, GiveBackSafe DEF RequeueAndStop, Stop, Tracked, Reported
  <2>3. CASE ~RequeueAndStop(w)
    <3>1. /\ UNCHANGED <<queue, copy, tag, msg>>
          /\ \/ Goto(w, "ack") /\ out[w].code # "processing-failed"
             \/ Goto(w, "notify_failure")
      BY <1>2, <2>3 DEF ConfirmArchive, broker
    <3>2. Tracked'
      BY <2>1, <3>1 DEF Tracked, Src, WorkerOK, Goto, PublishNext
    <3>3. ASSUME NEW s \in accepted, Accounted(s)
          PROVE  Accounted(s)'
      <4>1. CASE s = Src(w) /\ Goto(w, "ack") /\ out[w].code # "processing-failed"
        BY <2>1, <4>1 DEF Accounted, Archived
      <4>2. CASE s # Src(w) \/ Goto(w, "notify_failure")
        <5>1. ASSUME NEW i \in Id, Pending(s, i)
              PROVE  Pending(s, i)'
          <6>1. s # Src(w) => tag[w] # i
            BY <5>1, NoTagAssumption DEF HoldOK, Live, Pending, Src
          <6>2. \A v \in Worker : tag'[v] = i /\ pc'[v] = "ack" => pc[v] = "ack"
            BY <3>1, <4>2, <6>1 DEF WorkerOK, Goto, PublishNext
          <6> QED BY <3>1, <5>1, <6>2 DEF Pending, Acking
        <5> QED BY <2>1, <3>3, <5>1, StillAccounted
      <4> QED BY <3>1, <4>1, <4>2
    <3> QED BY <2>1, <3>2, <3>3 DEF NothingSilent
  <2> QED BY <2>2, <2>3
<1>3. CASE PublishFails(w)
  BY <1>3, GiveBackSafe DEF PublishFails, RequeueAndStop, Stop, Reported, Tracked
<1>4. ASSUME pc[w] = "ack", Live(w), RemoveCopy(tag[w]),
             pc'[w] \in {"idle", "down"}, tag' = [tag EXCEPT ![w] = NoTag],
             \A v \in Worker \ {w} : pc'[v] = pc[v] /\ msg'[v] = msg[v] /\ out'[v] = out[v],
             UNCHANGED <<harmony, archive, accepted>>
      PROVE  Tracked' /\ NothingSilent'
  <2>1. tag[w] \in Id
    BY <1>4 DEF Live, WorkerOK
  <2>2. Tracked'
    BY <1>4, <2>1 DEF Tracked, Src, RemoveCopy, BrokerOK
  <2>3. ASSUME NEW s \in accepted, Accounted(s)
        PROVE  Accounted(s)'
    <3>1. ASSUME NEW i \in Id, Pending(s, i)
          PROVE  Pending(s, i)'
      <4>1. i # tag[w]
        BY <1>4, <3>1 DEF Pending, Acking
      <4> QED BY <1>4, <2>1, <3>1, <4>1, NoTagAssumption
              DEF Pending, Acking, RemoveCopy, BrokerOK, WorkerOK
    <3> QED BY <1>4, <2>3, <3>1, StillAccounted
  <2> QED BY <1>4, <2>2, <2>3 DEF NothingSilent
<1>5. CASE Ack(w)
  <2>1. pc'[w] = "idle"
    BY <1>5 DEF Ack, WorkerOK
  <2>2. \A v \in Worker \ {w} : pc'[v] = pc[v] /\ msg'[v] = msg[v] /\ out'[v] = out[v]
    BY <1>5 DEF Ack, WorkerOK
  <2> QED BY <1>4, <1>5, <2>1, <2>2 DEF Ack
<1>6. CASE AckFails(w)
  <2>1. CASE Live(w) /\ RemoveCopy(tag[w])
    <3>1. pc'[w] = "down"
      BY <1>6 DEF AckFails, Stop, WorkerOK
    <3>2. \A v \in Worker \ {w} : pc'[v] = pc[v] /\ msg'[v] = msg[v] /\ out'[v] = out[v]
      BY <1>6 DEF AckFails, Stop, WorkerOK
    <3> QED BY <1>4, <1>6, <2>1, <3>1, <3>2 DEF AckFails, Stop
  <2>2. CASE GiveBack(w)
    BY <1>6, <2>2, GiveBackSafe DEF AckFails, Stop, Reported, Tracked
  <2>3. ~Live(w) /\ UNCHANGED <<broker, repeated>> => GiveBack(w)
    BY DEF GiveBack, broker
  <2> QED BY <1>6, <2>1, <2>2, <2>3 DEF AckFails
<1> QED BY <1>1, <1>2, <1>3, <1>5, <1>6 DEF Settle

\* Failures: whatever is given back is in the main queue again.
LEMMA FailSafe ==
  ASSUME TypeOK, Tracked, NothingSilent, NEW w \in Worker, Fail(w)
  PROVE  Tracked' /\ NothingSilent'
<1> USE DEF TypeOK
<1>1. CASE ConfirmLost(w)
  <2>1. CASE pc[w] = "publish_archive"
    <3>1. GiveBack(w)
      BY <1>1, <2>1 DEF ConfirmLost, GiveBack
    <3>2. archive' = archive \cup {out[w]} /\ out[w].body.src \in accepted
      BY <1>1, <2>1 DEF ConfirmLost, Tracked, WorkerOK
    <3> QED BY <1>1, <3>1, <3>2, GiveBackSafe DEF ConfirmLost, Stop, Reported, Tracked
  <2>2. CASE pc[w] = "publish_retry"
    <3>1. out[w] \in Message /\ out[w].body.src = Src(w) /\ Src(w) \in accepted
          /\ tag[w] \in Id /\ queue[tag[w]] = "unacked"
      BY <1>1, <2>2 DEF ConfirmLost, WorkerOK, Tracked, HoldOK, Live
    <3>2. PICK j \in Id :
            /\ queue[j] = "free"
            /\ queue' = [queue EXCEPT ![j] = "retry", ![tag[w]] = "main"]
            /\ copy' = [copy EXCEPT ![j] = out[w]]
            /\ pc' = [pc EXCEPT ![w] = "down"] /\ tag' = [tag EXCEPT ![w] = NoTag]
            /\ msg' = [msg EXCEPT ![w] = NoMsg] /\ out' = [out EXCEPT ![w] = NoOut]
            /\ UNCHANGED <<harmony, archive, accepted>>
      BY <1>1, <2>2, NewCopyIsFree DEF ConfirmLost, Stop
    <3>3. Tracked'
      BY <3>1, <3>2 DEF Tracked, Src, WorkerOK, BrokerOK
    <3>4. ASSUME NEW s \in accepted, Accounted(s)
          PROVE  Accounted(s)'
      <4>1. ASSUME NEW i \in Id, Pending(s, i)
            PROVE  Pending(s, i)'
        <5>1. i # j
          BY <3>2, <4>1 DEF Pending
        <5> QED BY <3>1, <3>2, <4>1, <5>1, NoTagAssumption
                DEF Pending, Acking, BrokerOK, WorkerOK
      <4> QED BY <3>2, <3>4, <4>1, StillAccounted
    <3> QED BY <3>2, <3>3, <3>4 DEF NothingSilent
  <2> QED BY <1>1, <2>1, <2>2 DEF ConfirmLost
<1>2. CASE Disconnect(w)
  BY <1>2, GiveBackSafe DEF Disconnect, Reported, Tracked
<1>3. CASE Crash(w)
  BY <1>3, GiveBackSafe DEF Crash, RequeueAndStop, Stop, Reported, Tracked
<1> QED BY <1>1, <1>2, <1>3 DEF Fail

\* A step that only adds a copy, in a place that was free, keeps the witnesses.
LEMMA NewCopySafe ==
  ASSUME TypeOK, NEW q, NEW m, PutCopy(q, m), UNCHANGED <<pc, tag, harmony, archive>>,
         NEW s, Accounted(s)
  PROVE  Accounted(s)'
<1>1. PICK j \in Id : /\ queue[j] = "free" /\ queue' = [queue EXCEPT ![j] = q]
                      /\ copy' = [copy EXCEPT ![j] = m]
  BY NewCopyIsFree DEF PutCopy
<1>2. ASSUME NEW i \in Id, Pending(s, i)
      PROVE  Pending(s, i)'
  <2>1. i # j
    BY <1>1, <1>2 DEF Pending
  <2> QED BY <1>1, <1>2, <2>1 DEF Pending, Acking, TypeOK, BrokerOK
<1> QED BY <1>2, StillAccounted

\* The broker's own steps, connections and deliveries.
LEMMA BrokerStepSafe ==
  ASSUME TypeOK, Tracked, NothingSilent
  PROVE  /\ \A s \in Source : Accept(s) => Tracked' /\ NothingSilent'
         /\ \A w \in Worker : Connect(w) => Tracked' /\ NothingSilent'
         /\ \A w \in Worker, i \in Id : Deliver(w, i) => Tracked' /\ NothingSilent'
         /\ \A i \in Id : Expire(i) => Tracked' /\ NothingSilent'
         /\ \A i \in Id : ExpireTwice(i) => Tracked' /\ NothingSilent'
<1> USE DEF TypeOK
<1>1. ASSUME NEW s \in Source, Accept(s)
      PROVE  Tracked' /\ NothingSilent'
  <2>1. PICK j \in Id :
          /\ queue[j] = "free" /\ queue' = [queue EXCEPT ![j] = "main"]
          /\ copy' = [copy EXCEPT ![j] = SourceMessage(s)]
          /\ accepted' = accepted \cup {s}
          /\ UNCHANGED <<pc, tag, msg, out, harmony, archive>>
    BY <1>1, NewCopyIsFree DEF Accept, PutCopy
  <2>2. SourceMessage(s).body.src = s
    BY DEF SourceMessage
  <2>3. Tracked'
    BY <2>1, <2>2 DEF Tracked, Src, BrokerOK
  <2>4. \A v \in Worker : tag[v] # j
    BY <2>1, FreeNotHeld
  <2>5. Pending(s, j)'
    BY <2>1, <2>2, <2>4 DEF Pending, Acking, BrokerOK
  <2>6. Accounted(s)'
    BY <2>5 DEF Accounted
  <2>7. \A t \in accepted : Accounted(t)'
    BY <1>1, <2>1, NewCopySafe DEF Accept, NothingSilent
  <2> QED BY <2>1, <2>3, <2>6, <2>7 DEF NothingSilent
<1>2. ASSUME NEW w \in Worker, Connect(w)
      PROVE  Tracked' /\ NothingSilent'
  <2>1. Tracked'
    BY <1>2 DEF Connect, Tracked, Src, WorkerOK, broker
  <2>2. \A s \in accepted : Accounted(s)'
    BY <1>2 DEF Connect, NothingSilent, Accounted, Archived, Pending, Acking, WorkerOK, broker
  <2> QED BY <1>2, <2>1, <2>2 DEF Connect, NothingSilent
<1>3. ASSUME NEW w \in Worker, NEW i \in Id, Deliver(w, i)
      PROVE  Tracked' /\ NothingSilent'
  <2> DEFINE m == copy[i]
  <2>1. m \in Message /\ queue[i] = "main" /\ pc[w] = "idle" /\ m.body.src \in accepted
    BY <1>3 DEF Deliver, BrokerOK, Tracked
  <2>2. ArchiveBody(w, m.body, 1, "invalid-retry-state").body = m.body
    BY DEF ArchiveBody
  <2>3. PICK step, o :
          /\ step \in Active /\ PublishNext(w, step, o)
          /\ step \notin {"publish_retry", "ack"}
          /\ step = "publish_archive" => o.body.src = m.body.src
    BY <1>3, <2>2 DEF Deliver, ArchiveNext, Goto
  <2>4. /\ queue' = [queue EXCEPT ![i] = "unacked"] /\ copy' = copy
        /\ tag' = [tag EXCEPT ![w] = i] /\ msg' = [msg EXCEPT ![w] = m]
        /\ pc' = [pc EXCEPT ![w] = step] /\ out' = [out EXCEPT ![w] = o]
        /\ UNCHANGED <<harmony, archive, accepted>>
    BY <1>3, <2>3 DEF Deliver, PublishNext
  <2>5. Tracked'
    BY <2>1, <2>3, <2>4 DEF Tracked, Src, WorkerOK, BrokerOK
  <2>6. ASSUME NEW s \in accepted, Accounted(s)
        PROVE  Accounted(s)'
    <3>1. ASSUME NEW k \in Id, Pending(s, k)
          PROVE  Pending(s, k)'
      BY <2>3, <2>4, <3>1 DEF Pending, Acking, WorkerOK, BrokerOK
    <3> QED BY <2>4, <2>6, <3>1, StillAccounted
  <2> QED BY <2>4, <2>5, <2>6 DEF NothingSilent
<1>4. ASSUME NEW i \in Id, Expire(i)
      PROVE  Tracked' /\ NothingSilent'
  <2>1. copy[i] \in Message
    BY <1>4 DEF Expire, BrokerOK
  <2>2. \A k \in Id : queue'[k] # "free" <=> queue[k] # "free"
    BY <1>4 DEF Expire, BrokerOK
  <2>3. \A k \in Id : queue[k] # "free" => copy'[k].body = copy[k].body
    BY <1>4, <2>1 DEF Expire, BrokerOK, Message
  <2>4. Tracked'
    BY <1>4, <2>2, <2>3 DEF Expire, Tracked, Src
  <2>5. \A s \in accepted : Accounted(s)'
    BY <1>4, <2>2, <2>3 DEF Expire, NothingSilent, Accounted, Archived, Pending, Acking
  <2> QED BY <1>4, <2>4, <2>5 DEF Expire, NothingSilent
<1>5. ASSUME NEW i \in Id, ExpireTwice(i)
      PROVE  Tracked' /\ NothingSilent'
  <2> DEFINE m == [copy[i] EXCEPT !.died = TRUE]
  <2>1. m.body.src \in accepted
    BY <1>5 DEF ExpireTwice, BrokerOK, Tracked, Message
  <2>2. PICK j \in Id : /\ queue[j] = "free" /\ queue' = [queue EXCEPT ![j] = "main"]
                        /\ copy' = [copy EXCEPT ![j] = m]
    BY <1>5, NewCopyIsFree DEF ExpireTwice, PutCopy
  <2>3. Tracked'
    BY <1>5, <2>1, <2>2 DEF ExpireTwice, Tracked, Src, BrokerOK
  <2>4. \A s \in accepted : Accounted(s)'
    BY <1>5, NewCopySafe DEF ExpireTwice, NothingSilent
  <2> QED BY <1>5, <2>3, <2>4 DEF ExpireTwice, NothingSilent
<1> QED BY <1>1, <1>2, <1>3, <1>4, <1>5

\* Every step keeps every accepted request accounted for.
LEMMA NextSafe == TypeOK /\ Tracked /\ NothingSilent /\ [Next]_vars => Tracked' /\ NothingSilent'
<1> SUFFICES ASSUME TypeOK, Tracked, NothingSilent, [Next]_vars
             PROVE  Tracked' /\ NothingSilent'
  OBVIOUS
<1>1. CASE Next
  BY <1>1, HandleSafe, SettleSafe, FailSafe, BrokerStepSafe DEF Next
<1>2. CASE UNCHANGED vars
  BY <1>2 DEF vars, Tracked, Src, NothingSilent, Accounted, Archived, Pending, Acking
<1> QED BY <1>1, <1>2

\* No failure of the broker, of a worker or of Harmony makes the service forget a request:
\* at all times it is reported, archived for good, or in a copy that will be handled.
THEOREM NeverSilent == Spec => []NothingSilent
<1>1. Init => Tracked /\ NothingSilent
  BY DEF Init, Tracked, NothingSilent
<1> QED BY <1>1, InitTypeOK, NextTypeOK, NextSafe, PTL DEF Spec

-----------------------------------------------------------------------------
(* Nothing multiplies: only a failure makes a duplicate.                   *)

\* What the property says of one set of requests, with what counting needs.
BoundedFor(S) == /\ IsFiniteSet(PendingOf(S))
                 /\ Cardinality(PendingOf(S)) <= Cardinality(S \cap accepted) + faults

DuplicateInv == IsFiniteSet(accepted) /\ \A S \in SUBSET Source : BoundedFor(S)

\* A set with one more element at most counts one more at most.
LEMMA OneMore ==
  ASSUME NEW P, NEW Q, NEW j, IsFiniteSet(P), Q \subseteq P \cup {j}
  PROVE  IsFiniteSet(Q) /\ Cardinality(Q) <= Cardinality(P) + 1
<1>1. IsFiniteSet(P \cup {j}) /\ Cardinality(P \cup {j}) \in {Cardinality(P), Cardinality(P) + 1}
  BY FS_AddElement
<1>2. IsFiniteSet(Q) /\ Cardinality(Q) <= Cardinality(P \cup {j})
  BY <1>1, FS_Subset
<1>3. Cardinality(P) \in Nat /\ Cardinality(Q) \in Nat
  BY <1>2, FS_CardinalityType
<1> QED BY <1>1, <1>2, <1>3

\* An element taken out makes room for one put in.
LEMMA OneForOne ==
  ASSUME NEW P, NEW Q, NEW j, NEW t \in P, IsFiniteSet(P), Q \subseteq (P \ {t}) \cup {j}
  PROVE  IsFiniteSet(Q) /\ Cardinality(Q) <= Cardinality(P)
<1>1. IsFiniteSet(P \ {t}) /\ Cardinality(P \ {t}) = Cardinality(P) - 1
  BY FS_RemoveElement
<1>2. IsFiniteSet(Q) /\ Cardinality(Q) <= Cardinality(P \ {t}) + 1
  BY <1>1, OneMore
<1>3. Cardinality(P) \in Nat /\ Cardinality(Q) \in Nat
  BY <1>2, FS_CardinalityType
<1> QED BY <1>1, <1>2, <1>3

\* The four ways in which a step changes the copies of S that await work: no new one, a
\* new one for an old one, a new one for a failure, a new one for a new request.
NoneNew(S) == PendingOf(S)' \subseteq PendingOf(S) /\ faults' >= faults
Replaced(S) == /\ \E t \in PendingOf(S), j \in Id :
                     PendingOf(S)' \subseteq (PendingOf(S) \ {t}) \cup {j}
               /\ faults' = faults
Duplicated(S) == /\ \E j \in Id : PendingOf(S)' \subseteq PendingOf(S) \cup {j}
                 /\ faults' = faults + 1
Started(S) == /\ \E j \in Id : PendingOf(S)' \subseteq PendingOf(S) \cup {j}
              /\ \E s \in S : s \notin accepted /\ accepted' = accepted \cup {s}
              /\ faults' = faults

\* Each of them keeps the bound.
LEMMA DuplicateBoundKept ==
  ASSUME TypeOK, IsFiniteSet(accepted), NEW S \in SUBSET Source, BoundedFor(S), faults' \in Nat,
         \/ UNCHANGED accepted /\ (NoneNew(S) \/ Replaced(S) \/ Duplicated(S))
         \/ Started(S)
  PROVE  BoundedFor(S)'
<1> DEFINE P == PendingOf(S)
           Q == PendingOf(S)'
           A == S \cap accepted
<1>1. IsFiniteSet(P) /\ Cardinality(P) \in Nat /\ Cardinality(P) <= Cardinality(A) + faults
  BY FS_CardinalityType DEF BoundedFor
<1>2. IsFiniteSet(A) /\ Cardinality(A) \in Nat /\ faults \in Nat
  <2>1. A \in SUBSET accepted
    OBVIOUS
  <2>2. IsFiniteSet(A)
    BY <2>1, FS_Subset
  <2> QED BY <2>2, FS_CardinalityType DEF TypeOK, EffectOK
<1>3. ASSUME UNCHANGED accepted, IsFiniteSet(Q),
             Cardinality(Q) <= Cardinality(P) \/ Cardinality(Q) <= Cardinality(P) + 1,
             Cardinality(Q) <= Cardinality(P) => faults' >= faults,
             ~(Cardinality(Q) <= Cardinality(P)) => faults' = faults + 1
      PROVE  BoundedFor(S)'
  <2>1. Cardinality(Q) \in Nat
    BY <1>3, FS_CardinalityType
  <2>2. Cardinality(Q) <= Cardinality(A) + faults'
    BY <1>1, <1>2, <1>3, <2>1
  <2> QED BY <1>3, <2>2 DEF BoundedFor
<1>4. CASE UNCHANGED accepted /\ NoneNew(S)
  <2>1. Q \in SUBSET P
    BY <1>4 DEF NoneNew
  <2>2. IsFiniteSet(Q) /\ Cardinality(Q) <= Cardinality(P)
    BY <1>1, <2>1, FS_Subset
  <2> QED BY <1>3, <1>4, <2>2 DEF NoneNew
<1>5. CASE UNCHANGED accepted /\ Replaced(S)
  <2>1. IsFiniteSet(Q) /\ Cardinality(Q) <= Cardinality(P)
    BY <1>1, <1>5, OneForOne DEF Replaced
  <2>2. faults' >= faults
    BY <1>2, <1>5 DEF Replaced
  <2> QED BY <1>3, <1>5, <2>1, <2>2
<1>6. CASE UNCHANGED accepted /\ Duplicated(S)
  <2>1. IsFiniteSet(Q) /\ Cardinality(Q) <= Cardinality(P) + 1
    BY <1>1, <1>6, OneMore DEF Duplicated
  <2>2. faults' = faults + 1 /\ faults' >= faults
    BY <1>2, <1>6 DEF Duplicated
  <2> QED BY <1>3, <1>6, <2>1, <2>2
<1>7. CASE Started(S)
  <2>1. IsFiniteSet(Q) /\ Cardinality(Q) <= Cardinality(P) + 1 /\ Cardinality(Q) \in Nat
    BY <1>1, <1>7, OneMore, FS_CardinalityType DEF Started
  <2>2. PICK s \in S : s \notin A /\ accepted' = accepted \cup {s} /\ faults' = faults
    BY <1>7 DEF Started
  <2>3. S \cap accepted' = A \cup {s}
    BY <2>2
  <2>4. Cardinality(S \cap accepted') = Cardinality(A) + 1
    BY <1>2, <2>2, <2>3, FS_AddElement
  <2>5. Cardinality(Q) <= Cardinality(S \cap accepted') + faults'
    BY <1>1, <1>2, <2>1, <2>2, <2>4
  <2> QED BY <2>1, <2>5 DEF BoundedFor
<1> QED BY <1>4, <1>5, <1>6, <1>7

\* A delivery given back before its handler acknowledges it was awaiting work already; one
\* given back at the acknowledgement is new.
LEMMA GiveBackPending ==
  ASSUME TypeOK, NEW S \in SUBSET Source, NEW w \in Worker, GiveBack(w),
         tag' = [tag EXCEPT ![w] = NoTag], Stop(w) \/ UNCHANGED pc
  PROVE  /\ Live(w) => tag[w] \in Id /\ PendingOf(S)' \subseteq PendingOf(S) \cup {tag[w]}
         /\ ~Live(w) \/ pc[w] # "ack" => PendingOf(S)' \subseteq PendingOf(S)
<1> USE DEF TypeOK
<1>1. \A v \in Worker \ {w} : tag'[v] = tag[v] /\ pc'[v] = pc[v]
  BY DEF Stop, WorkerOK
<1>2. CASE Live(w)
  <2>1. PICK t \in Id : t = tag[w] /\ queue[t] = "unacked"
    BY <1>2 DEF HoldOK, WorkerOK, Live
  <2>2. queue' = [queue EXCEPT ![t] = "main"] /\ copy' = copy
    BY <1>2, <2>1 DEF GiveBack
  <2>3. \A i \in Id \ {t} : queue'[i] = queue[i] /\ (Acking(i) => Acking(i)')
    BY <1>1, <2>1, <2>2 DEF BrokerOK, Acking
  <2>4. PendingOf(S)' \subseteq PendingOf(S) \cup {t}
    BY <2>2, <2>3 DEF PendingOf
  <2>5. pc[w] # "ack" => ~Acking(t)
    BY <1>2, <2>1 DEF Acking, HoldOK, Live
  <2>6. pc[w] # "ack" /\ t \in PendingOf(S)' => t \in PendingOf(S)
    BY <2>1, <2>2, <2>5 DEF PendingOf
  <2> QED BY <1>2, <2>1, <2>4, <2>6
<1>3. CASE ~Live(w)
  <2>1. queue' = queue /\ copy' = copy
    BY <1>3 DEF GiveBack
  <2>2. \A i \in Id : Acking(i) => Acking(i)'
    BY <1>1, <1>3, NoTagAssumption DEF Acking, Live
  <2> QED BY <1>3, <2>1, <2>2 DEF PendingOf
<1> QED BY <1>2, <1>3

\* A copy put in a free place is the only one that can be new.
LEMMA PutCopyPending ==
  ASSUME TypeOK, NEW S \in SUBSET Source, NEW q, NEW m, PutCopy(q, m),
         \A i \in Id : Acking(i) => Acking(i)'
  PROVE  \E j \in Id : /\ queue[j] = "free"
                       /\ PendingOf(S)' \subseteq PendingOf(S) \cup {j}
                       /\ m.body.src \notin S => PendingOf(S)' \subseteq PendingOf(S)
<1>1. PICK j \in Id : /\ queue[j] = "free" /\ queue' = [queue EXCEPT ![j] = q]
                      /\ copy' = [copy EXCEPT ![j] = m]
  BY NewCopyIsFree DEF PutCopy
<1>2. copy'[j] = m /\ \A i \in Id \ {j} : queue'[i] = queue[i] /\ copy'[i] = copy[i]
  BY <1>1 DEF TypeOK, BrokerOK
<1> QED BY <1>1, <1>2 DEF PendingOf

\* Taking a copy away, or moving one between the queues, makes none.
LEMMA NonePending ==
  ASSUME NEW S \in SUBSET Source,
         \A i \in Id : queue'[i] # "free" =>
           queue[i] # "free" /\ copy'[i].body.src = copy[i].body.src /\ (Acking(i) => Acking(i)')
  PROVE  PendingOf(S)' \subseteq PendingOf(S)
BY DEF PendingOf

\* Steps of a handler make no copy.
LEMMA HandlePending ==
  ASSUME TypeOK, NEW S \in SUBSET Source, NEW w \in Worker, Handle(w)
  PROVE  NoneNew(S) /\ UNCHANGED accepted
<1>1. pc[w] \in Active /\ accepted' = accepted /\ (Onward(w) \/ RequeueAndStop(w))
  BY HandleEffect
<1>2. pc[w] # "ack" /\ faults' = faults
  BY DEF Handle, RejectRequest, RequestUncaught, Render, RenderFails, PublishDocument,
         PublishDocumentFails, Unlink, UnlinkFails, NotifySuccess, DeliverCallback, NotifyFailure
<1>3. CASE Onward(w)
  <2>1. UNCHANGED <<queue, copy, tag>> /\ \A v \in Worker \ {w} : pc'[v] = pc[v]
    BY <1>3 DEF Onward, PublishNext, TypeOK, WorkerOK
  <2>2. \A i \in Id : Acking(i) => Acking(i)'
    BY <1>2, <2>1 DEF Acking
  <2>3. PendingOf(S)' \subseteq PendingOf(S)
    BY <2>1, <2>2, NonePending
  <2> QED BY <1>1, <1>2, <2>3 DEF NoneNew, TypeOK, EffectOK
<1>4. CASE RequeueAndStop(w)
  <2>1. PendingOf(S)' \subseteq PendingOf(S)
    BY <1>2, <1>4, GiveBackPending DEF RequeueAndStop, Stop
  <2> QED BY <1>1, <1>2, <2>1 DEF NoneNew, TypeOK, EffectOK
<1> QED BY <1>1, <1>3, <1>4

\* A confirmed retry stands for the delivery that is acknowledged next; the other
\* publications and acknowledgements add a copy only when the connection fails.
LEMMA SettlePending ==
  ASSUME TypeOK, Tracked, NEW S \in SUBSET Source, NEW w \in Worker, Settle(w)
  PROVE  UNCHANGED accepted /\ (NoneNew(S) \/ Replaced(S) \/ Duplicated(S))
<1> USE DEF TypeOK
<1>0. faults \in Nat
  BY DEF EffectOK
<1>1. CASE ConfirmRetry(w)
  <2>1. PICK t \in Id : t = tag[w] /\ queue[t] = "unacked" /\ copy[t].body.src = Src(w)
                        /\ out[w].body.src = Src(w)
    BY <1>1 DEF ConfirmRetry, HoldOK, WorkerOK, Live, Tracked, Src
  <2>2. /\ pc[w] = "publish_retry" /\ Live(w) /\ PutCopy("retry", out[w])
        /\ pc'[w] = "ack" /\ tag' = tag /\ \A v \in Worker \ {w} : pc'[v] = pc[v]
        /\ UNCHANGED <<accepted, faults>>
    BY <1>1 DEF ConfirmRetry, Goto, PublishNext, WorkerOK
  <2>3. ~Acking(t) /\ Acking(t)'
    BY <2>1, <2>2 DEF Acking, HoldOK, Live
  <2>4. \A i \in Id : Acking(i) => Acking(i)'
    BY <2>2 DEF Acking
  <2>5. PICK j \in Id : /\ queue[j] = "free"
                        /\ PendingOf(S)' \subseteq PendingOf(S) \cup {j}
                        /\ out[w].body.src \notin S => PendingOf(S)' \subseteq PendingOf(S)
    BY <2>2, <2>4, PutCopyPending
  <2>6. t \notin PendingOf(S)'
    BY <2>3 DEF PendingOf
  <2>7. CASE Src(w) \in S
    <3>1. t \in PendingOf(S)
      BY <2>1, <2>3, <2>7 DEF PendingOf
    <3>2. PendingOf(S)' \subseteq (PendingOf(S) \ {t}) \cup {j}
      BY <2>5, <2>6
    <3> QED BY <2>2, <3>1, <3>2 DEF Replaced
  <2>8. CASE Src(w) \notin S
    BY <1>0, <2>1, <2>2, <2>5, <2>8 DEF NoneNew
  <2> QED BY <2>7, <2>8
<1>2. CASE ConfirmArchive(w)
  <2>1. pc[w] = "publish_archive" /\ UNCHANGED <<accepted, faults>>
    BY <1>2 DEF ConfirmArchive
  <2>2. CASE RequeueAndStop(w)
    <3>1. PendingOf(S)' \subseteq PendingOf(S)
      BY <2>1, <2>2, GiveBackPending DEF RequeueAndStop, Stop
    <3> QED BY <1>0, <2>1, <3>1 DEF NoneNew
  <2>3. CASE UNCHANGED <<queue, copy, tag>> /\ (Goto(w, "ack") \/ Goto(w, "notify_failure"))
    <3>1. \A v \in Worker \ {w} : pc'[v] = pc[v]
      BY <2>3 DEF Goto, PublishNext, WorkerOK
    <3>2. \A i \in Id : Acking(i) => Acking(i)'
      BY <2>1, <2>3, <3>1 DEF Acking
    <3> QED BY <1>0, <2>1, <2>3, <3>2, NonePending DEF NoneNew
  <2> QED BY <1>2, <2>2, <2>3 DEF ConfirmArchive, broker
<1>3. CASE PublishFails(w)
  <2>1. pc[w] # "ack" /\ RequeueAndStop(w) /\ UNCHANGED <<accepted, faults>>
    BY <1>3 DEF PublishFails
  <2>2. PendingOf(S)' \subseteq PendingOf(S)
    BY <2>1, GiveBackPending DEF RequeueAndStop, Stop
  <2> QED BY <1>0, <2>1, <2>2 DEF NoneNew
<1>4. ASSUME RemoveCopy(tag[w]), Live(w), \A v \in Worker \ {w} : pc'[v] = pc[v],
             tag' = [tag EXCEPT ![w] = NoTag]
      PROVE  PendingOf(S)' \subseteq PendingOf(S)
  <2>1. PICK t \in Id : t = tag[w]
    BY <1>4 DEF Live, WorkerOK
  <2>2. queue'[t] = "free" /\ \A i \in Id \ {t} : queue'[i] = queue[i] /\ copy'[i] = copy[i]
    BY <1>4, <2>1 DEF RemoveCopy, BrokerOK
  <2>3. \A i \in Id \ {t} : Acking(i) => Acking(i)'
    BY <1>4, <2>1 DEF Acking, WorkerOK
  <2> QED BY <2>2, <2>3, NonePending
<1>5. CASE Ack(w)
  <2>1. \A v \in Worker \ {w} : pc'[v] = pc[v]
    BY <1>5 DEF Ack, WorkerOK
  <2> QED BY <1>0, <1>4, <1>5, <2>1 DEF Ack, NoneNew
<1>6. CASE AckFails(w)
  <2>1. /\ \A v \in Worker \ {w} : pc'[v] = pc[v]
        /\ tag' = [tag EXCEPT ![w] = NoTag] /\ Stop(w) /\ accepted' = accepted
    BY <1>6 DEF AckFails, Stop, WorkerOK
  <2>2. CASE ~Live(w)
    <3>1. GiveBack(w) /\ faults' = faults
      BY <1>6, <2>2 DEF AckFails, GiveBack, broker
    <3>2. PendingOf(S)' \subseteq PendingOf(S)
      BY <2>1, <2>2, <3>1, GiveBackPending
    <3> QED BY <1>0, <2>1, <3>1, <3>2 DEF NoneNew
  <2>3. CASE Live(w) /\ RemoveCopy(tag[w])
    <3>1. faults' >= faults
      BY <1>0, <1>6, <2>3 DEF AckFails
    <3> QED BY <1>4, <2>1, <2>3, <3>1 DEF NoneNew
  <2>4. CASE Live(w) /\ GiveBack(w)
    <3>1. faults' = faults + 1
      BY <1>6, <2>4 DEF AckFails
    <3> QED BY <2>1, <2>4, <3>1, GiveBackPending DEF Duplicated
  <2> QED BY <1>6, <2>2, <2>3, <2>4 DEF AckFails
<1> QED BY <1>1, <1>2, <1>3, <1>5, <1>6 DEF Settle

\* A failure adds one copy at most.
LEMMA FailPending ==
  ASSUME TypeOK, NEW S \in SUBSET Source, NEW w \in Worker, Fail(w)
  PROVE  UNCHANGED accepted /\ (NoneNew(S) \/ Duplicated(S))
<1> USE DEF TypeOK
<1>0. faults \in Nat
  BY DEF EffectOK
<1>1. CASE ConfirmLost(w)
  <2>1. Live(w) /\ faults' = faults + 1 /\ accepted' = accepted
    BY <1>1 DEF ConfirmLost
  <2>2. CASE pc[w] = "publish_retry"
    <3>1. PICK t \in Id : t = tag[w] /\ queue[t] = "unacked"
      BY <2>1 DEF HoldOK, WorkerOK, Live
    <3>2. PICK j \in Id :
            /\ queue[j] = "free"
            /\ queue' = [queue EXCEPT ![j] = "retry", ![t] = "main"]
            /\ copy' = [copy EXCEPT ![j] = out[w]]
            /\ pc' = [pc EXCEPT ![w] = "down"] /\ tag' = [tag EXCEPT ![w] = NoTag]
      BY <1>1, <2>2, <3>1, NewCopyIsFree DEF ConfirmLost, Stop
    <3>3. \A i \in Id \ {j} : copy'[i] = copy[i] /\ (queue'[i] # "free" => queue[i] # "free")
      BY <3>1, <3>2 DEF BrokerOK
    <3>4. \A v \in Worker \ {w} : pc'[v] = pc[v] /\ tag'[v] = tag[v]
      BY <3>2 DEF WorkerOK
    <3>5. \A i \in Id : Acking(i) => Acking(i)'
      BY <2>2, <3>4 DEF Acking
    <3>6. PendingOf(S)' \subseteq PendingOf(S) \cup {j}
      BY <3>3, <3>5 DEF PendingOf
    <3> QED BY <2>1, <3>6 DEF Duplicated
  <2>3. CASE pc[w] = "publish_archive"
    <3>1. GiveBack(w) /\ Stop(w)
      BY <1>1, <2>3 DEF ConfirmLost, GiveBack
    <3>2. PendingOf(S)' \subseteq PendingOf(S)
      BY <2>3, <3>1, GiveBackPending DEF Stop
    <3> QED BY <1>0, <2>1, <3>2 DEF NoneNew
  <2> QED BY <1>1, <2>2, <2>3 DEF ConfirmLost
<1>2. ASSUME GiveBack(w), tag' = [tag EXCEPT ![w] = NoTag], Stop(w) \/ UNCHANGED pc,
             faults' = faults + 1
      PROVE  NoneNew(S) \/ Duplicated(S)
  <2>1. CASE Live(w)
    BY <1>2, <2>1, GiveBackPending DEF Duplicated
  <2>2. CASE ~Live(w)
    <3>1. PendingOf(S)' \subseteq PendingOf(S)
      BY <1>2, <2>2, GiveBackPending
    <3> QED BY <1>0, <1>2, <3>1 DEF NoneNew
  <2> QED BY <2>1, <2>2
<1>3. CASE Disconnect(w)
  BY <1>2, <1>3 DEF Disconnect
<1>4. CASE Crash(w)
  BY <1>2, <1>4 DEF Crash, RequeueAndStop, Stop
<1> QED BY <1>1, <1>3, <1>4 DEF Fail

\* The producer adds the copy of a new request, the broker one when it fails to move one.
LEMMA BrokerStepPending ==
  ASSUME TypeOK, NEW S \in SUBSET Source
  PROVE  /\ \A s \in Source : Accept(s) =>
              Started(S) \/ (PendingOf(S)' \subseteq PendingOf(S) /\ faults' = faults
                             /\ s \notin S /\ accepted' = accepted \cup {s})
         /\ \A w \in Worker : Connect(w) => NoneNew(S) /\ UNCHANGED accepted
         /\ \A w \in Worker, i \in Id : Deliver(w, i) => NoneNew(S) /\ UNCHANGED accepted
         /\ \A i \in Id : Expire(i) => NoneNew(S) /\ UNCHANGED accepted
         /\ \A i \in Id : ExpireTwice(i) => Duplicated(S) /\ UNCHANGED accepted
<1> USE DEF TypeOK
<1>0. faults \in Nat
  BY DEF EffectOK
<1>a. UNCHANGED <<pc, tag>> => \A i \in Id : Acking(i) => Acking(i)'
  BY DEF Acking
<1>1. ASSUME NEW s \in Source, Accept(s)
      PROVE  Started(S) \/ (PendingOf(S)' \subseteq PendingOf(S) /\ faults' = faults
                            /\ s \notin S /\ accepted' = accepted \cup {s})
  <2>1. PutCopy("main", SourceMessage(s)) /\ s \notin accepted
        /\ accepted' = accepted \cup {s} /\ UNCHANGED <<pc, tag, faults>>
    BY <1>1 DEF Accept
  <2>2. SourceMessage(s).body.src = s
    BY DEF SourceMessage
  <2>3. PICK j \in Id : /\ PendingOf(S)' \subseteq PendingOf(S) \cup {j}
                        /\ s \notin S => PendingOf(S)' \subseteq PendingOf(S)
    BY <1>a, <2>1, <2>2, PutCopyPending
  <2> QED BY <2>1, <2>3 DEF Started
<1>2. ASSUME NEW w \in Worker, Connect(w)
      PROVE  NoneNew(S) /\ UNCHANGED accepted
  <2>1. UNCHANGED <<queue, copy, tag, accepted, faults>> /\ pc[w] = "down"
        /\ \A v \in Worker \ {w} : pc'[v] = pc[v]
    BY <1>2 DEF Connect, broker, WorkerOK
  <2>2. \A i \in Id : Acking(i) => Acking(i)'
    BY <2>1 DEF Acking
  <2> QED BY <1>0, <2>1, <2>2, NonePending DEF NoneNew
<1>3. ASSUME NEW w \in Worker, NEW i \in Id, Deliver(w, i)
      PROVE  NoneNew(S) /\ UNCHANGED accepted
  <2>1. /\ queue[i] = "main" /\ queue' = [queue EXCEPT ![i] = "unacked"] /\ copy' = copy
        /\ pc[w] = "idle" /\ UNCHANGED <<accepted, faults>>
    BY <1>3 DEF Deliver
  <2>2. \A v \in Worker \ {w} : pc'[v] = pc[v] /\ tag'[v] = tag[v]
    BY <1>3 DEF Deliver, Goto, ArchiveNext, PublishNext, WorkerOK
  <2>3. \A k \in Id : Acking(k) => Acking(k)'
    BY <2>1, <2>2 DEF Acking
  <2>4. \A k \in Id : queue'[k] # "free" => queue[k] # "free"
    BY <2>1 DEF BrokerOK
  <2> QED BY <1>0, <2>1, <2>3, <2>4, NonePending DEF NoneNew
<1>4. ASSUME NEW i \in Id, Expire(i)
      PROVE  NoneNew(S) /\ UNCHANGED accepted
  <2>1. copy[i] \in Message /\ queue[i] = "retry" /\ UNCHANGED <<pc, tag, accepted, faults>>
    BY <1>4 DEF Expire, BrokerOK
  <2>2. \A k \in Id : queue'[k] # "free" => queue[k] # "free"
    BY <1>4 DEF Expire, BrokerOK
  <2>3. \A k \in Id : queue[k] # "free" => copy'[k].body = copy[k].body
    BY <1>4, <2>1 DEF Expire, BrokerOK, Message
  <2> QED BY <1>0, <1>a, <2>1, <2>2, <2>3, NonePending DEF NoneNew
<1>5. ASSUME NEW i \in Id, ExpireTwice(i)
      PROVE  Duplicated(S) /\ UNCHANGED accepted
  <2>1. PutCopy("main", [copy[i] EXCEPT !.died = TRUE]) /\ UNCHANGED <<pc, tag, accepted>>
        /\ faults' = faults + 1
    BY <1>5 DEF ExpireTwice
  <2>2. PICK j \in Id : PendingOf(S)' \subseteq PendingOf(S) \cup {j}
    BY <1>a, <2>1, PutCopyPending
  <2> QED BY <2>1, <2>2 DEF Duplicated
<1> QED BY <1>1, <1>2, <1>3, <1>4, <1>5

\* Every step keeps the bound for every set of requests.
LEMMA NextDuplicates ==
  TypeOK /\ TypeOK' /\ Tracked /\ DuplicateInv /\ [Next]_vars => DuplicateInv'
<1> SUFFICES ASSUME TypeOK, TypeOK', Tracked, DuplicateInv, [Next]_vars
             PROVE  DuplicateInv'
  OBVIOUS
<1>1. IsFiniteSet(accepted) /\ \A S \in SUBSET Source : BoundedFor(S)
  BY DEF DuplicateInv
<1>2. faults \in Nat /\ faults' \in Nat
  BY DEF TypeOK, EffectOK
<1>3. ASSUME UNCHANGED accepted,
             \A S \in SUBSET Source : NoneNew(S) \/ Replaced(S) \/ Duplicated(S)
      PROVE  DuplicateInv'
  BY <1>1, <1>2, <1>3, DuplicateBoundKept DEF DuplicateInv
<1>4. ASSUME NEW s \in Source, Accept(s)
      PROVE  DuplicateInv'
  <2>1. accepted' = accepted \cup {s}
    BY <1>4 DEF Accept
  <2>2. IsFiniteSet(accepted')
    BY <1>1, <2>1, FS_AddElement
  <2>3. ASSUME NEW S \in SUBSET Source
        PROVE  BoundedFor(S)'
    <3>1. CASE Started(S)
      BY <1>1, <1>2, <3>1, DuplicateBoundKept
    <3>2. CASE PendingOf(S)' \subseteq PendingOf(S) /\ faults' = faults /\ s \notin S
      <4>1. S \cap accepted' = S \cap accepted
        BY <2>1, <3>2
      <4>2. IsFiniteSet(PendingOf(S)) /\ IsFiniteSet(PendingOf(S)')
            /\ Cardinality(PendingOf(S)') <= Cardinality(PendingOf(S))
            /\ Cardinality(PendingOf(S)) <= Cardinality(S \cap accepted) + faults
        BY <1>1, <3>2, FS_Subset DEF BoundedFor
      <4>3. Cardinality(PendingOf(S)) \in Nat /\ Cardinality(PendingOf(S)') \in Nat
        BY <4>2, FS_CardinalityType
      <4>4. Cardinality(S \cap accepted) \in Nat
        <5>1. S \cap accepted \in SUBSET accepted
          OBVIOUS
        <5>2. IsFiniteSet(S \cap accepted)
          BY <1>1, <5>1, FS_Subset
        <5> QED BY <5>2, FS_CardinalityType
      <4>5. Cardinality(PendingOf(S)') <= Cardinality(S \cap accepted) + faults
        BY <1>2, <4>2, <4>3, <4>4
      <4> QED BY <3>2, <4>1, <4>2, <4>5 DEF BoundedFor
    <3> QED BY <1>4, <3>1, <3>2, BrokerStepPending
  <2> QED BY <2>2, <2>3 DEF DuplicateInv
<1>5. ASSUME NEW w \in Worker, Handle(w) \/ Connect(w)
      PROVE  DuplicateInv'
  <2>1. accepted' = accepted
    BY <1>5, HandleEffect DEF Connect
  <2>2. \A S \in SUBSET Source : NoneNew(S)
    BY <1>5, HandlePending, BrokerStepPending
  <2> QED BY <1>3, <2>1, <2>2
<1>6. ASSUME NEW w \in Worker, Settle(w) \/ Fail(w)
      PROVE  DuplicateInv'
  <2>1. \A S \in SUBSET Source :
          UNCHANGED accepted /\ (NoneNew(S) \/ Replaced(S) \/ Duplicated(S))
    BY <1>6, SettlePending, FailPending
  <2>2. accepted' = accepted
    BY <2>1
  <2> QED BY <1>3, <2>1, <2>2
<1>7. ASSUME NEW w \in Worker, NEW i \in Id, Deliver(w, i)
      PROVE  DuplicateInv'
  <2>1. accepted' = accepted
    BY <1>7 DEF Deliver
  <2>2. \A S \in SUBSET Source : NoneNew(S)
    BY <1>7, BrokerStepPending
  <2> QED BY <1>3, <2>1, <2>2
<1>8. ASSUME NEW i \in Id, Expire(i) \/ ExpireTwice(i)
      PROVE  DuplicateInv'
  <2>1. accepted' = accepted
    BY <1>8 DEF Expire, ExpireTwice
  <2>2. \A S \in SUBSET Source : NoneNew(S) \/ Duplicated(S)
    BY <1>8, BrokerStepPending
  <2> QED BY <1>3, <2>1, <2>2
<1>9. CASE UNCHANGED vars
  <2>1. \A S \in SUBSET Source : NoneNew(S)
    BY <1>2, <1>9 DEF NoneNew, PendingOf, Acking, vars
  <2> QED BY <1>3, <1>9, <2>1 DEF vars
<1> QED BY <1>4, <1>5, <1>6, <1>7, <1>8, <1>9 DEF Next

\* Whatever the requests one looks at, the copies of them that still await work outnumber
\* the accepted ones by the failures at most, for any number of workers and any bound.
THEOREM OnlyFailuresDuplicate == Spec => []DuplicatesNeedFailures
<1>1. Init => DuplicateInv
  <2> SUFFICES ASSUME Init
               PROVE  DuplicateInv
    OBVIOUS
  <2>1. accepted = {} /\ faults = 0 /\ \A S \in SUBSET Source : PendingOf(S) = {}
    BY DEF Init, PendingOf
  <2>2. \A S \in SUBSET Source : S \cap accepted = {}
    BY <2>1
  <2> QED BY <2>1, <2>2, FS_EmptySet DEF DuplicateInv, BoundedFor
<1>2. DuplicateInv => DuplicatesNeedFailures
  BY DEF DuplicateInv, BoundedFor, DuplicatesNeedFailures
<1>3. Init => Tracked /\ NothingSilent
  BY DEF Init, Tracked, NothingSilent
<1> QED BY <1>1, <1>2, <1>3, InitTypeOK, NextTypeOK, NextSafe, NextDuplicates, PTL DEF Spec

-----------------------------------------------------------------------------
(* DocumentWorker implements DocumentJobs: every step records one outcome, *)
(* opens or closes one job, or changes nothing the promise speaks of.      *)

openJobs == {s \in Source : LiveCopy(s)}
outcomesOf == [s \in Source |-> harmony[s] \cup IF Archived(s) THEN {"archived"} ELSE {}]

\* A copy that is added for a source which has one already, or moved, opens no job.
LEMMA SameOpen ==
  ASSUME \A s \in Source : LiveCopy(s) <=> LiveCopy(s)'
  PROVE  UNCHANGED openJobs
BY DEF openJobs

\* A report to Harmony is one outcome of the job of the worker that makes it.
LEMMA ReportRecords ==
  ASSUME TypeOK, Tracked, NEW w \in Worker, pc[w] \in Active, Reported(w),
         UNCHANGED <<archive, accepted, openJobs>>
  PROVE  [Jobs!Next]_(Jobs!vars)
<1>1. Src(w) \in Source /\ Src(w) \in accepted
  BY DEF Tracked, TypeOK, WorkerOK, Message, Body, Src
<1>2. \A s \in Source : Archived(s)' = Archived(s)
  BY DEF Archived
<1>3. CASE UNCHANGED harmony
  BY <1>2, <1>3 DEF Jobs!vars, openJobs, outcomesOf
<1>4. ASSUME NEW st \in {"done", "failed"}, harmony' = [harmony EXCEPT ![Src(w)] = @ \cup {st}]
      PROVE  Jobs!Record(Src(w), st)
  <2>1. outcomesOf' = [outcomesOf EXCEPT ![Src(w)] = @ \cup {st}]
    BY <1>1, <1>2, <1>4 DEF outcomesOf, TypeOK, EffectOK
  <2> QED BY <1>1, <2>1 DEF Jobs!Record, openJobs, outcomesOf
<1> QED BY <1>1, <1>3, <1>4 DEF Reported, Jobs!Next, Jobs!Outcome

\* A confirmed envelope is the outcome "archived" of its job, or none at all when it
\* only says that the processing failed.
LEMMA ArchiveRecords ==
  ASSUME TypeOK, Tracked, NEW w \in Worker, pc[w] = "publish_archive",
         archive' = archive \cup {out[w]}, UNCHANGED <<harmony, accepted, openJobs>>
  PROVE  [Jobs!Next]_(Jobs!vars)
<1>1. Src(w) \in Source /\ Src(w) \in accepted /\ out[w].body.src = Src(w)
  BY DEF Tracked, TypeOK, WorkerOK, Message, Body, Src
<1>2. CASE out[w].code = "processing-failed"
  <2>1. \A s \in Source : Archived(s)' = Archived(s)
    BY <1>2 DEF Archived
  <2> QED BY <2>1 DEF Jobs!vars, openJobs, outcomesOf
<1>3. CASE out[w].code # "processing-failed"
  <2>1. \A s \in Source : Archived(s)' <=> Archived(s) \/ s = Src(w)
    BY <1>1, <1>3 DEF Archived
  <2>2. outcomesOf' = [outcomesOf EXCEPT ![Src(w)] = @ \cup {"archived"}]
    BY <1>1, <2>1 DEF outcomesOf
  <2>3. Jobs!Record(Src(w), "archived")
    BY <1>1, <2>2 DEF Jobs!Record, openJobs, outcomesOf
  <2> QED BY <1>1, <2>3 DEF Jobs!Next, Jobs!Outcome
<1> QED BY <1>2, <1>3

\* Giving a delivery back closes and opens nothing.
LEMMA GiveBackSame ==
  ASSUME TypeOK, NEW w \in Worker, GiveBack(w)
  PROVE  UNCHANGED openJobs
<1>1. copy' = copy /\ \A i \in Id : queue'[i] # "free" <=> queue[i] # "free"
  BY DEF GiveBack, TypeOK, HoldOK, BrokerOK
<1> QED BY <1>1, SameOpen DEF LiveCopy

\* The end of a delivery closes the job if that was its last copy.
LEMMA RemoveCloses ==
  ASSUME TypeOK, Tracked, NothingSilent, NEW w \in Worker, pc[w] = "ack", Live(w),
         RemoveCopy(tag[w]), UNCHANGED <<harmony, archive, accepted>>
  PROVE  [Jobs!Next]_(Jobs!vars)
<1> DEFINE s == Src(w)
<1>1. tag[w] \in Id /\ queue[tag[w]] = "unacked" /\ copy[tag[w]].body.src = s
      /\ s \in Source /\ s \in accepted
  BY DEF TypeOK, HoldOK, WorkerOK, Live, Src, Tracked, Message, Body
<1>2. PICK i \in Id : i = tag[w]
  BY <1>1
<1>3. \A k \in Id : k # i => queue'[k] = queue[k] /\ copy'[k] = copy[k]
  BY <1>2 DEF RemoveCopy, TypeOK, BrokerOK
<1>4. queue'[i] = "free"
  BY <1>2 DEF RemoveCopy, TypeOK, BrokerOK
<1>5. outcomesOf' = outcomesOf
  BY DEF outcomesOf, Archived
<1>6. CASE \E k \in Id : k # i /\ queue[k] # "free" /\ copy[k].body.src = s
  <2>1. \A t \in Source : LiveCopy(t) <=> LiveCopy(t)'
    BY <1>1, <1>2, <1>3, <1>4, <1>6 DEF LiveCopy
  <2> QED BY <1>5, <2>1, SameOpen DEF Jobs!vars, openJobs, outcomesOf
<1>7. CASE ~\E k \in Id : k # i /\ queue[k] # "free" /\ copy[k].body.src = s
  <2>1. openJobs' = openJobs \ {s}
    BY <1>1, <1>2, <1>3, <1>4, <1>7 DEF openJobs, LiveCopy
  <2>2. ~\E k \in Id : Pending(s, k)
    BY <1>2, <1>7 DEF Pending, Acking
  <2>3. outcomesOf[s] # {}
    BY <1>1, <2>2 DEF NothingSilent, Accounted, outcomesOf
  <2>4. s \in openJobs
    BY <1>1 DEF openJobs, LiveCopy
  <2>5. Jobs!Close(s)
    BY <1>5, <2>1, <2>3, <2>4 DEF Jobs!Close, openJobs, outcomesOf
  <2> QED BY <1>1, <2>5 DEF Jobs!Next
<1> QED BY <1>6, <1>7

\* A copy that joins one of the same source opens no job.
LEMMA NewCopySame ==
  ASSUME TypeOK, NEW q, q # "free", NEW m, PutCopy(q, m),
         NEW i \in Id, queue[i] # "free", copy[i].body.src = m.body.src
  PROVE  UNCHANGED openJobs
<1>1. PICK j \in Id : /\ queue[j] = "free" /\ queue' = [queue EXCEPT ![j] = q]
                      /\ copy' = [copy EXCEPT ![j] = m]
  BY NewCopyIsFree DEF PutCopy
<1>2. \A k \in Id : k # j => queue'[k] = queue[k] /\ copy'[k] = copy[k]
  BY <1>1 DEF TypeOK, BrokerOK
<1>3. queue'[j] = q /\ copy'[j] = m /\ i # j
  BY <1>1 DEF TypeOK, BrokerOK
<1>4. \A s \in Source : LiveCopy(s) <=> LiveCopy(s)'
  BY <1>1, <1>2, <1>3 DEF LiveCopy
<1> QED BY <1>4, SameOpen

\* Steps of a worker.
LEMMA WorkerImplements ==
  ASSUME TypeOK, Tracked, NothingSilent, NEW w \in Worker, Handle(w) \/ Settle(w) \/ Fail(w)
  PROVE  [Jobs!Next]_(Jobs!vars)
<1>0. Live(w) => /\ tag[w] \in Id /\ queue[tag[w]] = "unacked"
                 /\ copy[tag[w]] = msg[w]
  BY DEF TypeOK, HoldOK, WorkerOK, Live
<1>a. ASSUME UNCHANGED <<harmony, archive, accepted, openJobs>>
      PROVE  UNCHANGED Jobs!vars
  BY <1>a DEF Jobs!vars, openJobs, outcomesOf, Archived
<1>1. CASE Handle(w)
  <2>1. /\ pc[w] \in Active /\ UNCHANGED <<archive, accepted>> /\ Reported(w)
        /\ Onward(w) \/ RequeueAndStop(w)
    BY <1>1, HandleEffect
  <2>2. Onward(w) => UNCHANGED openJobs
    BY DEF Onward, openJobs, LiveCopy
  <2>3. RequeueAndStop(w) => UNCHANGED openJobs
    BY GiveBackSame DEF RequeueAndStop
  <2> QED BY <2>1, <2>2, <2>3, ReportRecords
<1>2. CASE ConfirmRetry(w)
  <2>1. out[w].body.src = Src(w) /\ PutCopy("retry", out[w])
        /\ UNCHANGED <<harmony, archive, accepted>>
    BY <1>2 DEF ConfirmRetry, Tracked
  <2>2. UNCHANGED openJobs
    BY <1>0, <1>2, <2>1, NewCopySame DEF ConfirmRetry, Src
  <2> QED BY <1>a, <2>1, <2>2
<1>3. CASE ConfirmArchive(w)
  <2>1. UNCHANGED openJobs
    <3>1. UNCHANGED broker => UNCHANGED openJobs
      BY DEF broker, openJobs, LiveCopy
    <3>2. RequeueAndStop(w) => UNCHANGED openJobs
      BY GiveBackSame DEF RequeueAndStop
    <3> QED BY <1>3, <3>1, <3>2 DEF ConfirmArchive
  <2> QED BY <1>3, <2>1, ArchiveRecords DEF ConfirmArchive
<1>4. CASE PublishFails(w)
  BY <1>4, <1>a, GiveBackSame DEF PublishFails, RequeueAndStop
<1>5. CASE Ack(w)
  BY <1>5, RemoveCloses DEF Ack
<1>6. CASE AckFails(w)
  <2>1. ~Live(w) /\ UNCHANGED broker => UNCHANGED openJobs
    BY DEF broker, openJobs, LiveCopy
  <2> QED BY <1>6, <1>a, <2>1, GiveBackSame, RemoveCloses DEF AckFails
<1>7. CASE ConfirmLost(w)
  <2>1. CASE pc[w] = "publish_archive"
    <3>1. GiveBack(w)
      BY <1>7, <2>1 DEF ConfirmLost, GiveBack
    <3>2. UNCHANGED openJobs
      BY <3>1, GiveBackSame
    <3> QED BY <1>7, <2>1, <3>2, ArchiveRecords DEF ConfirmLost
  <2>2. CASE pc[w] = "publish_retry"
    <3>1. PICK i \in Id : i = tag[w] /\ queue[i] = "unacked"
                          /\ copy[i].body.src = Src(w) /\ out[w].body.src = Src(w)
      BY <1>0, <1>7, <2>2 DEF ConfirmLost, Tracked, Src
    <3>2. PICK j \in Id :
            /\ queue[j] = "free"
            /\ queue' = [queue EXCEPT ![j] = "retry", ![tag[w]] = "main"]
            /\ copy' = [copy EXCEPT ![j] = out[w]]
            /\ UNCHANGED <<harmony, archive, accepted>>
      BY <1>7, <2>2, NewCopyIsFree DEF ConfirmLost
    <3>3. /\ i # j /\ queue'[i] = "main" /\ copy'[i] = copy[i]
          /\ queue'[j] = "retry" /\ copy'[j].body.src = Src(w)
      BY <3>1, <3>2 DEF TypeOK, BrokerOK
    <3>4. \A k \in Id : k \notin {i, j} => queue'[k] = queue[k] /\ copy'[k] = copy[k]
      BY <3>1, <3>2 DEF TypeOK, BrokerOK
    <3>5. ASSUME NEW s \in Source
          PROVE  LiveCopy(s) <=> LiveCopy(s)'
      <4>1. CASE s = Src(w)
        <5>1. LiveCopy(s)
          BY <3>1, <4>1 DEF LiveCopy
        <5>2. queue'[j] # "free" /\ copy'[j].body.src = s
          BY <3>3, <4>1
        <5> QED BY <5>1, <5>2 DEF LiveCopy
      <4>2. CASE s # Src(w)
        <5>1. copy[i].body.src # s /\ copy'[i].body.src # s
          BY <3>1, <3>3, <4>2
        <5>2. queue[j] = "free" /\ copy'[j].body.src # s
          BY <3>2, <3>3, <4>2
        <5> QED BY <3>4, <5>1, <5>2 DEF LiveCopy
      <4> QED BY <4>1, <4>2
    <3> QED BY <1>a, <3>2, <3>5, SameOpen
  <2> QED BY <1>7, <2>1, <2>2 DEF ConfirmLost
<1>8. CASE Disconnect(w)
  BY <1>8, <1>a, GiveBackSame DEF Disconnect
<1>9. CASE Crash(w)
  BY <1>9, <1>a, GiveBackSame DEF Crash, RequeueAndStop
<1> QED BY <1>1, <1>2, <1>3, <1>4, <1>5, <1>6, <1>7, <1>8, <1>9 DEF Settle, Fail

\* Every step of the system is a step of the abstract specification, or none.
LEMMA NextImplements ==
  TypeOK /\ Tracked /\ NothingSilent /\ [Next]_vars => [Jobs!Next]_(Jobs!vars)
<1> SUFFICES ASSUME TypeOK, Tracked, NothingSilent, [Next]_vars
             PROVE  [Jobs!Next]_(Jobs!vars)
  OBVIOUS
<1>a. ASSUME UNCHANGED <<harmony, archive, accepted, openJobs>>
      PROVE  UNCHANGED Jobs!vars
  BY <1>a DEF Jobs!vars, openJobs, outcomesOf, Archived
<1>1. ASSUME NEW s \in Source, Accept(s)
      PROVE  Jobs!Next
  <2>1. PICK j \in Id :
          /\ queue[j] = "free" /\ queue' = [queue EXCEPT ![j] = "main"]
          /\ copy' = [copy EXCEPT ![j] = SourceMessage(s)]
    BY <1>1, NewCopyIsFree DEF Accept, PutCopy
  <2>2. SourceMessage(s).body.src = s
    BY DEF SourceMessage
  <2>3. queue'[j] = "main" /\ copy'[j].body.src = s
        /\ \A k \in Id : k # j => queue'[k] = queue[k] /\ copy'[k] = copy[k]
    BY <2>1, <2>2 DEF TypeOK, BrokerOK
  <2>4. openJobs' = openJobs \cup {s}
    BY <2>1, <2>3 DEF openJobs, LiveCopy
  <2>5. outcomesOf' = outcomesOf
    BY <1>1 DEF Accept, outcomesOf, Archived
  <2> QED BY <1>1, <2>4, <2>5 DEF Accept, Jobs!Next, Jobs!Accept, openJobs, outcomesOf
<1>2. ASSUME NEW w \in Worker, Connect(w)
      PROVE  UNCHANGED Jobs!vars
  BY <1>2, <1>a DEF Connect, broker, openJobs, LiveCopy
<1>3. ASSUME NEW w \in Worker, NEW i \in Id, Deliver(w, i)
      PROVE  UNCHANGED Jobs!vars
  <2>1. copy' = copy /\ \A k \in Id : queue'[k] # "free" <=> queue[k] # "free"
    BY <1>3 DEF Deliver, TypeOK, BrokerOK
  <2> QED BY <1>3, <1>a, <2>1, SameOpen DEF Deliver, LiveCopy
<1>4. ASSUME NEW i \in Id, Expire(i)
      PROVE  UNCHANGED Jobs!vars
  <2>1. copy[i] \in Message
    BY <1>4 DEF Expire, TypeOK, BrokerOK
  <2>2. \A k \in Id : queue'[k] # "free" <=> queue[k] # "free"
    BY <1>4 DEF Expire, TypeOK, BrokerOK
  <2>3. \A k \in Id : queue[k] # "free" => copy'[k].body = copy[k].body
    BY <1>4, <2>1 DEF Expire, TypeOK, BrokerOK, Message
  <2> QED BY <1>4, <1>a, <2>2, <2>3, SameOpen DEF Expire, LiveCopy
<1>5. ASSUME NEW i \in Id, ExpireTwice(i)
      PROVE  UNCHANGED Jobs!vars
  <2>1. [copy[i] EXCEPT !.died = TRUE].body.src = copy[i].body.src
    BY <1>5 DEF ExpireTwice, TypeOK, BrokerOK, Message
  <2> QED BY <1>5, <1>a, <2>1, NewCopySame DEF ExpireTwice
<1>6. CASE UNCHANGED vars
  BY <1>6, <1>a DEF vars, openJobs, LiveCopy
<1> QED BY <1>1, <1>2, <1>3, <1>4, <1>5, <1>6, WorkerImplements DEF Next

\* The worker implements the promise of DocumentJobs: a request leaves the broker only
\* when Harmony has a verdict or the archive an envelope, no outcome is withdrawn,
\* and no job that left the broker comes back.
THEOREM Implements == Spec => ImplementsJobs
<1>1. Init => Jobs!Init
  BY DEF Init, Jobs!Init, LiveCopy, Archived
<1>2. Init => Tracked /\ NothingSilent
  BY DEF Init, Tracked, NothingSilent, Active
<1> QED BY <1>1, <1>2, InitTypeOK, NextTypeOK, NextSafe, NextImplements, PTL
        DEF Spec, ImplementsJobs, Jobs!Spec
=============================================================================
