--------------------------- MODULE DocumentWorker ---------------------------
(***************************************************************************)
(* The RabbitMQ document worker, worker/doc_worker/worker.py, with the     *)
(* broker that feeds it, the document storage it writes to and the Harmony *)
(* service it reports to.                                                  *)
(*                                                                         *)
(* A worker holds one unacknowledged delivery at a time (prefetch 1).  It  *)
(* renders and stores the document, reports it, publishes a retry or an    *)
(* archive envelope when something failed, and acknowledges the delivery   *)
(* last.  Each of those effects is a step, because the connection, the     *)
(* process or the peer may fail between any two of them, and because a     *)
(* connection that dies under a running handler gives its delivery to      *)
(* another worker while the first one goes on.                             *)
(*                                                                         *)
(* The order of the queues is abstracted: any message of the main queue    *)
(* may be delivered, any message of the retry queue may expire.            *)
(***************************************************************************)
EXTENDS Naturals, FiniteSets

CONSTANTS
  Source,           \* document requests that the producer may send
  Batch,            \* bound on those it sends: the sets of requests in one behaviour
  KindOf,           \* what the request of each source looks like
  Worker,           \* worker processes that share the queues
  Id,               \* places for message copies in the broker
  MaxRetries,       \* document_max_retries of each worker's settings
  RetryMax,         \* document_retry_max_messages (x-max-length)
  StorageMode,      \* document_storage_mode, "local" or "s3"
  CallbackOutcome,  \* how a call to Harmony may end
  MaxFaults,        \* bound on broker and process failures
  TriesCap,         \* bound on the ghost counter tries
  NoTag, NoMsg, NoOut, NoSignature

PermanentKind == {"message-too-large", "invalid-json", "invalid-document"}

\* "uncaught": json.loads (an integer literal above the interpreter's digit limit) or
\* urlparse (an evidence URL with an open bracket) raises a plain ValueError, which no
\* except clause of the parser names.
\* "unsigned-state": the producer set worker-internal headers.
SourceKind == PermanentKind \cup {"valid", "uncaught", "unsigned-state"}

ASSUME KindAssumption == KindOf \in [Source -> SourceKind]
ASSUME RetryAssumption == MaxRetries \in [Worker -> Nat] /\ RetryMax \in Nat \ {0}
ASSUME StorageAssumption == StorageMode \in {"local", "s3"}
ASSUME OutcomeAssumption == CallbackOutcome \subseteq {"ok", "error", "garbled"}
ASSUME BoundAssumption == MaxFaults \in Nat /\ TriesCap \in Nat
ASSUME NoTagAssumption == NoTag \notin Id

VARIABLES
  queue,     \* where each copy is: free, main, retry, or unacked by a worker
  copy,      \* the message of each copy
  pc,        \* what each worker does next
  tag,       \* the delivery tag its channel still honours, or NoTag
  msg,       \* the message its handler works on
  out,       \* the retry message or archive envelope it is about to publish
  files,     \* sources whose PDF is in the shared output directory
  objects,   \* sources whose PDF is stored in the bucket
  harmony,   \* terminal statuses Harmony has received for each source
  archive,   \* archive envelopes the broker has confirmed
  accepted,  \* sources whose request the broker has taken
  repeated,  \* ghost: requests put back in the queue without being settled
  tries,     \* ghost: how often a request entered _handle, capped by TriesCap
  faults     \* failures so far

broker == <<queue, copy>>
store == <<files, objects>>
vars == <<queue, copy, pc, tag, msg, out, files, objects, harmony, archive,
          accepted, repeated, tries, faults>>

-----------------------------------------------------------------------------
(* Messages.                                                               *)

Mode == {"none", "success", "failure"}
Body == [src : Source, what : {"source", "success", "failure"}]
Signature == [body : Body, attempt : Nat, mode : Mode]
Message == [body : Body, attempt : Nat, mode : Mode,
            sig : Signature \cup {NoSignature}, died : BOOLEAN]

ArchiveFailureCode ==
  PermanentKind \cup {"processing-failed", "callback-failed", "invalid-retry-state"}
Envelope == [body : Body, attempts : Nat, code : ArchiveFailureCode]

ASSUME NoSignatureAssumption == NoSignature \notin Signature

\* The HMAC of a body, its attempt and its mode: only a worker can make one.
RetrySignature(b, k, mode) == [body |-> b, attempt |-> k, mode |-> mode]

\* Mutant: the signature covers the attempt that failed, not the one announced.
RetryMessageStale(b, k, mode) ==
  [body |-> b, attempt |-> k, mode |-> mode,
   sig |-> RetrySignature(b, k - 1, mode), died |-> FALSE]

\* _retry_headers: the attempt, the callback mode if any, and their signature.
RetryMessage(b, k, mode) ==
  [body |-> b, attempt |-> k, mode |-> mode,
   sig |-> RetrySignature(b, k, mode), died |-> FALSE]

\* What the producer puts on the main queue.
SourceMessage(s) ==
  [body |-> [src |-> s, what |-> "source"],
   attempt |-> IF KindOf[s] = "unsigned-state" THEN 1 ELSE 0,
   mode |-> "none", sig |-> NoSignature, died |-> KindOf[s] = "unsigned-state"]

\* _attempt: an attempt counts only when it is in range, signed, and the message
\* has come back through the retry queue.
Attempt(w, m) ==
  IF /\ m.attempt \in 1..MaxRetries[w]
     /\ m.sig = RetrySignature(m.body, m.attempt, m.mode)
     /\ m.died
  THEN m.attempt ELSE 0

HasRetryState(m) == m.attempt # 0 \/ m.mode # "none" \/ m.sig # NoSignature

\* _callback_mode raises InvalidRetryStateError.
InvalidRetryState(w, m) == Attempt(w, m) = 0 /\ HasRetryState(m)

\* _callback_mode otherwise.
CallbackMode(w, m) == IF Attempt(w, m) = 0 THEN "none" ELSE m.mode

\* _archive_body: the attempts are clamped to 1 .. max_retries + 1.
ArchiveBody(w, b, k, code) ==
  [body |-> b, code |-> code,
   attempts |-> IF k < 1 THEN 1 ELSE IF k > MaxRetries[w] + 1 THEN MaxRetries[w] + 1 ELSE k]

ReportedStatus(mode) == IF mode = "success" THEN "done" ELSE "failed"

-----------------------------------------------------------------------------
(* The broker, and the steps that all handlers share.                      *)

Src(w) == msg[w].body.src
Live(w) == tag[w] # NoTag
Free == {i \in Id : queue[i] = "free"}
InRetry == {i \in Id : queue[i] = "retry"}
NewCopy == CHOOSE i \in Free : TRUE

PutCopy(q, m) == /\ Free # {}
                 /\ queue' = [queue EXCEPT ![NewCopy] = q]
                 /\ copy' = [copy EXCEPT ![NewCopy] = m]

RemoveCopy(i) == /\ queue' = [queue EXCEPT ![i] = "free"]
                 /\ copy' = [copy EXCEPT ![i] = NoMsg]

\* A request that goes back to the queue is processed again from its start.
Repeat(m) == repeated' = IF m.body.what = "source"
                         THEN repeated \cup {m.body.src} ELSE repeated

\* The channel and connection are gone; the outer loop of start() will reconnect.
Stop(w) == /\ pc' = [pc EXCEPT ![w] = "down"]
           /\ tag' = [tag EXCEPT ![w] = NoTag]
           /\ msg' = [msg EXCEPT ![w] = NoMsg]
           /\ out' = [out EXCEPT ![w] = NoOut]

\* Mutant: the delivery is rejected without requeue.
GiveBackDropped(w) ==
  IF Live(w) THEN RemoveCopy(tag[w]) /\ Repeat(msg[w])
             ELSE UNCHANGED <<queue, copy, repeated>>

\* What the broker does with the delivery of a nacked, closed or lost channel.
GiveBack(w) ==
  IF Live(w) THEN /\ queue' = [queue EXCEPT ![tag[w]] = "main"]
                  /\ UNCHANGED copy
                  /\ Repeat(msg[w])
             ELSE UNCHANGED <<queue, copy, repeated>>

RequeueAndStop(w) == GiveBack(w) /\ Stop(w)

PublishNext(w, step, o) == /\ pc' = [pc EXCEPT ![w] = step]
                           /\ out' = [out EXCEPT ![w] = o]

Goto(w, step) == PublishNext(w, step, NoOut)

RetryNext(w, b, k, mode) == PublishNext(w, "publish_retry", RetryMessage(b, k, mode))

ArchiveNext(w, b, k, code) ==
  PublishNext(w, "publish_archive", ArchiveBody(w, b, k, code))

\* Mutant: gives up one attempt early.
MayRetryOneLess(w, k) == k + 1 < MaxRetries[w]

MayRetry(w, k) == k < MaxRetries[w]

\* Mutant: the envelope of a callback that failed blames the processing.
SettleCallbackFailureMiscoded(w, b, mode, k) ==
  IF MayRetry(w, k) THEN RetryNext(w, b, k + 1, mode)
                    ELSE ArchiveNext(w, b, k + 1, "processing-failed")

SettleCallbackFailure(w, b, mode, k) ==
  IF MayRetry(w, k) THEN RetryNext(w, b, k + 1, mode)
                    ELSE ArchiveNext(w, b, k + 1, "callback-failed")

\* Mutant: the retry of a request starts counting anew.
SettleProcessingFailureAnew(w) ==
  LET k == Attempt(w, msg[w])
  IN  IF MayRetry(w, k) THEN RetryNext(w, msg[w].body, 1, "none")
                        ELSE ArchiveNext(w, msg[w].body, k + 1, "processing-failed")

\* Mutant: an exhausted request is reported before its envelope is published.
SettleProcessingFailureUnarchived(w) ==
  LET k == Attempt(w, msg[w])
  IN  IF MayRetry(w, k) THEN RetryNext(w, msg[w].body, k + 1, "none")
                        ELSE Goto(w, "notify_failure")

SettleProcessingFailure(w) ==
  LET k == Attempt(w, msg[w])
  IN  IF MayRetry(w, k) THEN RetryNext(w, msg[w].body, k + 1, "none")
                        ELSE ArchiveNext(w, msg[w].body, k + 1, "processing-failed")

-----------------------------------------------------------------------------
(* Producer, connection and delivery.                                      *)

Accept(s) ==
  /\ s \notin accepted /\ accepted \cup {s} \in Batch
  /\ PutCopy("main", SourceMessage(s))
  /\ accepted' = accepted \cup {s}
  /\ UNCHANGED <<pc, tag, msg, out, store, harmony, archive, repeated, tries, faults>>

\* start(): connect, declare the topology, consume with prefetch 1.
Connect(w) ==
  /\ pc[w] = "down"
  /\ pc' = [pc EXCEPT ![w] = "idle"]
  /\ UNCHANGED <<broker, tag, msg, out, store, harmony, archive, accepted, repeated,
                 tries, faults>>

\* _consume takes a delivery and decides by its headers what to do with it.
Deliver(w, i) ==
  /\ pc[w] = "idle" /\ queue[i] = "main"
  /\ queue' = [queue EXCEPT ![i] = "unacked"]
  /\ tag' = [tag EXCEPT ![w] = i]
  /\ msg' = [msg EXCEPT ![w] = copy[i]]
  /\ LET m == copy[i] IN
     \/ /\ InvalidRetryState(w, m)
        /\ ArchiveNext(w, m.body, 1, "invalid-retry-state")
        /\ UNCHANGED tries
     \/ /\ ~InvalidRetryState(w, m) /\ CallbackMode(w, m) = "none"
        /\ Goto(w, "render")
        /\ tries' = [tries EXCEPT ![m.body.src] = IF @ < TriesCap THEN @ + 1 ELSE @]
     \/ /\ ~InvalidRetryState(w, m) /\ CallbackMode(w, m) # "none"
        /\ Goto(w, "callback")
        /\ UNCHANGED tries
  /\ UNCHANGED <<copy, store, harmony, archive, accepted, repeated, faults>>

\* The retry queue dead-letters an expired message to the main queue.
Expire(i) ==
  /\ queue[i] = "retry"
  /\ queue' = [queue EXCEPT ![i] = "main"]
  /\ copy' = [copy EXCEPT ![i].died = TRUE]
  /\ UNCHANGED <<pc, tag, msg, out, store, harmony, archive, accepted, repeated,
                 tries, faults>>

\* At-least-once dead-lettering: the main queue takes the message, its confirm is
\* lost, and the retry queue keeps the message.
ExpireTwice(i) ==
  /\ queue[i] = "retry" /\ faults < MaxFaults
  /\ PutCopy("main", [copy[i] EXCEPT !.died = TRUE])
  /\ Repeat(copy[i])
  /\ faults' = faults + 1
  /\ UNCHANGED <<pc, tag, msg, out, store, harmony, archive, accepted, tries>>

-----------------------------------------------------------------------------
(* _handle, one step per effect.                                           *)

\* Mutant: a refused request is logged and acknowledged.
RejectRequestUnarchived(w) ==
  /\ pc[w] = "render" /\ KindOf[Src(w)] \in PermanentKind
  /\ Goto(w, "ack")
  /\ UNCHANGED <<broker, tag, msg, store, harmony, archive, accepted, repeated,
                 tries, faults>>

\* The size, JSON and contract checks: PermanentDocumentError.
RejectRequest(w) ==
  /\ pc[w] = "render" /\ KindOf[Src(w)] \in PermanentKind
  /\ ArchiveNext(w, msg[w].body, 1, KindOf[Src(w)])
  /\ UNCHANGED <<broker, tag, msg, store, harmony, archive, accepted, repeated,
                 tries, faults>>

\* The parser raises what neither except clause of _handle catches.
RequestUncaught(w) ==
  /\ pc[w] = "render" /\ KindOf[Src(w)] = "uncaught"
  /\ SettleProcessingFailure(w)
  /\ UNCHANGED <<broker, tag, msg, store, harmony, archive, accepted, repeated,
                 tries, faults>>

\* render_document installs the PDF, or finds the same one there.
Render(w) ==
  /\ pc[w] = "render" /\ KindOf[Src(w)] = "valid"
  /\ files' = files \cup {Src(w)}
  /\ Goto(w, "publish")
  /\ UNCHANGED <<broker, tag, msg, objects, harmony, archive, accepted, repeated,
                 tries, faults>>

\* It fails before the link, or after it (the directory could not be synced).
RenderFails(w) ==
  /\ pc[w] = "render" /\ KindOf[Src(w)] = "valid"
  /\ files' \in {files, files \cup {Src(w)}}
  /\ SettleProcessingFailure(w)
  /\ UNCHANGED <<broker, tag, msg, objects, harmony, archive, accepted, repeated,
                 tries, faults>>

\* Mutants: the staging copy is left behind; it is removed in local mode too.
AfterPublishKeep == "notify"
AfterPublishRemove == "unlink"

AfterPublish == IF StorageMode = "s3" THEN "unlink" ELSE "notify"

\* publish_document reads the file and, in s3 mode, leaves one object for it.
PublishDocument(w) ==
  /\ pc[w] = "publish" /\ Src(w) \in files
  /\ objects' = IF StorageMode = "s3" THEN objects \cup {Src(w)} ELSE objects
  /\ Goto(w, AfterPublish)
  /\ UNCHANGED <<broker, tag, msg, files, harmony, archive, accepted, repeated,
                 tries, faults>>

\* Mutant: a failed upload is logged and the job goes on.
PublishDocumentIgnored(w) ==
  /\ pc[w] = "publish"
  /\ Goto(w, AfterPublish)
  /\ UNCHANGED <<broker, tag, msg, store, harmony, archive, accepted, repeated,
                 tries, faults>>

\* It fails: the file is gone or unreadable, the upload or its check failed.  An
\* upload may have been applied all the same.
PublishDocumentFails(w) ==
  /\ pc[w] = "publish"
  /\ objects' \in IF StorageMode = "s3" /\ Src(w) \in files
                  THEN {objects, objects \cup {Src(w)}} ELSE {objects}
  /\ SettleProcessingFailure(w)
  /\ UNCHANGED <<broker, tag, msg, files, harmony, archive, accepted, repeated,
                 tries, faults>>

\* Path(path).unlink(missing_ok=True), s3 mode only.
Unlink(w) ==
  /\ pc[w] = "unlink"
  /\ files' = files \ {Src(w)}
  /\ Goto(w, "notify")
  /\ UNCHANGED <<broker, tag, msg, objects, harmony, archive, accepted, repeated,
                 tries, faults>>

UnlinkFails(w) ==
  /\ pc[w] = "unlink"
  /\ SettleProcessingFailure(w)
  /\ UNCHANGED <<broker, tag, msg, store, harmony, archive, accepted, repeated,
                 tries, faults>>

-----------------------------------------------------------------------------
(* Calls to Harmony.                                                       *)

Report(w, mode) ==
  harmony' = [harmony EXCEPT ![Src(w)] = @ \cup {ReportedStatus(mode)}]

\* A call that fails may have reached Harmony all the same.
MayReport(w, mode) == Report(w, mode) \/ UNCHANGED harmony

\* Mutant: the RuntimeError of a failed success callback is not told apart.
NotifySuccessAsProcessing(w) ==
  /\ pc[w] = "notify"
  /\ \/ Report(w, "success") /\ Goto(w, "ack")
     \/ MayReport(w, "success") /\ SettleProcessingFailure(w)
  /\ UNCHANGED <<broker, tag, msg, store, archive, accepted, repeated, tries, faults>>

\* The end of _handle.  _post_callback turns what it knows into RuntimeError, which
\* becomes a success continuation; a garbled response (http.client.HTTPException)
\* is not in its list and is settled as a processing failure of the request.
NotifySuccess(w) ==
  /\ pc[w] = "notify"
  /\ \/ /\ "ok" \in CallbackOutcome
        /\ Report(w, "success")
        /\ Goto(w, "ack")
        /\ UNCHANGED repeated
     \/ /\ "error" \in CallbackOutcome
        /\ MayReport(w, "success")
        /\ SettleCallbackFailure(w, [src |-> Src(w), what |-> "success"], "success", 0)
        /\ UNCHANGED repeated
     \/ /\ "garbled" \in CallbackOutcome
        /\ MayReport(w, "success")
        /\ SettleProcessingFailure(w)
        /\ Repeat(msg[w])
  /\ UNCHANGED <<broker, tag, msg, store, archive, accepted, tries, faults>>

\* Mutant: the retry of a callback announces the attempt that just failed.
DeliverCallbackSameAttempt(w) ==
  LET m == msg[w]  mode == CallbackMode(w, m)  k == Attempt(w, m) IN
  /\ pc[w] = "callback"
  /\ \/ Report(w, mode) /\ Goto(w, "ack")
     \/ MayReport(w, mode) /\ SettleCallbackFailure(w, m.body, mode, k - 1)
  /\ UNCHANGED <<broker, tag, msg, store, archive, accepted, repeated, tries, faults>>

\* _deliver_callback on a continuation: any exception, that of a body which does
\* not decode for its mode included, is a callback failure.
DeliverCallback(w) ==
  LET m == msg[w]  mode == CallbackMode(w, m)  k == Attempt(w, m)
      decodes == m.body.what = mode IN
  /\ pc[w] = "callback"
  /\ \/ /\ decodes /\ "ok" \in CallbackOutcome
        /\ Report(w, mode)
        /\ Goto(w, "ack")
     \/ /\ ~decodes \/ CallbackOutcome \cap {"error", "garbled"} # {}
        /\ (decodes /\ Report(w, mode)) \/ UNCHANGED harmony
        /\ SettleCallbackFailure(w, m.body, mode, k)
  /\ UNCHANGED <<broker, tag, msg, store, archive, accepted, repeated, tries, faults>>

\* _settle_processing_failure after its archive: report the job as failed.  When that
\* fails, a failure continuation takes over; an exception that is not a
\* RuntimeError gives the request itself back to the queue.
NotifyFailure(w) ==
  LET b == [src |-> Src(w), what |-> "failure"] IN
  /\ pc[w] = "notify_failure"
  /\ \/ /\ "ok" \in CallbackOutcome
        /\ Report(w, "failure")
        /\ Goto(w, "ack")
        /\ UNCHANGED <<broker, tag, msg, repeated>>
     \/ /\ "error" \in CallbackOutcome
        /\ MayReport(w, "failure")
        /\ IF MaxRetries[w] > 0 THEN RetryNext(w, b, 1, "failure")
                                ELSE ArchiveNext(w, b, 1, "callback-failed")
        /\ UNCHANGED <<broker, tag, msg, repeated>>
     \/ /\ "garbled" \in CallbackOutcome
        /\ MayReport(w, "failure")
        /\ RequeueAndStop(w)
  /\ UNCHANGED <<store, archive, accepted, tries, faults>>

-----------------------------------------------------------------------------
(* Publishing with confirms, and acknowledging.                            *)

\* Mutant: the delivery is given back although its retry was published.
ConfirmRetryGivenBack(w) ==
  /\ pc[w] = "publish_retry" /\ Live(w)
  /\ Free # {} /\ Cardinality(InRetry) < RetryMax
  /\ queue' = [queue EXCEPT ![NewCopy] = "retry", ![tag[w]] = "main"]
  /\ copy' = [copy EXCEPT ![NewCopy] = out[w]]
  /\ Repeat(msg[w]) /\ Stop(w)
  /\ UNCHANGED <<store, harmony, archive, accepted, tries, faults>>

\* The retry queue takes the message: it is bounded, and rejects when full.
ConfirmRetry(w) ==
  /\ pc[w] = "publish_retry" /\ Live(w)
  /\ Cardinality(InRetry) < RetryMax
  /\ PutCopy("retry", out[w])
  /\ Goto(w, "ack")
  /\ UNCHANGED <<tag, msg, store, harmony, archive, accepted, repeated, tries, faults>>

\* The archive never rejects.  The archive of an exhausted request is followed by
\* _trusted_job_id, which parses the body again: a valid request is reported, and a
\* body the parser raised for raises once more, into the handler that requeues.
ConfirmArchive(w) ==
  /\ pc[w] = "publish_archive" /\ Live(w)
  /\ archive' = archive \cup {out[w]}
  /\ \/ /\ out[w].code # "processing-failed"
        /\ Goto(w, "ack")
        /\ UNCHANGED <<broker, tag, msg, repeated>>
     \/ /\ out[w].code = "processing-failed" /\ KindOf[Src(w)] # "uncaught"
        /\ Goto(w, "notify_failure")
        /\ UNCHANGED <<broker, tag, msg, repeated>>
     \/ /\ out[w].code = "processing-failed" /\ KindOf[Src(w)] = "uncaught"
        /\ RequeueAndStop(w)
  /\ UNCHANGED <<store, harmony, accepted, tries, faults>>

\* Mutant: a failed publication is logged and the delivery acknowledged.
PublishFailsIgnored(w) ==
  /\ pc[w] \in {"publish_retry", "publish_archive"}
  /\ Goto(w, "ack")
  /\ UNCHANGED <<broker, tag, msg, store, harmony, archive, accepted, repeated,
                 tries, faults>>

\* basic_publish raises (nack, full queue, timeout, closed channel), nothing is queued.
PublishFails(w) ==
  /\ pc[w] \in {"publish_retry", "publish_archive"}
  /\ RequeueAndStop(w)
  /\ UNCHANGED <<store, harmony, archive, accepted, tries, faults>>

\* The broker took the publication and its confirm is lost with the connection.
ConfirmLost(w) ==
  /\ Live(w) /\ faults < MaxFaults
  /\ \/ /\ pc[w] = "publish_retry"
        /\ Free # {} /\ Cardinality(InRetry) < RetryMax
        /\ queue' = [queue EXCEPT ![NewCopy] = "retry", ![tag[w]] = "main"]
        /\ copy' = [copy EXCEPT ![NewCopy] = out[w]]
        /\ UNCHANGED archive
     \/ /\ pc[w] = "publish_archive"
        /\ queue' = [queue EXCEPT ![tag[w]] = "main"]
        /\ archive' = archive \cup {out[w]}
        /\ UNCHANGED copy
  /\ Repeat(msg[w])
  /\ Stop(w)
  /\ faults' = faults + 1
  /\ UNCHANGED <<store, harmony, accepted, tries>>

\* Mutant: the handler's next delivery keeps the tag of the last one.
AckKeepsTag(w) ==
  /\ pc[w] = "ack" /\ Live(w)
  /\ RemoveCopy(tag[w])
  /\ pc' = [pc EXCEPT ![w] = "idle"]
  /\ UNCHANGED <<tag, msg, out, store, harmony, archive, accepted, repeated, tries, faults>>

Ack(w) ==
  /\ pc[w] = "ack" /\ Live(w)
  /\ RemoveCopy(tag[w])
  /\ pc' = [pc EXCEPT ![w] = "idle"]
  /\ tag' = [tag EXCEPT ![w] = NoTag]
  /\ msg' = [msg EXCEPT ![w] = NoMsg]
  /\ UNCHANGED <<out, store, harmony, archive, accepted, repeated, tries, faults>>

\* _ack_or_reconnect: the channel was gone already, or it breaks during the call, in
\* which case the broker may have taken the acknowledgement or not.
AckFails(w) ==
  /\ pc[w] = "ack"
  /\ \/ /\ ~Live(w)
        /\ UNCHANGED <<broker, repeated, faults>>
     \/ /\ Live(w) /\ faults < MaxFaults
        /\ faults' = faults + 1
        /\ \/ RemoveCopy(tag[w]) /\ UNCHANGED repeated
           \/ GiveBack(w)
  /\ Stop(w)
  /\ UNCHANGED <<store, harmony, archive, accepted, tries>>

-----------------------------------------------------------------------------
(* Failures.                                                               *)

\* The broker drops the connection of a busy worker (heartbeats are not answered
\* while a handler runs) and gives its delivery to the queue; the handler goes on.
Disconnect(w) ==
  /\ Live(w) /\ faults < MaxFaults
  /\ GiveBack(w)
  /\ tag' = [tag EXCEPT ![w] = NoTag]
  /\ faults' = faults + 1
  /\ UNCHANGED <<pc, msg, out, store, harmony, archive, accepted, tries>>

\* The process dies, or an idle worker loses its connection.
Crash(w) ==
  /\ pc[w] # "down" /\ faults < MaxFaults
  /\ RequeueAndStop(w)
  /\ faults' = faults + 1
  /\ UNCHANGED <<store, harmony, archive, accepted, tries>>

-----------------------------------------------------------------------------

Init ==
  /\ queue = [i \in Id |-> "free"] /\ copy = [i \in Id |-> NoMsg]
  /\ pc = [w \in Worker |-> "down"] /\ tag = [w \in Worker |-> NoTag]
  /\ msg = [w \in Worker |-> NoMsg] /\ out = [w \in Worker |-> NoOut]
  /\ files = {} /\ objects = {}
  /\ harmony = [s \in Source |-> {}] /\ archive = {}
  /\ accepted = {} /\ repeated = {}
  /\ tries = [s \in Source |-> 0] /\ faults = 0

Handle(w) == \/ RejectRequest(w) \/ RequestUncaught(w)
             \/ Render(w) \/ RenderFails(w)
             \/ PublishDocument(w) \/ PublishDocumentFails(w)
             \/ Unlink(w) \/ UnlinkFails(w)
             \/ NotifySuccess(w) \/ DeliverCallback(w) \/ NotifyFailure(w)

Settle(w) == ConfirmRetry(w) \/ ConfirmArchive(w) \/ PublishFails(w) \/ Ack(w) \/ AckFails(w)

Fail(w) == ConfirmLost(w) \/ Disconnect(w) \/ Crash(w)

Next ==
  \/ \E s \in Source : Accept(s)
  \/ \E w \in Worker : Connect(w) \/ Handle(w) \/ Settle(w) \/ Fail(w)
  \/ \E w \in Worker, i \in Id : Deliver(w, i)
  \/ \E i \in Id : Expire(i) \/ ExpireTwice(i)

Spec == Init /\ [][Next]_vars

ConfirmFailed(w) == ConfirmArchive(w) /\ out[w].code = "processing-failed"
ConfirmFinal(w) == ConfirmArchive(w) /\ out[w].code # "processing-failed"

\* A worker reconnects and its handler goes on (every call has a timeout).  The broker
\* delivers and expires, and takes what is published to it again and again: the retry
\* message, the envelope of an exhausted request, and any other envelope.
Fairness ==
  /\ \A w \in Worker : /\ WF_vars(Connect(w) \/ Handle(w) \/ Settle(w))
                       /\ SF_vars(ConfirmRetry(w))
                       /\ SF_vars(ConfirmFailed(w))
                       /\ SF_vars(ConfirmFinal(w))
  /\ \A i \in Id : /\ SF_vars(\E w \in Worker : Deliver(w, i))
                   /\ WF_vars(Expire(i))

FairSpec == Spec /\ Fairness

-----------------------------------------------------------------------------
(* Properties.                                                             *)

Active == {"render", "publish", "unlink", "notify", "callback", "publish_retry",
           "publish_archive", "notify_failure", "ack"}

BrokerOK ==
  /\ queue \in [Id -> {"free", "main", "retry", "unacked"}]
  /\ copy \in [Id -> Message \cup {NoMsg}]
  /\ \A i \in Id : queue[i] # "free" => copy[i] \in Message

WorkerOK ==
  /\ pc \in [Worker -> Active \cup {"down", "idle"}]
  /\ tag \in [Worker -> Id \cup {NoTag}]
  /\ msg \in [Worker -> Message \cup {NoMsg}]
  /\ out \in [Worker -> Message \cup Envelope \cup {NoOut}]
  /\ \A w \in Worker : /\ pc[w] \in Active => msg[w] \in Message
                       /\ pc[w] = "publish_retry" => out[w] \in Message
                       /\ pc[w] = "publish_archive" => out[w] \in Envelope

\* An unacknowledged copy is the message of exactly one worker's handler.
HoldOK ==
  /\ \A w \in Worker : Live(w) =>
       pc[w] \in Active /\ queue[tag[w]] = "unacked" /\ copy[tag[w]] = msg[w]
  /\ \A w, v \in Worker : Live(w) /\ tag[w] = tag[v] => w = v
  /\ \A i \in Id : queue[i] = "unacked" => \E w \in Worker : tag[w] = i

EffectOK ==
  /\ files \subseteq Source /\ objects \subseteq Source
  /\ harmony \in [Source -> SUBSET {"done", "failed"}]
  /\ archive \subseteq Envelope
  /\ accepted \subseteq Source /\ repeated \subseteq Source
  /\ tries \in [Source -> Nat]
  /\ faults \in Nat

\* Every variable has its type, a worker between deliveries holds nothing, and the
\* broker and the workers agree on who holds which delivery.
TypeOK == BrokerOK /\ WorkerOK /\ HoldOK /\ EffectOK

\* The archive alone closes a job, except for a request whose processing failed:
\* its envelope is published before Harmony is told, and does not replace that.
Archived(s) == \E e \in archive : e.body.src = s /\ e.code # "processing-failed"

LiveCopy(s) == \E i \in Id : queue[i] # "free" /\ copy[i].body.src = s

\* A delivery about to be acknowledged counts for nothing.
Acking(i) == \E w \in Worker : tag[w] = i /\ pc[w] = "ack"
Pending(s, i) == queue[i] # "free" /\ copy[i].body.src = s /\ ~Acking(i)
Accounted(s) == harmony[s] # {} \/ Archived(s) \/ \E i \in Id : Pending(s, i)

\* "A failure may produce a duplicate, never a silent loss" (worker/README.md): a
\* request the broker took is reported to Harmony, or archived for good, or still
\* in a queue or with a handler that has not finished with it.
NothingSilent == \A s \in accepted : Accounted(s)

Stored(s) == s \in (IF StorageMode = "s3" THEN objects ELSE files)

\* Harmony is told that a job is done only when its artifact is where Harmony reads
\* it, whatever was retried, duplicated or run by two workers at once.
DoneImpliesStored == \A s \in Source : "done" \in harmony[s] => Stored(s)

Uniform == \A w, v \in Worker : MaxRetries[w] = MaxRetries[v]

\* While every instance runs with the same bound on retries, no worker refuses a
\* continuation that a worker has published.
AuthenticatedRetries ==
  Uniform => \A e \in archive :
    e.code = "invalid-retry-state" => KindOf[e.body.src] = "unsigned-state"

\* A request that was never put back in the queue unsettled gets one verdict: Harmony
\* is not told both that it is done and that it failed.
CallbacksAgree == \A s \in Source : s \notin repeated => harmony[s] # {"done", "failed"}

\* Attempts are counted truly: an envelope that says processing failed after k
\* attempts follows at least k runs of the request, exactly k when it was never put
\* back unsettled, and max_retries + 1 when all instances agree on max_retries.
AttemptsAreHonest ==
  \A e \in archive : e.code = "processing-failed" =>
    LET s == e.body.src IN
    /\ e.attempts <= tries[s] \/ tries[s] = TriesCap
    /\ s \notin repeated => e.attempts = tries[s] \/ tries[s] = TriesCap
    /\ Uniform => \A w \in Worker : e.attempts = MaxRetries[w] + 1

\* How far a body is on its way: a continuation never becomes the request again.
Stage(b) == IF b.what = "source" THEN 0 ELSE 1

\* o takes up where m was: the same request, a later stage or a later attempt.
Advances(m, o) ==
  /\ o.body.src = m.body.src
  /\ \/ Stage(m.body) < Stage(o.body)
     \/ m.body = o.body /\ m.attempt < o.attempt

\* Retries run out: what a worker is about to queue again is further than what it was
\* given, within its bound on attempts, so no chain of retries, continuations and their
\* failures comes back to where it was.
RetriesAdvance ==
  \A w \in Worker : pc[w] = "publish_retry" =>
    Advances(msg[w], out[w]) /\ out[w].attempt \in 1..MaxRetries[w]

\* In s3 mode the staging copy of a job is gone by the time Harmony hears that the job
\* is done, unless its request was put back in the queue unsettled.
StagingRemoved ==
  StorageMode = "s3" =>
    \A s \in Source : "done" \in harmony[s] /\ s \notin repeated => s \notin files

PendingOf(S) == {i \in Id : queue[i] # "free" /\ copy[i].body.src \in S /\ ~Acking(i)}

\* Only a failure makes a duplicate: whatever requests one looks at, the copies of them that
\* await work are at most as many as those accepted, and one for each failure of the broker
\* or of a process.  Retries, continuations, refusals and deliveries given back make none.
DuplicatesNeedFailures ==
  \A S \in SUBSET Source :
    Cardinality(PendingOf(S)) <= Cardinality(S \cap accepted) + faults

\* Harmony is told that a job failed only when the archive has the envelope of its
\* exhausted request, whatever crashed between the two or was replayed.
FailedIsArchived ==
  \A s \in Source : "failed" \in harmony[s] =>
    \E e \in archive : e.body.src = s /\ e.code = "processing-failed"

\* Harmony garbles its answer to the report that the job of s failed, and the request
\* goes back to the queue with the attempt it had.
FailureReportGarbled(s) ==
  \E w \in Worker : NotifyFailure(w) /\ Src(w) = s /\ pc'[w] = "down"

\* Retries are bounded: every request the broker takes, for a document that the parser
\* accepts or refuses, leaves the queues whatever fails and however often, unless Harmony
\* garbles its answers to the reports of its failure again and again.
EventuallySettled ==
  \A s \in Source :
    \/ s \in accepted /\ KindOf[s] # "uncaught" ~> ~LiveCopy(s)
    \/ []<><<FailureReportGarbled(s)>>_vars

\* The service seen from outside: a job is open while the broker holds a copy of it.
Jobs == INSTANCE DocumentJobs WITH
  Job <- Source,
  open <- {s \in Source : LiveCopy(s)},
  outcomes <- [s \in Source |-> harmony[s] \cup IF Archived(s) THEN {"archived"} ELSE {}]

\* The worker implements the promise: a job leaves the broker only when its outcome is
\* recorded, no outcome is withdrawn, and a job that has left never comes back.
ImplementsJobs == Jobs!Spec

\* The storage seen from Harmony.  A request has one document here; ArtifactStore has the
\* requests that share a name.
Documents == INSTANCE DocumentStore WITH
  Name <- Source,
  Identity <- Source,
  stored <- [s \in Source |-> IF Stored(s) THEN {s} ELSE {}],
  reported <- [s \in Source |-> IF "done" \in harmony[s] THEN {s} ELSE {}]

\* Rendering, upload and removal of the staging copy keep what DocumentStore promises,
\* whichever workers run them: done comes after the document is stored, and no replay or
\* cleanup takes away what was stored.
ImplementsStore == Documents!Spec

-----------------------------------------------------------------------------
(* What comments and the documentation say, and the code does not keep.    *)

\* worker/README.md: a replay is covered by the idempotence of rendering, storage and
\* callbacks.  A replayed request may be reported both done and failed.
CallbacksAgreeOnReplay == \A s \in Source : harmony[s] # {"done", "failed"}

\* worker/README.md: when the success callback fails the worker keeps a continuation,
\* and rendering and upload are not replayed.
CallbackFailureKeepsArtifact ==
  [][\A w \in Worker : pc[w] = "notify" /\ pc'[w] = "publish_retry"
                       => out'[w].body.what = "success"]_vars

\* worker/README.md: invalid or exhausted requests become an envelope of the archive,
\* so no request stays in the queues for ever.
EveryRequestSettled == \A s \in Source : s \in accepted ~> ~LiveCopy(s)
=============================================================================
