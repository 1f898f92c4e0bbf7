---------------------- MODULE DocumentWorkerRetryProofs ----------------------
(***************************************************************************)
(* No worker refuses the retry state that a worker has published, and the  *)
(* attempts it counts are runs of the request.  A signature is believed    *)
(* only in a message that came back through the retry queue, so the first  *)
(* invariant says of every copy how far it has come; the second says how   *)
(* many runs everything in the system stands for.  Every retry is further  *)
(* than the message it follows.                                            *)
(***************************************************************************)
EXTENDS DocumentWorkerLineProofs

USE DEF Active

\* A message as a worker publishes it: signed, with an attempt that every worker takes.
Signed(m) == /\ m.attempt >= 1
             /\ \A w \in Worker : m.attempt <= MaxRetries[w]
             /\ m.sig = RetrySignature(m.body, m.attempt, m.mode)

\* A message in the main queue: it has been through the retry queue, or it is the
\* producer's and has no retry state unless the producer forged it.
Believed(m) == \/ Signed(m) /\ m.died
               \/ HasRetryState(m) => KindOf[m.body.src] = "unsigned-state"

\* An envelope that refuses retry state is about a forged one.
Deserved(e) == e.code = "invalid-retry-state" => KindOf[e.body.src] = "unsigned-state"

RetryInv ==
  /\ \A i \in Id : queue[i] = "retry" => Signed(copy[i])
  /\ \A i \in Id : queue[i] \in {"main", "unacked"} => Believed(copy[i])
  /\ \A w \in Worker : pc[w] = "publish_retry" => Signed(out[w])
  /\ \A w \in Worker : pc[w] = "publish_archive" => Deserved(out[w])
  /\ \A e \in archive : Deserved(e)

-----------------------------------------------------------------------------
(* What a handler announces.                                               *)

\* A handler goes on, and what it is about to publish keeps the invariant.
Announces(w) == \E step \in Active : \E o :
  /\ PublishNext(w, step, o)
  /\ step = "publish_retry" => Signed(o)
  /\ step = "publish_archive" => Deserved(o)
  /\ UNCHANGED <<queue, copy>>

\* An attempt that one worker may announce is within the bound of all.
LEMMA RetrySigned ==
  ASSUME Uniform, NEW w \in Worker, NEW b, NEW mode, NEW k \in Nat, MayRetry(w, k)
  PROVE  Signed(RetryMessage(b, k + 1, mode))
<1> DEFINE m == RetryMessage(b, k + 1, mode)
<1>1. m.attempt = k + 1 /\ m.body = b /\ m.mode = mode
      /\ m.sig = RetrySignature(b, k + 1, mode)
  BY DEF RetryMessage
<1>2. \A v \in Worker : k + 1 <= MaxRetries[v]
  BY RetryAssumption DEF Uniform, MayRetry
<1> HIDE DEF m
<1>3. Signed(m)  BY <1>1, <1>2 DEF Signed
<1> QED  BY <1>3 DEF m

LEMMA RetryAnnounces ==
  ASSUME Uniform, NEW w \in Worker, NEW b, NEW mode, NEW k \in Nat, MayRetry(w, k),
         RetryNext(w, b, k + 1, mode), UNCHANGED <<queue, copy>>
  PROVE  Announces(w)
<1>1. Signed(RetryMessage(b, k + 1, mode))  BY RetrySigned
<1> QED  BY <1>1 DEF RetryNext, Announces

LEMMA ArchiveAnnounces ==
  ASSUME NEW w \in Worker, NEW b, NEW k, NEW code, code # "invalid-retry-state",
         ArchiveNext(w, b, k, code), UNCHANGED <<queue, copy>>
  PROVE  Announces(w)
<1>1. Deserved(ArchiveBody(w, b, k, code))  BY DEF ArchiveBody, Deserved
<1> QED  BY <1>1 DEF ArchiveNext, Announces

\* A failed processing announces the next attempt, or an envelope.
LEMMA ProcessingFailureAnnounces ==
  ASSUME TypeOK, Uniform, NEW w \in Worker, pc[w] \in Active, SettleProcessingFailure(w),
         UNCHANGED <<queue, copy>>
  PROVE  Announces(w)
<1> DEFINE k == Attempt(w, msg[w])
           b == msg[w].body
<1>1. k \in Nat  BY AttemptType DEF TypeOK, WorkerOK
<1>2. CASE MayRetry(w, k)
  BY <1>1, <1>2, RetryAnnounces DEF SettleProcessingFailure
<1>3. CASE ~MayRetry(w, k)
  BY <1>3, ArchiveAnnounces DEF SettleProcessingFailure
<1> QED  BY <1>2, <1>3

\* So does a failed callback.
LEMMA CallbackFailureAnnounces ==
  ASSUME Uniform, NEW w \in Worker, NEW b, NEW mode, NEW k \in Nat,
         SettleCallbackFailure(w, b, mode, k), UNCHANGED <<queue, copy>>
  PROVE  Announces(w)
<1>1. CASE MayRetry(w, k)
  BY <1>1, RetryAnnounces DEF SettleCallbackFailure
<1>2. CASE ~MayRetry(w, k)
  BY <1>2, ArchiveAnnounces DEF SettleCallbackFailure
<1> QED  BY <1>1, <1>2

\* Every step of a handler announces, or gives its delivery back.
LEMMA HandleAnnounces ==
  ASSUME TypeOK, Uniform, NEW w \in Worker, Handle(w)
  PROVE  archive' = archive /\ (Announces(w) \/ RequeueAndStop(w))
<1> DEFINE kept == UNCHANGED <<queue, copy>>
<1>0. pc[w] \in Active /\ archive' = archive  BY HandleEffect
<1>f. kept /\ SettleProcessingFailure(w) => Announces(w)
  BY <1>0, ProcessingFailureAnnounces
<1>g. \A step \in Active \ {"publish_retry", "publish_archive"} :
        Goto(w, step) /\ kept => Announces(w)
  BY DEF Goto, Announces
<1>1. CASE RejectRequest(w)
  <2>1. KindOf[Src(w)] # "invalid-retry-state"
    BY <1>1 DEF RejectRequest, PermanentKind
  <2> QED  BY <1>0, <1>1, <2>1, ArchiveAnnounces DEF RejectRequest, broker
<1>2. CASE RequestUncaught(w) \/ RenderFails(w) \/ PublishDocumentFails(w) \/ UnlinkFails(w)
  BY <1>0, <1>2, <1>f
     DEF RequestUncaught, RenderFails, PublishDocumentFails, UnlinkFails, broker
<1>3. CASE Render(w) \/ PublishDocument(w) \/ Unlink(w)
  BY <1>0, <1>3, <1>g DEF Render, PublishDocument, AfterPublish, Unlink, broker
<1>4. CASE NotifySuccess(w)
  <2>1. kept  BY <1>4 DEF NotifySuccess, broker
  <2>2. Goto(w, "ack") => Announces(w)  BY <1>g, <2>1
  <2>3. SettleCallbackFailure(w, [src |-> Src(w), what |-> "success"], "success", 0)
          => Announces(w)
    BY <2>1, CallbackFailureAnnounces
  <2> QED  BY <1>0, <1>4, <1>f, <2>1, <2>2, <2>3 DEF NotifySuccess
<1>5. CASE DeliverCallback(w)
  <2> DEFINE mode == CallbackMode(w, msg[w])
             k == Attempt(w, msg[w])
  <2>1. kept /\ k \in Nat
    BY <1>0, <1>5, AttemptType DEF DeliverCallback, broker, TypeOK, WorkerOK
  <2>2. Goto(w, "ack") => Announces(w)  BY <1>g, <2>1
  <2>3. SettleCallbackFailure(w, msg[w].body, mode, k) => Announces(w)
    BY <2>1, CallbackFailureAnnounces
  <2> QED  BY <1>0, <1>5, <2>2, <2>3 DEF DeliverCallback
<1>6. CASE NotifyFailure(w)
  <2> DEFINE b == [src |-> Src(w), what |-> "failure"]
  <2>1. kept /\ Goto(w, "ack") => Announces(w)  BY <1>g
  <2>2. kept /\ MaxRetries[w] > 0 /\ RetryNext(w, b, 1, "failure") => Announces(w)
    <3>1. MaxRetries[w] > 0 => MayRetry(w, 0)  BY RetryAssumption DEF MayRetry
    <3>2. 0 \in Nat /\ 0 + 1 = 1  OBVIOUS
    <3> QED  BY <3>1, <3>2, RetryAnnounces
  <2>3. kept /\ ArchiveNext(w, b, 1, "callback-failed") => Announces(w)
    BY ArchiveAnnounces
  <2> QED  BY <1>0, <1>6, <2>1, <2>2, <2>3 DEF NotifyFailure, broker
<1> QED  BY <1>1, <1>2, <1>3, <1>4, <1>5, <1>6 DEF Handle

-----------------------------------------------------------------------------
(* Preservation.                                                           *)

\* Copies after a step: a place holds what it held, in the same queue or back in main
\* from a delivery, or it is free.
Returned == \A i \in Id :
  \/ queue'[i] = "free"
  \/ copy'[i] = copy[i] /\ queue'[i] = queue[i]
  \/ copy'[i] = copy[i] /\ queue[i] = "unacked" /\ queue'[i] = "main"

\* Each handler has what it had to publish, or nothing.
Quiet == \A v \in Worker :
  \/ pc'[v] \notin {"publish_retry", "publish_archive"}
  \/ pc'[v] = pc[v] /\ out'[v] = out[v]

\* Copies after a step are as the invariant says.
CopiesTrue == /\ \A i \in Id : queue'[i] = "retry" => Signed(copy'[i])
              /\ \A i \in Id : queue'[i] \in {"main", "unacked"} => Believed(copy'[i])

LEMMA ReturnedTrue ==
  ASSUME RetryInv, Returned
  PROVE  CopiesTrue
BY DEF RetryInv, Returned, CopiesTrue

LEMMA QuietSafe ==
  ASSUME RetryInv, Quiet, CopiesTrue, \A e \in archive' : Deserved(e)
  PROVE  RetryInv'
BY DEF RetryInv, Quiet, CopiesTrue, Signed, Believed, Deserved

LEMMA GiveBackReturned ==
  ASSUME TypeOK, NEW w \in Worker, GiveBack(w)
  PROVE  Returned
<1>1. CASE Live(w)
  BY <1>1 DEF GiveBack, Returned, Live, TypeOK, BrokerOK, HoldOK
<1>2. CASE ~Live(w)
  BY <1>2 DEF GiveBack, Returned
<1> QED  BY <1>1, <1>2

LEMMA StopQuiet ==
  ASSUME TypeOK, NEW w \in Worker, Stop(w)
  PROVE  Quiet
BY DEF Stop, Quiet, TypeOK, WorkerOK

LEMMA RequeueSafe ==
  ASSUME TypeOK, RetryInv, NEW w \in Worker, RequeueAndStop(w),
         \A e \in archive' : Deserved(e)
  PROVE  RetryInv'
BY GiveBackReturned, StopQuiet, ReturnedTrue, QuietSafe DEF RequeueAndStop

LEMMA AnnouncesSafe ==
  ASSUME TypeOK, RetryInv, NEW w \in Worker, Announces(w), archive' = archive
  PROVE  RetryInv'
<1>0. PICK step \in Active : \E o :
        /\ PublishNext(w, step, o)
        /\ step = "publish_retry" => Signed(o)
        /\ step = "publish_archive" => Deserved(o)
        /\ UNCHANGED <<queue, copy>>
  BY DEF Announces
<1>1. PICK o :
        /\ PublishNext(w, step, o)
        /\ step = "publish_retry" => Signed(o)
        /\ step = "publish_archive" => Deserved(o)
        /\ UNCHANGED <<queue, copy>>
  BY <1>0
<1>2. /\ pc'[w] = step /\ out'[w] = o
      /\ \A v \in Worker \ {w} : pc'[v] = pc[v] /\ out'[v] = out[v]
  BY <1>1 DEF PublishNext, TypeOK, WorkerOK
<1>3. ASSUME NEW v \in Worker
      PROVE  /\ pc'[v] = "publish_retry" => Signed(out'[v])
             /\ pc'[v] = "publish_archive" => Deserved(out'[v])
  BY <1>1, <1>2 DEF RetryInv
<1> QED  BY <1>1, <1>3 DEF RetryInv, Signed, Believed, Deserved

LEMMA HandleRetry ==
  ASSUME TypeOK, Uniform, RetryInv, NEW w \in Worker, Handle(w)
  PROVE  RetryInv'
BY HandleAnnounces, AnnouncesSafe, RequeueSafe DEF RetryInv

LEMMA SettleRetry ==
  ASSUME TypeOK, RetryInv, NEW w \in Worker, Settle(w)
  PROVE  RetryInv'
<1> USE DEF TypeOK
<1>a. archive' = archive => \A e \in archive' : Deserved(e)  BY DEF RetryInv
<1>b. RemoveCopy(tag[w]) => Returned  BY DEF RemoveCopy, Returned, BrokerOK
<1>c. pc[w] = "publish_archive" /\ archive' = archive \cup {out[w]}
        => \A e \in archive' : Deserved(e)
  BY DEF RetryInv
<1>d. \A step \in {"ack", "notify_failure"} : Goto(w, step) => Quiet
  BY DEF Goto, PublishNext, Quiet, WorkerOK
<1>1. CASE ConfirmRetry(w)
  <2>1. PICK j \in Id : /\ queue[j] = "free" /\ queue' = [queue EXCEPT ![j] = "retry"]
                        /\ copy' = [copy EXCEPT ![j] = out[w]]
    BY <1>1, NewCopyIsFree DEF ConfirmRetry, PutCopy
  <2>2. Signed(out[w])  BY <1>1 DEF ConfirmRetry, RetryInv
  <2>3. CopiesTrue  BY <2>1, <2>2 DEF CopiesTrue, RetryInv, BrokerOK
  <2> QED  BY <1>1, <1>a, <1>d, <2>3, QuietSafe DEF ConfirmRetry
<1>2. CASE ConfirmArchive(w)
  <2>1. \A e \in archive' : Deserved(e)  BY <1>2, <1>c DEF ConfirmArchive
  <2>2. UNCHANGED broker => Returned  BY DEF broker, Returned
  <2> QED  BY <1>2, <1>d, <2>1, <2>2, RequeueSafe, ReturnedTrue, QuietSafe DEF ConfirmArchive
<1>3. CASE PublishFails(w)
  BY <1>3, <1>a, RequeueSafe DEF PublishFails
<1>4. CASE Ack(w)
  <2>1. Quiet  BY <1>4 DEF Ack, Quiet, WorkerOK
  <2> QED  BY <1>4, <1>a, <1>b, <2>1, ReturnedTrue, QuietSafe DEF Ack
<1>5. CASE AckFails(w)
  <2>1. Quiet /\ archive' = archive  BY <1>5, StopQuiet DEF AckFails
  <2>2. UNCHANGED broker => Returned  BY DEF broker, Returned
  <2>3. Returned  BY <1>5, <1>b, <2>2, GiveBackReturned DEF AckFails
  <2> QED  BY <1>a, <2>1, <2>3, ReturnedTrue, QuietSafe
<1> QED  BY <1>1, <1>2, <1>3, <1>4, <1>5 DEF Settle

LEMMA FailRetry ==
  ASSUME TypeOK, RetryInv, NEW w \in Worker, Fail(w)
  PROVE  RetryInv'
<1> USE DEF TypeOK
<1>a. archive' = archive => \A e \in archive' : Deserved(e)  BY DEF RetryInv
<1>1. CASE ConfirmLost(w)
  <2>1. Quiet /\ Live(w)  BY <1>1, StopQuiet DEF ConfirmLost
  <2>2. CASE pc[w] = "publish_retry"
    <3>1. PICK j \in Id :
            /\ queue[j] = "free"
            /\ queue' = [queue EXCEPT ![j] = "retry", ![tag[w]] = "main"]
            /\ copy' = [copy EXCEPT ![j] = out[w]]
      BY <1>1, <2>2, NewCopyIsFree DEF ConfirmLost
    <3>2. Signed(out[w]) /\ tag[w] \in Id /\ tag[w] # j /\ queue[tag[w]] = "unacked"
      BY <2>1, <2>2, <3>1 DEF RetryInv, Live, HoldOK, WorkerOK
    <3>3. CopiesTrue  BY <3>1, <3>2 DEF CopiesTrue, RetryInv, BrokerOK
    <3>4. archive' = archive  BY <1>1, <2>2 DEF ConfirmLost
    <3> QED  BY <1>a, <2>1, <3>3, <3>4, QuietSafe
  <2>3. CASE pc[w] = "publish_archive"
    <3>1. GiveBack(w) /\ archive' = archive \cup {out[w]}
      BY <1>1, <2>3 DEF ConfirmLost, GiveBack
    <3>2. \A e \in archive' : Deserved(e)  BY <2>3, <3>1 DEF RetryInv
    <3> QED  BY <2>1, <3>1, <3>2, GiveBackReturned, ReturnedTrue, QuietSafe
  <2> QED  BY <1>1, <2>2, <2>3 DEF ConfirmLost
<1>2. CASE Disconnect(w)
  <2>1. Quiet  BY <1>2 DEF Disconnect, Quiet
  <2> QED  BY <1>2, <1>a, <2>1, GiveBackReturned, ReturnedTrue, QuietSafe DEF Disconnect
<1>3. CASE Crash(w)
  BY <1>3, <1>a, RequeueSafe DEF Crash
<1> QED  BY <1>1, <1>2, <1>3 DEF Fail

-----------------------------------------------------------------------------
(* Deliveries and dead letters.                                            *)

\* A message that has come back is believed by every worker.
LEMMA BelievedAccepted ==
  ASSUME NEW w \in Worker, NEW m \in Message, Believed(m), InvalidRetryState(w, m)
  PROVE  KindOf[m.body.src] = "unsigned-state"
<1>1. CASE Signed(m) /\ m.died
  <2>1. m.attempt \in Nat /\ m.attempt >= 1 /\ m.attempt <= MaxRetries[w]
    BY <1>1 DEF Signed, Message
  <2>2. m.attempt \in 1..MaxRetries[w]  BY <2>1, RetryAssumption
  <2>3. Attempt(w, m) = m.attempt  BY <1>1, <2>2 DEF Attempt, Signed
  <2> QED  BY <2>1, <2>3 DEF InvalidRetryState
<1>2. CASE HasRetryState(m) => KindOf[m.body.src] = "unsigned-state"
  BY <1>2 DEF InvalidRetryState
<1> QED  BY <1>1, <1>2 DEF Believed

\* A dead letter of the retry queue is believed in the main queue.
LEMMA DiedBelieved ==
  ASSUME NEW m \in Message, Signed(m)
  PROVE  Believed([m EXCEPT !.died = TRUE])
<1> DEFINE n == [m EXCEPT !.died = TRUE]
<1>1. n.attempt = m.attempt /\ n.sig = m.sig /\ n.body = m.body /\ n.mode = m.mode /\ n.died
  BY DEF Message
<1> HIDE DEF n
<1>2. Signed(n)  BY <1>1 DEF Signed
<1> QED  BY <1>1, <1>2 DEF Believed, n

LEMMA SourceBelieved ==
  ASSUME NEW s \in Source
  PROVE  Believed(SourceMessage(s))
BY DEF SourceMessage, Believed, HasRetryState

LEMMA DeliverRetry ==
  ASSUME TypeOK, RetryInv, NEW w \in Worker, NEW i \in Id, Deliver(w, i)
  PROVE  RetryInv'
<1> USE DEF TypeOK
<1> DEFINE m == copy[i]
           e == ArchiveBody(w, m.body, 1, "invalid-retry-state")
<1>1. queue[i] = "main" /\ queue' = [queue EXCEPT ![i] = "unacked"] /\ copy' = copy
      /\ archive' = archive /\ m \in Message
  BY DEF Deliver, BrokerOK
<1>2. CopiesTrue  BY <1>1 DEF CopiesTrue, RetryInv, BrokerOK
<1>3. Believed(m)  BY <1>1 DEF RetryInv
<1>4. \A v \in Worker \ {w} : pc'[v] = pc[v] /\ out'[v] = out[v]
  BY DEF Deliver, ArchiveNext, Goto, PublishNext, WorkerOK
<1>5. pc'[w] # "publish_retry" /\ (pc'[w] = "publish_archive" => Deserved(out'[w]))
  <2>1. CASE ArchiveNext(w, m.body, 1, "invalid-retry-state") /\ InvalidRetryState(w, m)
    <3>1. KindOf[m.body.src] = "unsigned-state"  BY <1>1, <1>3, <2>1, BelievedAccepted
    <3>2. Deserved(e)  BY <3>1 DEF ArchiveBody, Deserved
    <3> QED  BY <2>1, <3>2 DEF ArchiveNext, PublishNext, WorkerOK
  <2>2. CASE Goto(w, "render") \/ Goto(w, "callback")
    BY <2>2 DEF Goto, PublishNext, WorkerOK
  <2> QED  BY <2>1, <2>2 DEF Deliver
<1> QED  BY <1>1, <1>2, <1>4, <1>5 DEF RetryInv, CopiesTrue, Signed, Believed, Deserved

LEMMA BrokerStepRetry ==
  ASSUME TypeOK, RetryInv
  PROVE  /\ \A s \in Source : Accept(s) => RetryInv'
         /\ \A w \in Worker : Connect(w) => RetryInv'
         /\ \A i \in Id : Expire(i) => RetryInv'
         /\ \A i \in Id : ExpireTwice(i) => RetryInv'
<1> USE DEF TypeOK
<1>a. archive' = archive => \A e \in archive' : Deserved(e)  BY DEF RetryInv
<1>q. UNCHANGED <<pc, out>> => Quiet  BY DEF Quiet
<1>p. ASSUME NEW j \in Id, NEW n, Believed(n), queue[j] = "free",
             queue' = [queue EXCEPT ![j] = "main"], copy' = [copy EXCEPT ![j] = n]
      PROVE  CopiesTrue
  BY <1>p DEF CopiesTrue, RetryInv, BrokerOK
<1>1. ASSUME NEW s \in Source, Accept(s)
      PROVE  RetryInv'
  <2>1. CopiesTrue
    BY <1>1, <1>p, NewCopyIsFree, SourceBelieved DEF Accept, PutCopy
  <2> QED  BY <1>1, <1>a, <1>q, <2>1, QuietSafe DEF Accept
<1>2. ASSUME NEW w \in Worker, Connect(w)
      PROVE  RetryInv'
  <2>1. Returned /\ Quiet  BY <1>2 DEF Connect, Returned, Quiet, broker, WorkerOK
  <2> QED  BY <1>2, <1>a, <2>1, ReturnedTrue, QuietSafe DEF Connect
<1>3. ASSUME NEW i \in Id, Expire(i)
      PROVE  RetryInv'
  <2>1. queue[i] = "retry" /\ copy[i] \in Message /\ Signed(copy[i])
    BY <1>3 DEF Expire, BrokerOK, RetryInv
  <2>2. Believed([copy[i] EXCEPT !.died = TRUE])  BY <2>1, DiedBelieved
  <2>3. CopiesTrue
    BY <1>3, <2>2 DEF Expire, CopiesTrue, RetryInv, BrokerOK
  <2> QED  BY <1>3, <1>a, <1>q, <2>3, QuietSafe DEF Expire
<1>4. ASSUME NEW i \in Id, ExpireTwice(i)
      PROVE  RetryInv'
  <2>1. Signed(copy[i]) /\ copy[i] \in Message
    BY <1>4 DEF ExpireTwice, BrokerOK, RetryInv
  <2>2. CopiesTrue
    BY <1>4, <1>p, <2>1, NewCopyIsFree, DiedBelieved DEF ExpireTwice, PutCopy
  <2> QED  BY <1>4, <1>a, <1>q, <2>2, QuietSafe DEF ExpireTwice
<1> QED  BY <1>1, <1>2, <1>3, <1>4

\* Every step keeps the invariant, when all instances have the same bound.
LEMMA NextRetry == TypeOK /\ (Uniform => RetryInv) /\ [Next]_vars => (Uniform => RetryInv')
<1> SUFFICES ASSUME TypeOK, Uniform, RetryInv, [Next]_vars
             PROVE  RetryInv'
  OBVIOUS
<1>1. CASE Next
  BY <1>1, HandleRetry, SettleRetry, FailRetry, DeliverRetry, BrokerStepRetry DEF Next
<1>2. CASE UNCHANGED vars
  BY <1>2 DEF vars, RetryInv, Signed, Believed, Deserved
<1> QED  BY <1>1, <1>2

\* A continuation that a worker published is refused by no worker, whatever was lost,
\* duplicated or dead-lettered twice, while the instances agree on max_retries.
THEOREM RetriesBelieved == Spec => []AuthenticatedRetries
<1> DEFINE I == Uniform => RetryInv
<1>1. Init => I
  BY DEF Init, RetryInv
<1>2. TypeOK /\ I /\ [Next]_vars => I'
  BY NextRetry DEF Uniform
<1>3. I => AuthenticatedRetries
  BY DEF RetryInv, AuthenticatedRetries, Deserved
<1> QED  BY <1>1, <1>2, <1>3, InitTypeOK, NextTypeOK, PTL DEF Spec

-----------------------------------------------------------------------------
(* The attempts.                                                           *)

\* A queued copy of the request, a handler that runs it, one that publishes it: the runs
\* of s that each stands for.
Waiting(i, s, k) == /\ queue[i] \in {"main", "retry"} /\ IsSource(copy[i])
                    /\ copy[i].body.src = s /\ k = Count(copy[i])

Runs(w, s, k) == pc[w] \in Early /\ Src(w) = s /\ k = Attempt(w, msg[w]) + 1

Announced(w, s, k) ==
  \/ pc[w] = "publish_retry" /\ IsSource(out[w]) /\ Src(w) = s /\ k = Count(out[w])
  \/ pc[w] = "publish_archive" /\ Exhausted(out[w], s) /\ k = out[w].attempts

Claim(s, k) ==
  \/ \E i \in Id : Waiting(i, s, k)
  \/ \E w \in Worker : Runs(w, s, k) \/ Announced(w, s, k)
  \/ \E e \in archive : Exhausted(e, s) /\ k = e.attempts

\* A copy that a handler works on stands for the runs before its own.
Held(s, k) == \E i \in Id : /\ queue[i] = "unacked" /\ IsSource(copy[i])
                            /\ copy[i].body.src = s /\ k = Count(copy[i])

Capped(s) == tries[s] = TriesCap

TriesInv == \A s \in Source : tries[s] <= TriesCap /\ (s \notin accepted => tries[s] = 0)

AtMost(s) == \A k : Claim(s, k) \/ Held(s, k) => k <= tries[s] \/ Capped(s)

Exact(s) == \A k : Claim(s, k) => k = tries[s] \/ Capped(s)

\* With one bound for all workers, an exhausted request has had all its runs.
AllTries(e) == e.code = "processing-failed" => \A v \in Worker : e.attempts = MaxRetries[v] + 1

BoundInv == Uniform => /\ \A w \in Worker : pc[w] = "publish_archive" => AllTries(out[w])
                       /\ \A e \in archive : AllTries(e)

CountInv == /\ TriesInv /\ BoundInv
            /\ \A s \in Source : AtMost(s)
            /\ \A s \in Source \ repeated : Exact(s)

\* A step that runs no request: what it claims was claimed, or is given back.
Follows(s) ==
  /\ tries'[s] = tries[s]
  /\ \A k : Claim(s, k)' => Claim(s, k) \/ (Held(s, k) /\ s \in repeated')
  /\ \A k : Held(s, k)' => Held(s, k) \/ Claim(s, k)

LEMMA FollowsCount ==
  ASSUME NEW s \in Source, Follows(s), repeated \subseteq repeated', AtMost(s),
         s \notin repeated => Exact(s)
  PROVE  AtMost(s)' /\ (s \notin repeated' => Exact(s)')
BY DEF Follows, AtMost, Exact, Capped

LEMMA CountKept ==
  ASSUME CountInv, repeated \subseteq repeated', accepted' = accepted, tries' = tries,
         BoundInv', \A s \in Source : Follows(s)
  PROVE  CountInv'
BY FollowsCount DEF CountInv, TriesInv

\* The steps that archive, or announce an envelope of another kind.
LEMMA BoundKept ==
  ASSUME BoundInv,
         \A v \in Worker : pc'[v] = "publish_archive" =>
           \/ pc[v] = "publish_archive" /\ out'[v] = out[v]
           \/ Uniform => AllTries(out'[v]),
         \A e \in archive' : e \in archive
           \/ \E v \in Worker : pc[v] = "publish_archive" /\ e = out[v]
  PROVE  BoundInv'
BY DEF BoundInv, AllTries, Uniform

\* Handlers other than w's claim what they did.
LEMMA OthersClaim ==
  ASSUME NEW w \in Worker, OthersStay(w), NEW v \in Worker \ {w}, NEW s, NEW k,
         Runs(v, s, k)' \/ Announced(v, s, k)'
  PROVE  Runs(v, s, k) \/ Announced(v, s, k)
BY DEF OthersStay, Runs, Announced, Src, Attempt, Exhausted, IsSource, Count

LEMMA GoesFollows ==
  ASSUME TypeOK, NEW w \in Worker, NEW step \in Active, NEW o, Goes(w, step, o),
         pc[w] \in Active \ {"ack"}, tries' = tries,
         \A s, k : Runs(w, s, k)' \/ Announced(w, s, k)' => Runs(w, s, k)
  PROVE  \A s \in Source : Follows(s)
<1>1. OthersStay(w) /\ UNCHANGED <<queue, copy, archive>>
  BY GoesStay
<1>2. ASSUME NEW s \in Source, NEW k, Claim(s, k)'  PROVE Claim(s, k)
  <2>1. ASSUME NEW v \in Worker, Runs(v, s, k)' \/ Announced(v, s, k)'  PROVE Claim(s, k)
    BY <1>1, <2>1, OthersClaim DEF Claim
  <2>2. \A i \in Id : Waiting(i, s, k)' => Waiting(i, s, k)
    BY <1>1 DEF Waiting, IsSource, Count
  <2>3. \A e \in archive' : e \in archive  BY <1>1
  <2> QED  BY <1>2, <2>1, <2>2, <2>3 DEF Claim, Exhausted
<1>3. \A s, k : Held(s, k)' => Held(s, k)  BY <1>1 DEF Held, IsSource, Count
<1> QED  BY <1>2, <1>3 DEF Follows

LEMMA HandleTries ==
  ASSUME NEW w \in Worker, Handle(w)
  PROVE  tries' = tries
BY DEF Handle, RejectRequest, RequestUncaught, Render, RenderFails, PublishDocument,
       PublishDocumentFails, Unlink, UnlinkFails, NotifySuccess, DeliverCallback, NotifyFailure

\* The steps that run nothing and announce nothing.
Rests == \A v \in Worker :
  \/ pc'[v] \notin Early \cup Publishing
  \/ pc'[v] = pc[v] /\ msg'[v] = msg[v] /\ out'[v] = out[v]

LEMMA RestsFollows ==
  ASSUME Rests, tries' = tries, NEW s \in Source,
         \A e \in archive' : e \in archive
           \/ \E v \in Worker : pc[v] = "publish_archive" /\ e = out[v],
         \A i \in Id : \A k :
           Waiting(i, s, k)' => Claim(s, k) \/ (Held(s, k) /\ s \in repeated'),
         \A k : Held(s, k)' => Held(s, k) \/ Claim(s, k)
  PROVE  Follows(s)
<1> SUFFICES ASSUME NEW k, Claim(s, k)'
             PROVE  Claim(s, k) \/ (Held(s, k) /\ s \in repeated')
  BY DEF Follows
<1>1. ASSUME NEW v \in Worker, Runs(v, s, k)' \/ Announced(v, s, k)'  PROVE Claim(s, k)
  <2>1. pc'[v] = pc[v] /\ msg'[v] = msg[v] /\ out'[v] = out[v]
    BY <1>1 DEF Rests, Runs, Announced, Publishing
  <2>2. Runs(v, s, k) \/ Announced(v, s, k)
    BY <1>1, <2>1 DEF Runs, Announced, Src, Attempt, Exhausted, IsSource, Count
  <2> QED  BY <2>2 DEF Claim
<1>2. ASSUME NEW e \in archive', Exhausted(e, s), k = e.attempts  PROVE Claim(s, k)
  BY <1>2 DEF Claim, Announced
<1> QED  BY <1>1, <1>2 DEF Claim, Exhausted

LEMMA RestsBound ==
  ASSUME BoundInv, Rests,
         \A e \in archive' : e \in archive
           \/ \E v \in Worker : pc[v] = "publish_archive" /\ e = out[v]
  PROVE  BoundInv'
BY BoundKept DEF Rests, Publishing

\* A delivery that is given back waits again for what it was held for.
LEMMA GiveBackCount ==
  ASSUME TypeOK, CountInv, NEW w \in Worker, GiveBack(w),
         Stop(w) \/ UNCHANGED <<pc, msg, out>>, UNCHANGED <<accepted, tries>>,
         \A e \in archive' : e \in archive
           \/ \E v \in Worker : pc[v] = "publish_archive" /\ e = out[v]
  PROVE  CountInv'
<1>1. Rests  BY DEF Rests, Stop, TypeOK, WorkerOK, Early, Publishing
<1>2. repeated \subseteq repeated' /\ copy' = copy  BY DEF GiveBack, Repeat
<1>3. ASSUME NEW s \in Source, NEW i \in Id, NEW k, Waiting(i, s, k)', ~Waiting(i, s, k)
      PROVE  Held(s, k) /\ s \in repeated'
  <2>1. Live(w) /\ i = tag[w] /\ queue[i] = "unacked" /\ copy[i] = msg[w]
    BY <1>2, <1>3 DEF GiveBack, Waiting, TypeOK, BrokerOK, HoldOK, IsSource, Count
  <2> QED  BY <1>2, <1>3, <2>1 DEF Waiting, Held, GiveBack, Repeat, IsSource, Count
<1>4. \A s \in Source : \A k : Held(s, k)' => Held(s, k)
  BY <1>2 DEF Held, GiveBack, TypeOK, BrokerOK, IsSource, Count
<1>5. \A s \in Source : Follows(s)
  BY <1>1, <1>3, <1>4, RestsFollows DEF Claim
<1> QED  BY <1>1, <1>2, <1>5, RestsBound, CountKept DEF CountInv

LEMMA HandleCount ==
  ASSUME TypeOK, ShapeInv, Tracked, CountInv, NEW w \in Worker, Handle(w)
  PROVE  CountInv'
<1>1. Own(w) /\ (Works(w) \/ Calls(w) \/ GivesUp(w))  BY HandleOutcome
<1>2. pc[w] \in Active /\ UNCHANGED <<accepted, archive, tries>> /\ msg[w] \in Message
  BY HandleEffect, HandleTries DEF TypeOK, WorkerOK
<1>3. pc[w] # "ack"  BY <1>1 DEF Works, Calls, GivesUp, Early
<1>4. CASE Works(w)
  <2>1. PICK step \in {"publish", "unlink", "notify"} \cup Publishing : \E o :
          /\ Goes(w, step, o)
          /\ step \in Publishing => o.body = msg[w].body
          /\ step \in Publishing => Tallied(w, step, o)
    BY <1>4 DEF Works
  <2>2. PICK o : /\ Goes(w, step, o)
                 /\ step \in Publishing => o.body = msg[w].body
                 /\ step \in Publishing => Tallied(w, step, o)
    BY <2>1
  <2>3. step \in Active /\ pc[w] \in Early  BY <1>4, <2>2 DEF Publishing, Works
  <2>4. /\ OthersStay(w) /\ pc'[w] = step /\ out'[w] = o
        /\ msg'[w] = msg[w] /\ Src(w)' = Src(w) /\ archive' = archive
    BY <1>2, <1>3, <2>2, <2>3, GoesStay
  <2>5. Attempt(w, msg[w])' = Attempt(w, msg[w])  BY <2>4 DEF Attempt
  <2>6. \A s, k : Runs(w, s, k)' => Runs(w, s, k)
    BY <2>3, <2>4, <2>5 DEF Runs
  <2>7. ASSUME NEW s, NEW k, Announced(w, s, k)'  PROVE Runs(w, s, k)
    <3>1. CASE step = "publish_retry"
      BY <2>2, <2>3, <2>4, <2>7, <3>1 DEF Announced, Tallied, Publishing, Runs, Count
    <3>2. CASE step = "publish_archive"
      BY <2>2, <2>3, <2>4, <2>7, <3>2 DEF Announced, Tallied, Publishing, Runs, Exhausted, Src
    <3> QED  BY <2>4, <2>7, <3>1, <3>2 DEF Announced
  <2>8. \A s \in Source : Follows(s)
    BY <1>2, <1>3, <2>2, <2>3, <2>6, <2>7, GoesFollows
  <2>9. BoundInv'
    <3>1. ASSUME Uniform, step = "publish_archive"  PROVE AllTries(o)
      <4>1. Tallied(w, step, o)  BY <2>2, <3>1 DEF Publishing
      <4>2. Attempt(w, msg[w]) \in 0..MaxRetries[w]
        BY <1>2, RetryAssumption DEF Attempt, Message
      <4>3. o.code = "processing-failed" => o.attempts = MaxRetries[w] + 1
        BY <3>1, <4>1, <4>2, RetryAssumption DEF Tallied, MayRetry
      <4> QED  BY <3>1, <4>3 DEF AllTries, Uniform
    <3>2. \A v \in Worker : pc'[v] = "publish_archive" =>
            \/ pc[v] = "publish_archive" /\ out'[v] = out[v]
            \/ Uniform => AllTries(out'[v])
      BY <2>4, <3>1 DEF OthersStay
    <3> QED  BY <2>4, <3>2, BoundKept DEF CountInv
  <2> QED  BY <1>1, <1>2, <2>8, <2>9, CountKept DEF Own
<1>5. CASE Calls(w)
  <2>1. PICK step \in {"ack"} \cup Publishing : \E o :
          /\ Goes(w, step, o)
          /\ step \in Publishing => About(o, Src(w), Callback(w))
          /\ step = "publish_archive" => o.code # "processing-failed"
    BY <1>5 DEF Calls
  <2>2. PICK o : /\ Goes(w, step, o)
                 /\ step \in Publishing => About(o, Src(w), Callback(w))
                 /\ step = "publish_archive" => o.code # "processing-failed"
    BY <2>1
  <2>3. step \in Active \ Early  BY DEF Publishing, Early
  <2>4. OthersStay(w) /\ pc'[w] = step /\ out'[w] = o /\ archive' = archive
    BY <1>2, <1>3, <2>2, <2>3, GoesStay
  <2>5. Callback(w) # "source"
    BY <1>5 DEF Calls, Callback, ShapeInv, HandlerShape, IsSource
  <2>6. \A s, k : ~Runs(w, s, k)' /\ ~Announced(w, s, k)'
    BY <2>2, <2>3, <2>4, <2>5 DEF Runs, Announced, Exhausted, About, IsSource, Publishing
  <2>7. \A s \in Source : Follows(s)
    BY <1>2, <1>3, <2>2, <2>3, <2>6, GoesFollows
  <2>8. \A v \in Worker : pc'[v] = "publish_archive" =>
          \/ pc[v] = "publish_archive" /\ out'[v] = out[v]
          \/ Uniform => AllTries(out'[v])
    BY <2>2, <2>4 DEF OthersStay, AllTries
  <2>9. BoundInv'  BY <2>4, <2>8, BoundKept DEF CountInv
  <2> QED  BY <1>1, <1>2, <2>7, <2>9, CountKept DEF Own
<1>6. CASE GivesUp(w)
  BY <1>2, <1>6, GiveBackCount DEF GivesUp, RequeueAndStop
<1> QED  BY <1>1, <1>4, <1>5, <1>6

LEMMA SettleCount ==
  ASSUME TypeOK, Tracked, CountInv, NEW w \in Worker, Settle(w)
  PROVE  CountInv'
<1>1. CASE ConfirmRetry(w)
  <2>1. /\ pc[w] = "publish_retry" /\ Goto(w, "ack")
        /\ UNCHANGED <<tag, msg, archive, accepted, repeated, tries>>
    BY <1>1 DEF ConfirmRetry
  <2>2. PICK j \in Id : Puts(j, "retry", out[w])
    BY <1>1, NewCopyIsFree DEF ConfirmRetry, PutCopy, Puts
  <2>3. /\ queue'[j] = "retry" /\ copy'[j] = out[w]
        /\ \A i \in Id \ {j} : queue'[i] = queue[i] /\ copy'[i] = copy[i]
    BY <2>2 DEF Puts, TypeOK, BrokerOK
  <2>4. OthersStay(w) /\ pc'[w] = "ack"  BY <2>1, StepShape DEF Goto
  <2>5. Rests  BY <2>4 DEF Rests, OthersStay, Early, Publishing
  <2>6. out[w].body.src = Src(w)  BY <2>1 DEF Tracked
  <2>7. ASSUME NEW s \in Source, NEW i \in Id, NEW k, Waiting(i, s, k)'  PROVE Claim(s, k)
    <3>1. CASE i = j
      BY <2>1, <2>3, <2>6, <2>7, <3>1 DEF Waiting, Claim, Announced, IsSource, Count
    <3>2. CASE i # j
      BY <2>3, <2>7, <3>2 DEF Waiting, Claim, IsSource, Count
    <3> QED  BY <3>1, <3>2
  <2>8. \A s \in Source : \A k : Held(s, k)' => Held(s, k)
    BY <2>3 DEF Held, IsSource, Count
  <2>9. \A s \in Source : Follows(s)  BY <2>1, <2>5, <2>7, <2>8, RestsFollows
  <2> QED  BY <2>1, <2>5, <2>9, RestsBound, CountKept DEF CountInv
<1>2. CASE ConfirmArchive(w)
  <2>1. /\ pc[w] = "publish_archive" /\ archive' = archive \cup {out[w]}
        /\ UNCHANGED <<accepted, tries>>
    BY <1>2 DEF ConfirmArchive
  <2>2. CASE \E step \in {"ack", "notify_failure"} :
               Goto(w, step) /\ UNCHANGED <<broker, tag, msg, repeated>>
    <3>1. OthersStay(w) /\ pc'[w] \in {"ack", "notify_failure"}
      BY <2>2, StepShape DEF Goto
    <3>2. Rests  BY <3>1 DEF Rests, OthersStay, Early, Publishing
    <3>3. \A s \in Source : \A i \in Id : \A k : Waiting(i, s, k)' => Claim(s, k)
      BY <2>2 DEF Waiting, Claim, IsSource, Count, broker
    <3>4. \A s \in Source : \A k : Held(s, k)' => Held(s, k)
      BY <2>2 DEF Held, IsSource, Count, broker
    <3>5. \A s \in Source : Follows(s)  BY <2>1, <3>2, <3>3, <3>4, RestsFollows
    <3> QED  BY <2>1, <2>2, <3>2, <3>5, RestsBound, CountKept DEF CountInv
  <2>3. CASE RequeueAndStop(w)
    BY <2>1, <2>3, GiveBackCount DEF RequeueAndStop
  <2> QED  BY <1>2, <2>2, <2>3 DEF ConfirmArchive
<1>3. CASE PublishFails(w)
  BY <1>3, GiveBackCount DEF PublishFails, RequeueAndStop
<1>r. ASSUME RemoveCopy(tag[w]), Rests, UNCHANGED <<archive, accepted, repeated, tries>>
      PROVE  CountInv'
  <2>1. \A i \in Id : queue'[i] # "free" => queue'[i] = queue[i] /\ copy'[i] = copy[i]
    BY <1>r DEF RemoveCopy, TypeOK, BrokerOK
  <2>2. \A s \in Source : \A i \in Id : \A k : Waiting(i, s, k)' => Claim(s, k)
    BY <2>1 DEF Waiting, Claim, IsSource, Count
  <2>3. \A s \in Source : \A k : Held(s, k)' => Held(s, k)
    BY <2>1 DEF Held, IsSource, Count
  <2>4. \A s \in Source : Follows(s)  BY <1>r, <2>2, <2>3, RestsFollows
  <2> QED  BY <1>r, <2>4, RestsBound, CountKept DEF CountInv
<1>4. CASE Ack(w)
  <2>1. Rests  BY <1>4 DEF Ack, Rests, TypeOK, WorkerOK, Early, Publishing
  <2> QED  BY <1>r, <1>4, <2>1 DEF Ack
<1>5. CASE AckFails(w)
  <2>1. Stop(w) /\ UNCHANGED <<archive, accepted, tries>>  BY <1>5 DEF AckFails
  <2>2. Rests  BY <2>1 DEF Rests, Stop, TypeOK, WorkerOK, Early, Publishing
  <2>3. CASE RemoveCopy(tag[w]) /\ UNCHANGED repeated
    BY <1>r, <2>1, <2>2, <2>3
  <2>4. CASE GiveBack(w)
    BY <2>1, <2>4, GiveBackCount
  <2>5. CASE ~Live(w) /\ UNCHANGED <<broker, repeated>>
    <3>1. GiveBack(w)  BY <2>5 DEF GiveBack, broker
    <3> QED  BY <2>1, <3>1, GiveBackCount
  <2> QED  BY <1>5, <2>3, <2>4, <2>5 DEF AckFails
<1> QED  BY <1>1, <1>2, <1>3, <1>4, <1>5 DEF Settle

LEMMA FailCount ==
  ASSUME TypeOK, Tracked, CountInv, NEW w \in Worker, Fail(w)
  PROVE  CountInv'
<1>1. CASE ConfirmLost(w)
  <2>1. CASE pc[w] = "publish_retry"
    <3>1. /\ Live(w) /\ Repeat(msg[w]) /\ Stop(w) /\ UNCHANGED <<archive, accepted, tries>>
          /\ Free # {} /\ copy' = [copy EXCEPT ![NewCopy] = out[w]]
          /\ queue' = [queue EXCEPT ![NewCopy] = "retry", ![tag[w]] = "main"]
      BY <1>1, <2>1 DEF ConfirmLost
    <3>2. PICK j \in Id : /\ queue[j] = "free" /\ copy' = [copy EXCEPT ![j] = out[w]]
                          /\ queue' = [queue EXCEPT ![j] = "retry", ![tag[w]] = "main"]
      BY <3>1, NewCopyIsFree
    <3>3. tag[w] \in Id \ {j} /\ queue[tag[w]] = "unacked" /\ copy[tag[w]] = msg[w]
      BY <3>1, <3>2 DEF TypeOK, WorkerOK, HoldOK, Live
    <3>4. /\ queue'[j] = "retry" /\ copy'[j] = out[w]
          /\ queue'[tag[w]] = "main" /\ copy'[tag[w]] = msg[w]
          /\ \A i \in Id \ {j, tag[w]} : queue'[i] = queue[i] /\ copy'[i] = copy[i]
      BY <3>2, <3>3 DEF TypeOK, BrokerOK
    <3>5. Rests  BY <3>1 DEF Rests, Stop, TypeOK, WorkerOK, Early, Publishing
    <3>6. out[w].body.src = Src(w)  BY <2>1 DEF Tracked
    <3>7. ASSUME NEW s \in Source, NEW i \in Id, NEW k, Waiting(i, s, k)'
          PROVE  Claim(s, k) \/ (Held(s, k) /\ s \in repeated')
      <4>1. CASE i = j
        BY <2>1, <3>4, <3>6, <3>7, <4>1 DEF Waiting, Claim, Announced, IsSource, Count
      <4>2. CASE i = tag[w]
        BY <3>1, <3>3, <3>4, <3>7, <4>2 DEF Waiting, Held, Repeat, IsSource, Count
      <4>3. CASE i \notin {j, tag[w]}
        BY <3>4, <3>7, <4>3 DEF Waiting, Claim, IsSource, Count
      <4> QED  BY <4>1, <4>2, <4>3
    <3>8. \A s \in Source : \A k : Held(s, k)' => Held(s, k)
      BY <3>4 DEF Held, IsSource, Count
    <3>9. \A s \in Source : Follows(s)  BY <3>1, <3>5, <3>7, <3>8, RestsFollows
    <3>10. repeated \subseteq repeated'  BY <3>1 DEF Repeat
    <3> QED  BY <3>1, <3>5, <3>9, <3>10, RestsBound, CountKept DEF CountInv
  <2>2. CASE pc[w] = "publish_archive"
    <3>1. GiveBack(w) /\ archive' = archive \cup {out[w]}
      BY <1>1, <2>2 DEF ConfirmLost, GiveBack
    <3> QED  BY <1>1, <2>2, <3>1, GiveBackCount DEF ConfirmLost
  <2> QED  BY <1>1, <2>1, <2>2 DEF ConfirmLost
<1>2. CASE Disconnect(w)
  BY <1>2, GiveBackCount DEF Disconnect
<1>3. CASE Crash(w)
  BY <1>3, GiveBackCount DEF Crash, RequeueAndStop
<1> QED  BY <1>1, <1>2, <1>3 DEF Fail

\* A copy that died is of the same request, and counts the same runs.
LEMMA DeadWaits ==
  ASSUME NEW m \in Message
  PROVE  /\ IsSource([m EXCEPT !.died = TRUE]) <=> IsSource(m)
         /\ [m EXCEPT !.died = TRUE].body.src = m.body.src
         /\ Count([m EXCEPT !.died = TRUE]) = Count(m)
<1> DEFINE dead == [m EXCEPT !.died = TRUE]
<1>1. dead.body = m.body /\ dead.sig = m.sig /\ dead.attempt = m.attempt  BY DeadShape
<1> HIDE DEF dead
<1>2. /\ IsSource(dead) <=> IsSource(m)
      /\ dead.body.src = m.body.src
      /\ Count(dead) = Count(m)
  BY <1>1 DEF IsSource, Count
<1> QED  BY <1>2 DEF dead

LEMMA BrokerStepCount ==
  ASSUME TypeOK, CountInv
  PROVE  /\ \A w \in Worker : Connect(w) => CountInv'
         /\ \A i \in Id : Expire(i) => CountInv'
         /\ \A i \in Id : ExpireTwice(i) => CountInv'
<1>1. ASSUME NEW w \in Worker, Connect(w)  PROVE CountInv'
  <2>1. Rests  BY <1>1 DEF Connect, Rests, TypeOK, WorkerOK, Early, Publishing
  <2>2. UNCHANGED <<queue, copy, archive, accepted, repeated, tries>>
    BY <1>1 DEF Connect, broker
  <2>3. \A s \in Source : \A i \in Id : \A k : Waiting(i, s, k)' => Claim(s, k)
    BY <2>2 DEF Waiting, Claim, IsSource, Count
  <2>4. \A s \in Source : \A k : Held(s, k)' => Held(s, k)
    BY <2>2 DEF Held, IsSource, Count
  <2>5. \A s \in Source : Follows(s)  BY <2>1, <2>2, <2>3, <2>4, RestsFollows
  <2> QED  BY <2>1, <2>2, <2>5, RestsBound, CountKept DEF CountInv
<1>2. ASSUME NEW i \in Id, Expire(i)  PROVE CountInv'
  <2>1. /\ copy[i] \in Message /\ queue[i] = "retry" /\ copy' = [copy EXCEPT ![i].died = TRUE]
        /\ queue' = [queue EXCEPT ![i] = "main"]
        /\ UNCHANGED <<pc, msg, out, archive, accepted, repeated, tries>>
    BY <1>2 DEF Expire, TypeOK, BrokerOK
  <2>2. /\ copy'[i] = [copy[i] EXCEPT !.died = TRUE] /\ queue'[i] = "main"
        /\ \A j \in Id \ {i} : copy'[j] = copy[j] /\ queue'[j] = queue[j]
    BY <2>1 DEF TypeOK, BrokerOK
  <2>3. Rests  BY <2>1 DEF Rests
  <2>4. \A s \in Source : \A j \in Id : \A k : Waiting(j, s, k)' => Claim(s, k)
    <3> SUFFICES ASSUME NEW s \in Source, NEW j \in Id, NEW k, Waiting(j, s, k)'
                 PROVE  Claim(s, k)
      OBVIOUS
    <3>1. CASE j = i
      <4>1. /\ IsSource(copy'[i]) <=> IsSource(copy[i])
            /\ copy'[i].body.src = copy[i].body.src /\ Count(copy'[i]) = Count(copy[i])
        BY <2>1, <2>2, DeadWaits
      <4>2. Waiting(i, s, k)  BY <2>1, <3>1, <4>1 DEF Waiting
      <4> QED  BY <4>2 DEF Claim
    <3>2. CASE j # i
      <4>1. Waiting(j, s, k)  BY <2>2, <3>2 DEF Waiting, IsSource, Count
      <4> QED  BY <4>1 DEF Claim
    <3> QED  BY <3>1, <3>2
  <2>5. \A s \in Source : \A k : Held(s, k)' => Held(s, k)
    BY <2>2 DEF Held, IsSource, Count
  <2>6. \A s \in Source : Follows(s)  BY <2>1, <2>3, <2>4, <2>5, RestsFollows
  <2> QED  BY <2>1, <2>3, <2>6, RestsBound, CountKept DEF CountInv
<1>3. ASSUME NEW i \in Id, ExpireTwice(i)  PROVE CountInv'
  <2>1. /\ copy[i] \in Message /\ queue[i] = "retry" /\ repeated \subseteq repeated'
        /\ UNCHANGED <<pc, msg, out, archive, accepted, tries>>
    BY <1>3 DEF ExpireTwice, TypeOK, BrokerOK, Repeat
  <2>2. PICK j \in Id : Puts(j, "main", [copy[i] EXCEPT !.died = TRUE])
    BY <1>3, NewCopyIsFree DEF ExpireTwice, PutCopy, Puts
  <2>3. /\ copy'[j] = [copy[i] EXCEPT !.died = TRUE] /\ queue'[j] = "main"
        /\ \A k \in Id \ {j} : copy'[k] = copy[k] /\ queue'[k] = queue[k]
    BY <2>2 DEF Puts, TypeOK, BrokerOK
  <2>4. Rests  BY <2>1 DEF Rests
  <2>5. \A s \in Source : \A l \in Id : \A k : Waiting(l, s, k)' => Claim(s, k)
    <3> SUFFICES ASSUME NEW s \in Source, NEW l \in Id, NEW k, Waiting(l, s, k)'
                 PROVE  Claim(s, k)
      OBVIOUS
    <3>1. CASE l = j
      <4>1. /\ IsSource(copy'[j]) <=> IsSource(copy[i])
            /\ copy'[j].body.src = copy[i].body.src /\ Count(copy'[j]) = Count(copy[i])
        BY <2>1, <2>3, DeadWaits
      <4>2. Waiting(i, s, k)  BY <2>1, <3>1, <4>1 DEF Waiting
      <4> QED  BY <4>2 DEF Claim
    <3>2. CASE l # j
      BY <2>3, <3>2 DEF Waiting, Claim, IsSource, Count
    <3> QED  BY <3>1, <3>2
  <2>6. \A s \in Source : \A k : Held(s, k)' => Held(s, k)
    BY <2>3 DEF Held, IsSource, Count
  <2>7. \A s \in Source : Follows(s)  BY <2>1, <2>4, <2>5, <2>6, RestsFollows
  <2> QED  BY <2>1, <2>4, <2>7, RestsBound, CountKept DEF CountInv
<1> QED  BY <1>1, <1>2, <1>3

\* A new request has not run, and its copy claims no run.
LEMMA AcceptCount ==
  ASSUME TypeOK, CountInv, NEW r \in Source, Accept(r)
  PROVE  CountInv'
<1>1. /\ r \notin accepted /\ accepted' = accepted \cup {r}
      /\ UNCHANGED <<pc, msg, out, archive, repeated, tries>>
  BY DEF Accept
<1>2. PICK j \in Id : Puts(j, "main", SourceMessage(r))
  BY NewCopyIsFree DEF Accept, PutCopy, Puts
<1>3. /\ copy'[j] = SourceMessage(r) /\ queue'[j] = "main"
      /\ \A i \in Id \ {j} : copy'[i] = copy[i] /\ queue'[i] = queue[i]
  BY <1>2 DEF Puts, TypeOK, BrokerOK
<1>4. Rests  BY <1>1 DEF Rests
<1>5. SourceMessage(r).body.src = r /\ Count(SourceMessage(r)) = 0
  BY DEF SourceMessage, Count
<1>6. \A s \in Source : \A i \in Id : \A k :
        Waiting(i, s, k)' => Waiting(i, s, k) \/ (s = r /\ k = 0)
  BY <1>3, <1>5 DEF Waiting, IsSource, Count
<1>7. \A s \in Source : \A k : Held(s, k)' => Held(s, k)
  BY <1>3 DEF Held, IsSource, Count
<1>8. \A s \in Source \ {r} : Follows(s)
  BY <1>1, <1>4, <1>6, <1>7, RestsFollows DEF Claim
<1>9. \A k : Claim(r, k)' => Claim(r, k) \/ k = 0
  <2>1. \A v \in Worker, s \in Source : \A k : /\ Runs(v, s, k)' => Runs(v, s, k)
                                               /\ Announced(v, s, k)' => Announced(v, s, k)
    BY <1>1 DEF Runs, Announced, Src, Attempt, Exhausted, IsSource, Count
  <2> QED  BY <1>1, <1>6, <2>1 DEF Claim, Exhausted
<1>10. tries[r] = 0  BY <1>1 DEF CountInv, TriesInv
<1>11. AtMost(r)'  BY <1>1, <1>7, <1>9, <1>10 DEF CountInv, AtMost, Capped
<1>12. r \notin repeated' => Exact(r)'  BY <1>1, <1>9, <1>10 DEF CountInv, Exact, Capped
<1>13. \A s \in Source \ {r} : AtMost(s)' /\ (s \notin repeated' => Exact(s)')
  BY <1>1, <1>8, FollowsCount DEF CountInv
<1> QED  BY <1>1, <1>4, <1>11, <1>12, <1>13, RestsBound DEF CountInv, TriesInv

\* A request that waits in the queue, and was never put back unsettled, is all there is.
LEMMA Alone ==
  ASSUME TypeOK, ShapeInv, Tracked, NEW s \in Source \ repeated, Line(s), NEW i \in Id,
         queue[i] = "main", IsSource(copy[i]), copy[i].body.src = s
  PROVE  /\ ~Failed(s)
         /\ \A v \in Worker : \A k : ~Runs(v, s, k) /\ ~Announced(v, s, k)
         /\ \A j \in Id : \A k : Waiting(j, s, k) => j = i
<1>1. \A j \in Id : queue[j] \in {"main", "retry"} =>
        ~Acking(j) /\ \A v \in Worker : tag[v] # j
  BY FreeNotHeld DEF Acking
<1>2. Open(s, i)  BY <1>1 DEF Open, Pending
<1>3. ~Failed(s)  BY <1>1, <1>2 DEF Line, After, Closed
<1>4. ASSUME NEW v \in Worker, pc[v] \in Active \ {"ack"}, IsSource(msg[v]), Src(v) = s
      PROVE  FALSE
  BY <1>1, <1>2, <1>4, Sole
<1>5. ASSUME NEW v \in Worker, NEW k, Runs(v, s, k) \/ Announced(v, s, k)  PROVE FALSE
  <2>1. Src(v) = s /\ pc[v] \in Active \ {"ack"}
    BY <1>5 DEF Runs, Announced, Early, Exhausted, Tracked
  <2>2. IsSource(msg[v])
    BY <1>5 DEF Runs, Announced, ShapeInv, HandlerShape, Publishing, Exhausted
  <2> QED  BY <1>4, <2>1, <2>2
<1>6. \A j \in Id : \A k : Waiting(j, s, k) => Open(s, j)
  BY <1>1 DEF Waiting, Open, Pending
<1> QED  BY <1>2, <1>3, <1>5, <1>6 DEF Line, Unique

LEMMA ClaimType ==
  ASSUME TypeOK, NEW s, NEW k, Claim(s, k) \/ Held(s, k)
  PROVE  k \in Nat
<1>1. \A m \in Message : Count(m) \in Nat  BY DEF Count, Message
<1>2. ASSUME NEW i \in Id, queue[i] # "free", k = Count(copy[i])  PROVE k \in Nat
  BY <1>1, <1>2 DEF TypeOK, BrokerOK
<1>3. ASSUME NEW w \in Worker, Runs(w, s, k)  PROVE k \in Nat
  <2>1. msg[w] \in Message  BY <1>3 DEF Runs, Early, TypeOK, WorkerOK
  <2> QED  BY <1>3, <2>1, AttemptType DEF Runs
<1>4. ASSUME NEW w \in Worker, Announced(w, s, k)  PROVE k \in Nat
  BY <1>1, <1>4 DEF Announced, TypeOK, WorkerOK, Envelope
<1>5. ASSUME NEW e \in archive, k = e.attempts  PROVE k \in Nat
  BY <1>5 DEF TypeOK, EffectOK, Envelope
<1> QED  BY <1>2, <1>3, <1>4, <1>5 DEF Claim, Held, Waiting

LEMMA DeliverCount ==
  ASSUME TypeOK, ShapeInv, Tracked, LineInv, CountInv,
         NEW w \in Worker, NEW i \in Id, Deliver(w, i)
  PROVE  CountInv'
<1> DEFINE m == copy[i]
           e == ArchiveBody(w, m.body, 1, "invalid-retry-state")
<1>1. /\ pc[w] = "idle" /\ queue[i] = "main" /\ queue' = [queue EXCEPT ![i] = "unacked"]
      /\ tag' = [tag EXCEPT ![w] = i] /\ msg' = [msg EXCEPT ![w] = m]
      /\ UNCHANGED <<copy, archive, accepted, repeated>>
  BY DEF Deliver
<1>2. /\ m \in Message /\ Sane(m) /\ e.code = "invalid-retry-state"
      /\ m.body.src \in accepted /\ m.body.src \in Source /\ m.attempt \in Nat
      /\ m.body.what \in {"source", "success", "failure"}
  BY <1>1 DEF TypeOK, BrokerOK, ShapeInv, CopyShape, Tracked, Message, Body, ArchiveBody
<1> HIDE DEF e, m
<1>3. PICK step, o :
        /\ PublishNext(w, step, o)
        /\ \/ step = "publish_archive" /\ o = e /\ tries' = tries
           \/ step = "callback" /\ tries' = tries
           \/ /\ step = "render" /\ ~InvalidRetryState(w, m) /\ CallbackMode(w, m) = "none"
              /\ tries' = [tries EXCEPT ![m.body.src] = IF @ < TriesCap THEN @ + 1 ELSE @]
  BY DEF Deliver, ArchiveNext, Goto, m, e
<1>4. pc'[w] = step /\ out'[w] = o /\ msg'[w] = m /\ OthersStay(w)
  BY <1>1, <1>3 DEF PublishNext, TypeOK, WorkerOK, OthersStay
<1>5. queue'[i] = "unacked" /\ copy'[i] = m /\ copy[i] = m
      /\ \A j \in Id \ {i} : queue'[j] = queue[j] /\ copy'[j] = copy[j]
  BY <1>1 DEF TypeOK, BrokerOK, m
<1>6. BoundInv'
  <2>1. \A v \in Worker : pc'[v] = "publish_archive" =>
          \/ pc[v] = "publish_archive" /\ out'[v] = out[v]
          \/ Uniform => AllTries(out'[v])
    BY <1>2, <1>3, <1>4 DEF OthersStay, AllTries
  <2> QED  BY <1>1, <2>1, BoundKept DEF CountInv
<1>7. ASSUME NEW s \in Source, NEW k, Held(s, k)'
      PROVE  Held(s, k) \/ (s = m.body.src /\ k = Count(m) /\ Waiting(i, s, k))
  BY <1>1, <1>5, <1>7 DEF Held, Waiting, IsSource, Count
<1>8. ASSUME NEW s \in Source, NEW k, Claim(s, k)'
      PROVE  \/ \E j \in Id \ {i} : Waiting(j, s, k)
             \/ \E v \in Worker \ {w} : Runs(v, s, k) \/ Announced(v, s, k)
             \/ \E x \in archive : Exhausted(x, s) /\ k = x.attempts
             \/ step = "render" /\ s = m.body.src /\ k = Attempt(w, m) + 1
  <2>1. \A j \in Id : Waiting(j, s, k)' => j # i /\ Waiting(j, s, k)
    BY <1>5 DEF Waiting, IsSource, Count
  <2>2. \A v \in Worker \ {w} : Runs(v, s, k)' \/ Announced(v, s, k)'
          => Runs(v, s, k) \/ Announced(v, s, k)
    BY <1>4, OthersClaim
  <2>3. ~Announced(w, s, k)'
    BY <1>2, <1>3, <1>4 DEF Announced, Exhausted
  <2>4. Runs(w, s, k)' => step = "render" /\ s = m.body.src /\ k = Attempt(w, m) + 1
    BY <1>3, <1>4 DEF Runs, Early, Src, Attempt
  <2> QED  BY <1>1, <1>8, <2>1, <2>2, <2>3, <2>4 DEF Claim, Exhausted
<1>9. CASE step # "render"
  <2>1. \A s \in Source : Follows(s)
    BY <1>3, <1>7, <1>8, <1>9 DEF Follows, Claim
  <2> QED  BY <1>1, <1>3, <1>6, <1>9, <2>1, CountKept
<1>10. CASE step = "render"
  <2>0. PICK r \in Source : r = m.body.src  BY <1>2
  <2>1. /\ ~InvalidRetryState(w, m) /\ CallbackMode(w, m) = "none"
        /\ tries' = [tries EXCEPT ![r] = IF @ < TriesCap THEN @ + 1 ELSE @]
    BY <1>3, <1>10, <2>0
  <2>2. IsSource(m) /\ Attempt(w, m) = Count(m) /\ Count(m) \in Nat
    <3>1. CASE Attempt(w, m) = 0
      <4>1. m.mode = "none" /\ m.sig = NoSignature
        BY <2>1, <3>1 DEF InvalidRetryState, HasRetryState
      <4> QED  BY <1>2, <3>1, <4>1 DEF Sane, Count, IsSource
    <3>2. CASE Attempt(w, m) # 0
      <4>1. m.mode = "none" /\ Attempt(w, m) = m.attempt
            /\ m.sig = RetrySignature(m.body, m.attempt, m.mode)
        BY <2>1, <3>2 DEF CallbackMode, Attempt
      <4>2. m.sig \in Signature
        BY <1>2, <4>1 DEF RetrySignature, Signature, Message, Mode
      <4> QED  BY <1>2, <4>1, <4>2, NoSignatureAssumption DEF Sane, Count, IsSource
    <3> QED  BY <3>1, <3>2
  <2>3. Waiting(i, r, Count(m)) /\ Claim(r, Count(m))
    BY <1>1, <1>5, <2>0, <2>2 DEF Waiting, Claim, IsSource
  <2>4. tries[r] \in Nat /\ tries[r] <= TriesCap
    BY DEF CountInv, TriesInv, TypeOK, EffectOK
  <2>5. /\ tries'[r] = IF tries[r] < TriesCap THEN tries[r] + 1 ELSE tries[r]
        /\ \A s \in Source \ {r} : tries'[s] = tries[s]
    BY <2>1, <2>4 DEF TypeOK, EffectOK
  <2>6. \A s \in Source \ {r} : AtMost(s)' /\ (s \notin repeated' => Exact(s)')
    <3>1. \A s \in Source \ {r} : Follows(s)
      BY <1>7, <1>8, <2>0, <2>5 DEF Follows, Claim
    <3> QED  BY <1>1, <3>1, FollowsCount DEF CountInv
  <2>7. AtMost(r)'
    <3> SUFFICES ASSUME NEW k, Claim(r, k)' \/ Held(r, k)'
                 PROVE  k <= tries'[r] \/ tries'[r] = TriesCap
      BY DEF AtMost, Capped
    <3>1. Claim(r, k) \/ Held(r, k) \/ k = Count(m) + 1
      BY <1>7, <1>8, <2>0, <2>2 DEF Claim
    <3>2. AtMost(r)  BY DEF CountInv
    <3>3. Count(m) <= tries[r] \/ tries[r] = TriesCap
      BY <2>3, <3>2 DEF AtMost, Capped
    <3>4. CASE Claim(r, k) \/ Held(r, k)
      <4>1. k <= tries[r] \/ tries[r] = TriesCap  BY <3>2, <3>4 DEF AtMost, Capped
      <4>2. k \in Nat  BY <3>4, ClaimType
      <4> QED  BY <2>4, <2>5, <4>1, <4>2, BoundAssumption
    <3>5. CASE k = Count(m) + 1
      BY <2>2, <2>4, <2>5, <3>3, <3>5, BoundAssumption
    <3> QED  BY <3>1, <3>4, <3>5
  <2>8. r \notin repeated' => Exact(r)'
    <3> SUFFICES ASSUME r \notin repeated, NEW k, Claim(r, k)'
                 PROVE  k = tries'[r] \/ tries'[r] = TriesCap
      BY <1>1 DEF Exact, Capped
    <3>1. Line(r)  BY DEF LineInv
    <3>2. /\ ~Failed(r)
          /\ \A v \in Worker : ~Runs(v, r, k) /\ ~Announced(v, r, k)
          /\ \A j \in Id : Waiting(j, r, k) => j = i
      BY <1>1, <1>5, <2>0, <2>2, <3>1, Alone
    <3>3. k = Count(m) + 1  BY <1>8, <2>2, <3>2 DEF Failed
    <3>4. Count(m) = tries[r] \/ tries[r] = TriesCap
      BY <2>3 DEF CountInv, Exact, Capped
    <3> QED  BY <2>2, <2>4, <2>5, <3>3, <3>4, BoundAssumption
  <2>9. TriesInv'
    BY <1>1, <1>2, <2>0, <2>4, <2>5, BoundAssumption DEF CountInv, TriesInv, TypeOK, EffectOK
  <2> QED  BY <1>6, <2>6, <2>7, <2>8, <2>9 DEF CountInv
<1> QED  BY <1>9, <1>10

LEMMA NextCount ==
  TypeOK /\ ShapeInv /\ Tracked /\ LineInv /\ CountInv /\ [Next]_vars => CountInv'
<1> SUFFICES ASSUME TypeOK, ShapeInv, Tracked, LineInv, CountInv, [Next]_vars PROVE CountInv'
  OBVIOUS
<1>1. CASE Next
  BY <1>1, AcceptCount, HandleCount, SettleCount, FailCount, DeliverCount, BrokerStepCount
  DEF Next
<1>2. CASE UNCHANGED vars
  <2>1. UNCHANGED <<queue, copy, pc, msg, out, archive, accepted, repeated, tries>>
    BY <1>2 DEF vars
  <2>2. Rests  BY <2>1 DEF Rests
  <2>3. \A s \in Source : \A i \in Id : \A k : Waiting(i, s, k)' => Claim(s, k)
    BY <2>1 DEF Waiting, Claim, IsSource, Count
  <2>4. \A s \in Source : \A k : Held(s, k)' => Held(s, k)
    BY <2>1 DEF Held, IsSource, Count
  <2>5. \A s \in Source : Follows(s)  BY <2>1, <2>2, <2>3, <2>4, RestsFollows
  <2> QED  BY <2>1, <2>2, <2>5, RestsBound, CountKept DEF CountInv
<1> QED  BY <1>1, <1>2

LEMMA InitCount == Init => CountInv
<1> SUFFICES ASSUME Init PROVE CountInv  OBVIOUS
<1>1. \A s \in Source : \A k : ~Claim(s, k) /\ ~Held(s, k)
  BY DEF Init, Claim, Held, Waiting, Runs, Announced, Early
<1>2. TriesInv /\ BoundInv
  BY BoundAssumption DEF Init, TriesInv, BoundInv
<1> QED  BY <1>1, <1>2 DEF CountInv, AtMost, Exact

\* Attempts are counted truly, whatever is lost or repeated: an envelope never claims more
\* runs of its request than there were, claims them all when the request was never put
\* back unsettled, and is not published before the runs that all workers allow.
THEOREM AttemptsAreCounted == Spec => []AttemptsAreHonest
<1>1. Init => CountInv  BY InitCount
<1>2. LineAll /\ CountInv /\ [Next]_vars => CountInv'
  BY NextCount DEF LineAll
<1>3. LineAll /\ CountInv => AttemptsAreHonest
  <2> SUFFICES ASSUME TypeOK, CountInv, NEW e \in archive, e.code = "processing-failed"
               PROVE  LET s == e.body.src IN
                      /\ e.attempts <= tries[s] \/ tries[s] = TriesCap
                      /\ s \notin repeated => e.attempts = tries[s] \/ tries[s] = TriesCap
                      /\ Uniform => \A w \in Worker : e.attempts = MaxRetries[w] + 1
    BY DEF AttemptsAreHonest, LineAll
  <2>1. PICK s \in Source : s = e.body.src
    BY DEF TypeOK, EffectOK, Envelope, Body
  <2>2. Claim(s, e.attempts)  BY <2>1 DEF Claim, Exhausted
  <2>3. e.attempts <= tries[s] \/ tries[s] = TriesCap
    BY <2>2 DEF CountInv, AtMost, Capped
  <2>4. s \notin repeated => e.attempts = tries[s] \/ tries[s] = TriesCap
    BY <2>2 DEF CountInv, Exact, Capped
  <2>5. Uniform => \A w \in Worker : e.attempts = MaxRetries[w] + 1
    BY DEF CountInv, BoundInv, AllTries
  <2> QED  BY <2>1, <2>3, <2>4, <2>5
<1> QED  BY <1>1, <1>2, <1>3, LineAlways, PTL DEF Spec
-----------------------------------------------------------------------------
(* Retries run out.                                                        *)

Running == Early \cup {"callback"}

\* A handler that runs believes the attempt of its message, and what it is about to queue
\* is further.
Forward(w) ==
  /\ pc[w] \in Running => Attempt(w, msg[w]) = msg[w].attempt
  /\ pc[w] = "publish_retry" =>
       Advances(msg[w], out[w]) /\ out[w].attempt \in 1..MaxRetries[w]

ForwardInv == \A w \in Worker : Forward(w)

\* A handler goes on, and queues nothing but what is further.
Moves(w) == \E step \in Active : \E o :
  /\ PublishNext(w, step, o)
  /\ step \in Running => pc[w] \in Running
  /\ step = "publish_retry" => Advances(msg[w], o) /\ o.attempt \in 1..MaxRetries[w]
  /\ UNCHANGED msg

LEMMA MoveForward ==
  ASSUME TypeOK, ForwardInv, NEW w \in Worker, Moves(w)
  PROVE  ForwardInv'
<1>1. PICK step \in Active : \E o :
        /\ PublishNext(w, step, o)
        /\ step \in Running => pc[w] \in Running
        /\ step = "publish_retry" => Advances(msg[w], o) /\ o.attempt \in 1..MaxRetries[w]
        /\ UNCHANGED msg
  BY DEF Moves
<1>2. PICK o :
        /\ PublishNext(w, step, o)
        /\ step \in Running => pc[w] \in Running
        /\ step = "publish_retry" => Advances(msg[w], o) /\ o.attempt \in 1..MaxRetries[w]
        /\ UNCHANGED msg
  BY <1>1
<1>3. /\ pc'[w] = step /\ out'[w] = o
      /\ \A v \in Worker \ {w} : pc'[v] = pc[v] /\ out'[v] = out[v]
  BY <1>2 DEF PublishNext, TypeOK, WorkerOK
<1>4. \A v \in Worker : Attempt(v, msg[v])' = Attempt(v, msg[v])
  BY <1>2 DEF Attempt
<1>5. ASSUME NEW v \in Worker  PROVE Forward(v)'
  BY <1>2, <1>3, <1>4 DEF ForwardInv, Forward, Advances
<1> QED  BY <1>5 DEF ForwardInv

\* A handler that stops leaves the others where they are.
LEMMA RestForward ==
  ASSUME ForwardInv, NEW w \in Worker, OthersStay(w), pc'[w] \in {"down", "idle"}
  PROVE  ForwardInv'
<1>1. ASSUME NEW v \in Worker \ {w}  PROVE Forward(v)'
  BY DEF ForwardInv, Forward, OthersStay, Attempt, Advances
<1>2. Forward(w)'  BY DEF Forward, Running, Early
<1> QED  BY <1>1, <1>2 DEF ForwardInv

LEMMA RequeueForward ==
  ASSUME TypeOK, ForwardInv, NEW w \in Worker, Stop(w)
  PROVE  ForwardInv'
BY StopShape, RestForward

\* A retry of what the handler was given, and a continuation that leaves the request.
LEMMA RetryMoves ==
  ASSUME NEW w \in Worker, NEW b, NEW mode, NEW k \in Nat, k < MaxRetries[w],
         RetryNext(w, b, k + 1, mode), UNCHANGED msg, b.src = Src(w),
         \/ b = msg[w].body /\ k = msg[w].attempt
         \/ IsSource(msg[w]) /\ b.what # "source"
  PROVE  Moves(w)
<1> DEFINE r == RetryMessage(b, k + 1, mode)
<1>1. r.body = b /\ r.attempt = k + 1  BY DEF RetryMessage
<1>2. PublishNext(w, "publish_retry", r)  BY DEF RetryNext
<1> HIDE DEF r
<1>3. r.attempt \in 1..MaxRetries[w]  BY <1>1, RetryAssumption
<1>4. Advances(msg[w], r)  BY <1>1 DEF Advances, Stage, IsSource, Src
<1> QED  BY <1>2, <1>3, <1>4 DEF Moves, Running, Early

LEMMA StepMoves ==
  ASSUME NEW w \in Worker, NEW step \in Active \ {"publish_retry"}, NEW o,
         PublishNext(w, step, o), step \in Running => pc[w] \in Running, UNCHANGED msg
  PROVE  Moves(w)
BY DEF Moves

LEMMA FailureMoves ==
  ASSUME TypeOK, ForwardInv, NEW w \in Worker, pc[w] \in Running,
         SettleProcessingFailure(w), UNCHANGED msg
  PROVE  Moves(w)
<1> DEFINE k == Attempt(w, msg[w])
<1>1. msg[w] \in Message  BY DEF TypeOK, WorkerOK, Running, Early
<1>2. k \in Nat /\ k = msg[w].attempt
  BY <1>1 DEF ForwardInv, Forward, Message
<1>3. CASE MayRetry(w, k)
  BY <1>2, <1>3, RetryMoves DEF SettleProcessingFailure, MayRetry, Src
<1>4. CASE ~MayRetry(w, k)
  BY <1>4, StepMoves DEF SettleProcessingFailure, ArchiveNext, Running, Early
<1> QED  BY <1>3, <1>4

LEMMA CallbackMoves ==
  ASSUME NEW w \in Worker, NEW b, NEW mode, NEW k \in Nat, SettleCallbackFailure(w, b, mode, k),
         UNCHANGED msg, b.src = Src(w),
         \/ b = msg[w].body /\ k = msg[w].attempt
         \/ IsSource(msg[w]) /\ b.what # "source"
  PROVE  Moves(w)
<1>1. CASE MayRetry(w, k)
  BY <1>1, RetryMoves DEF SettleCallbackFailure, MayRetry
<1>2. CASE ~MayRetry(w, k)
  BY <1>2, StepMoves DEF SettleCallbackFailure, ArchiveNext, Running, Early
<1> QED  BY <1>1, <1>2

LEMMA HandleForward ==
  ASSUME TypeOK, ShapeInv, ForwardInv, NEW w \in Worker, Handle(w)
  PROVE  ForwardInv'
<1>0. pc[w] \in Active  BY HandleEffect
<1>1. CASE RejectRequest(w)
  BY <1>1, StepMoves, MoveForward DEF RejectRequest, ArchiveNext, Running, Early
<1>2. CASE RequestUncaught(w) \/ RenderFails(w) \/ PublishDocumentFails(w) \/ UnlinkFails(w)
  BY <1>2, FailureMoves, MoveForward
     DEF RequestUncaught, RenderFails, PublishDocumentFails, UnlinkFails, Running, Early
<1>3. CASE Render(w) \/ PublishDocument(w) \/ Unlink(w)
  BY <1>3, StepMoves, MoveForward
     DEF Render, PublishDocument, AfterPublish, Unlink, Goto, Running, Early
<1>4. CASE NotifySuccess(w)
  <2> DEFINE b == [src |-> Src(w), what |-> "success"]
  <2>1. pc[w] = "notify" /\ UNCHANGED msg /\ IsSource(msg[w])
    BY <1>4 DEF NotifySuccess, ShapeInv, HandlerShape, Early
  <2>2. CASE Goto(w, "ack")
    BY <2>1, <2>2, StepMoves, MoveForward DEF Goto, Running, Early
  <2>3. CASE SettleCallbackFailure(w, b, "success", 0)
    BY <2>1, <2>3, CallbackMoves, MoveForward
  <2>4. CASE SettleProcessingFailure(w)
    BY <2>1, <2>4, FailureMoves, MoveForward DEF Running, Early
  <2> QED  BY <1>4, <2>2, <2>3, <2>4 DEF NotifySuccess
<1>5. CASE DeliverCallback(w)
  <2> DEFINE k == Attempt(w, msg[w])
  <2>1. pc[w] = "callback" /\ UNCHANGED msg /\ msg[w] \in Message
    BY <1>5 DEF DeliverCallback, TypeOK, WorkerOK
  <2>2. k \in Nat /\ k = msg[w].attempt
    BY <2>1 DEF ForwardInv, Forward, Message, Running
  <2>3. CASE Goto(w, "ack")
    BY <2>1, <2>3, StepMoves, MoveForward DEF Goto, Running, Early
  <2>4. CASE SettleCallbackFailure(w, msg[w].body, CallbackMode(w, msg[w]), k)
    BY <2>1, <2>2, <2>4, CallbackMoves, MoveForward DEF Src
  <2> QED  BY <1>5, <2>3, <2>4 DEF DeliverCallback
<1>6. CASE NotifyFailure(w)
  <2> DEFINE b == [src |-> Src(w), what |-> "failure"]
  <2>1. pc[w] = "notify_failure" /\ IsSource(msg[w])
    BY <1>6 DEF NotifyFailure, ShapeInv, HandlerShape
  <2>2. CASE Goto(w, "ack") /\ UNCHANGED msg
    BY <2>1, <2>2, StepMoves, MoveForward DEF Goto, Running, Early
  <2>3. CASE MaxRetries[w] > 0 /\ RetryNext(w, b, 1, "failure") /\ UNCHANGED msg
    <3>1. 0 \in Nat /\ 0 + 1 = 1 /\ 0 < MaxRetries[w]  BY <2>3, RetryAssumption
    <3> QED  BY <2>1, <2>3, <3>1, RetryMoves, MoveForward
  <2>4. CASE ArchiveNext(w, b, 1, "callback-failed") /\ UNCHANGED msg
    BY <2>1, <2>4, StepMoves, MoveForward DEF ArchiveNext, Running, Early
  <2>5. CASE RequeueAndStop(w)
    BY <2>5, RequeueForward DEF RequeueAndStop
  <2> QED  BY <1>6, <2>2, <2>3, <2>4, <2>5 DEF NotifyFailure
<1> QED  BY <1>1, <1>2, <1>3, <1>4, <1>5, <1>6 DEF Handle

LEMMA DeliverForward ==
  ASSUME TypeOK, ForwardInv, NEW w \in Worker, NEW i \in Id, Deliver(w, i)
  PROVE  ForwardInv'
<1> DEFINE m == copy[i]
<1>1. msg'[w] = m /\ m \in Message /\ pc'[w] \in {"publish_archive", "render", "callback"}
  BY DEF Deliver, TypeOK, WorkerOK, BrokerOK, ArchiveNext, Goto, PublishNext
<1>2. pc'[w] \in {"render", "callback"} => ~InvalidRetryState(w, m)
  BY DEF Deliver, TypeOK, WorkerOK, ArchiveNext, Goto, PublishNext
<1>3. ~InvalidRetryState(w, m) => Attempt(w, m) = m.attempt
  BY <1>1 DEF InvalidRetryState, HasRetryState, Attempt, Message
<1>4. Attempt(w, msg[w])' = Attempt(w, m)  BY <1>1 DEF Attempt
<1>5. Forward(w)'  BY <1>1, <1>2, <1>3, <1>4 DEF Forward, Running, Early
<1>6. OthersStay(w)
  BY DEF Deliver, TypeOK, WorkerOK, ArchiveNext, Goto, PublishNext, OthersStay
<1>7. ASSUME NEW v \in Worker \ {w}  PROVE Forward(v)'
  BY <1>6 DEF OthersStay, ForwardInv, Forward, Attempt, Advances
<1> QED  BY <1>5, <1>7 DEF ForwardInv

\* Every step keeps it.
LEMMA NextForward == TypeOK /\ ShapeInv /\ ForwardInv /\ [Next]_vars => ForwardInv'
<1> SUFFICES ASSUME TypeOK, ShapeInv, ForwardInv, [Next]_vars
             PROVE  ForwardInv'
  OBVIOUS
<1>s. UNCHANGED <<pc, msg, out>> => ForwardInv'
  BY DEF ForwardInv, Forward, Attempt, Advances
<1>1. ASSUME NEW w \in Worker, Settle(w)  PROVE ForwardInv'
  <2>1. CASE \E step \in {"ack", "notify_failure"} : Goto(w, step) /\ UNCHANGED msg
    BY <2>1, StepMoves, MoveForward DEF Goto, Running, Early
  <2>2. CASE Stop(w)  BY <2>2, RequeueForward
  <2>3. CASE Ack(w)
    <3>1. OthersStay(w) /\ pc'[w] = "idle"
      BY <2>3 DEF Ack, OthersStay, TypeOK, WorkerOK
    <3> QED  BY <3>1, RestForward
  <2> QED  BY <1>1, <2>1, <2>2, <2>3
           DEF Settle, ConfirmRetry, ConfirmArchive, PublishFails, AckFails, RequeueAndStop
<1>2. ASSUME NEW w \in Worker, Fail(w)  PROVE ForwardInv'
  <2>1. Stop(w) \/ UNCHANGED <<pc, msg, out>>
    BY <1>2 DEF Fail, ConfirmLost, Disconnect, Crash, RequeueAndStop
  <2> QED  BY <1>s, <2>1, RequeueForward
<1>3. ASSUME NEW w \in Worker, Connect(w)  PROVE ForwardInv'
  <2>1. OthersStay(w) /\ pc'[w] = "idle"
    BY <1>3 DEF Connect, OthersStay, TypeOK, WorkerOK
  <2> QED  BY <2>1, RestForward
<1>4. ASSUME NEW s \in Source, Accept(s)  PROVE ForwardInv'
  BY <1>4, <1>s DEF Accept
<1>5. ASSUME NEW i \in Id, Expire(i) \/ ExpireTwice(i)  PROVE ForwardInv'
  BY <1>5, <1>s DEF Expire, ExpireTwice
<1>6. UNCHANGED vars => ForwardInv'  BY <1>s DEF vars
<1> QED  BY <1>1, <1>2, <1>3, <1>4, <1>5, <1>6, HandleForward, DeliverForward DEF Next

\* No chain of retries and continuations comes back to where it was, for any bounds on
\* attempts, the same for all workers or not, and any failures.
THEOREM RetriesRunOut == Spec => []RetriesAdvance
<1>1. Init => ForwardInv
  BY DEF Init, ForwardInv, Forward, Running, Early
<1>2. ForwardInv => RetriesAdvance
  BY DEF ForwardInv, Forward, RetriesAdvance
<1>3. LineAll => TypeOK /\ ShapeInv  BY DEF LineAll
<1> QED  BY <1>1, <1>2, <1>3, LineAlways, NextForward, PTL DEF Spec
=============================================================================
