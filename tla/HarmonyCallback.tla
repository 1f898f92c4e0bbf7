-------------------------- MODULE HarmonyCallback --------------------------
(***************************************************************************)
(* What the worker tells Harmony about a job: the continuation it keeps of *)
(* a callback (_callback_body and _decode_callback_body of worker.py), the *)
(* checks of notifier.py, and the HTTP call (http_client.py).              *)
(*                                                                         *)
(* A text is its length, the bytes it takes in ASCII JSON, where escapes   *)
(* make a character of one to twelve, and what its checks look at.         *)
(***************************************************************************)
EXTENDS WorkerSettings, Integers

CONSTANT NoVersion  \* None, the version of a bucket without versions

MaxMessageBytes == 5242880
MaxDocumentBytes == 5242880
MinDocumentBytes == 5  \* the signature of a PDF

\* Mutant: a bound that has room for the version alone.
MaxCallbackStateBytesSmall == 12288

MaxCallbackStateBytes == 16384

\* _validated_version of storage.py.
ValidVersion(v) == v = NoVersion \/ (v.len \in 1..1024 /\ ~v.control)

-----------------------------------------------------------------------------
(* The continuation of a callback.                                         *)

\* A result is what a callback reports: [mode, job, path, size, sha, version] for
\* "success", [mode, job, code] for "failure".
SuccessKeys == {"callback_state_version", "mode", "job_id", "result_path",
                "result_size_bytes", "result_sha256", "result_storage_version"}
FailureKeys == {"callback_state_version", "mode", "job_id", "failure_code"}
Keys(mode) == IF mode = "success" THEN SuccessKeys ELSE FailureKeys

\* The bytes of the keys, quotes and separators, and of seven digits of a size.
SuccessFrame == 185
FailureFrame == 111

BodyBytes(r) ==
  IF r.mode = "success"
  THEN SuccessFrame + r.job.json + r.path.json + r.sha.json
       + (IF r.version = NoVersion THEN 2 ELSE r.version.json)
  ELSE FailureFrame + r.job.json + r.code.json

\* _callback_body; the result itself stands for the values of the members.
CallbackBody(r) == [bytes |-> BodyBytes(r), keys |-> Keys(r.mode), mode |-> r.mode, result |-> r]

CanEncode(r) == r.mode \in {"success", "failure"} /\ BodyBytes(r) <= MaxCallbackStateBytes

\* _decode_callback_body raises otherwise.
Decodes(body, mode) == /\ body.bytes \in 1..MaxCallbackStateBytes
                       /\ body.keys = Keys(mode)
                       /\ body.mode = mode

-----------------------------------------------------------------------------
(* notifier.py.                                                            *)

SafeName(t) == t.len \in 1..64 /\ t.safe

\* notify_success: relative path without "..", an artifact of a possible size.
NotifySuccessAccepts(r) ==
  /\ SafeName(r.job)
  /\ r.path.relative
  /\ r.size \in MinDocumentBytes..MaxDocumentBytes
  /\ r.sha.len = 64
  /\ ValidVersion(r.version)

NotifyFailureAccepts(r) == SafeName(r.job) /\ SafeName(r.code)

NotifyAccepts(r) ==
  IF r.mode = "success" THEN NotifySuccessAccepts(r) ELSE NotifyFailureAccepts(r)

\* _post_callback validates its settings again, and the header takes Latin-1 only
\* (http.client encodes it, and a ValueError is a failed callback).
CanPost(s) == ValidCallback(s) /\ s.harmony_service_token.form \in Latin1

-----------------------------------------------------------------------------
(* The answer.                                                             *)

Redirect == {301, 302, 303, 307, 308}
NoResponse == 0   \* refused or timed out
NotHttp == 1      \* the response is not HTTP

\* The exception of a response that is not HTTP is not among those _post_callback
\* names; every status but 2xx is a RuntimeError.
AnswerOf(status) ==
  IF status = NotHttp THEN "escaped"
  ELSE IF status \in 200..299 THEN "reported" ELSE "pending"
=============================================================================
