--------------------------- MODULE WorkerSettings ---------------------------
(***************************************************************************)
(* The settings of the worker, worker/doc_worker/config.py, and the checks *)
(* of worker/doc_worker/http_client.py it shares with each callback.       *)
(*                                                                         *)
(* A text is a word, its length and a form: the least of the following     *)
(* classes that has all its characters.  "id" is [a-z0-9][a-z0-9_-]*,      *)
(* "name" adds capitals and dots, "visible" the rest of 0x21..0x7e,        *)
(* "latin1" and "wide" what is above, and "blank" has a space or a control *)
(* character.                                                              *)
(* Durations are in milliseconds.  A URL is the record of its parts.       *)
(***************************************************************************)
EXTENDS Naturals, FiniteSets

Id == {"id"}
Name == {"id", "name"}
Visible == {"id", "name", "visible"}
Latin1 == {"id", "name", "visible", "latin1"}
Form == Latin1 \cup {"wide", "blank"}

-----------------------------------------------------------------------------
(* http_client.py.                                                         *)

Loopback == {"localhost", "127.0.0.1", "::1"}

\* validated_callback_url.  dirty: a blank, a control character, "\", "?" or "#";
\* path: "safe" is an absolute path of plain segments.
ValidCallbackUrl(u) ==
  /\ ~u.dirty /\ u.port # "malformed"
  /\ u.scheme \in {"http", "https"} /\ u.host # ""
  /\ ~u.credentials /\ ~u.percent
  /\ u.scheme = "http" => u.host \in Loopback
  /\ u.path = "safe"

\* validated_timeout.
ValidTimeout(ms) == ms \in 1000..30000

\* validated_service_token.
ValidServiceToken(t) == t.len \in 1..4096 /\ t.form # "blank"

-----------------------------------------------------------------------------
(* config.py.                                                              *)

MinRetryBytes == 5242880
MaxInt32 == 2147483647

\* Mutant: the retry queue may be smaller than the largest message.
RetryBytesSmall == 1048576..MaxInt32

RetryBytes == MinRetryBytes..MaxInt32

\* The other bounds of Settings, by which it is refused before validate_settings sees it.
Bound ==
  [health_port |-> 1..65535,
   heartbeat |-> 50..300000,
   rabbitmq_socket_timeout |-> 1..10000,
   rabbitmq_stack_timeout |-> 1..15000,
   rabbitmq_blocked_timeout |-> 1..10000,
   rabbitmq_heartbeat |-> 5000..300000,
   document_max_retries |-> 0..20,
   document_retry_delay |-> 1000..86400000,
   document_retry_max_messages |-> 1..1000000,
   document_archive_ttl |-> 60000..MaxInt32,
   document_archive_max_messages |-> 1..1000000,
   s3_connect_timeout |-> 1..10000,
   s3_read_timeout |-> 1..30000,
   s3_max_attempts |-> 1..4,
   document_callback_timeout |-> 1000..30000]

Loads(s) == /\ s.worker_mode \in {"active", "safe_idle"}
            /\ s.document_retry_max_bytes \in RetryBytes
            /\ \A f \in DOMAIN Bound : s[f] \in Bound[f]

ValidMetadata(t) == t.len \in 1..128 /\ t.form \in Name

QueueNames(s) == {s.document_queue, s.document_retry_queue, s.document_archive_queue}

ValidQueues(s) == /\ \A q \in QueueNames(s) : q.len \in 1..128 /\ q.form \in Visible
                  /\ Cardinality(QueueNames(s)) = 3

\* The prefix without the slashes at its ends is one safe segment.
ValidStoragePrefix(t) == t.len \in 1..64 /\ t.form \in Id

StorageMode(s) == IF s.document_storage_mode \in {"s3", "S3"} THEN "s3" ELSE "local"

\* segments: "plain", or "odd" when one is empty or a dot name.
ValidS3(s) == /\ s.s3_endpoint /\ s.s3_bucket /\ s.s3_access_key /\ s.s3_secret_key
              /\ s.s3_prefix.len <= 512
              /\ s.s3_prefix.len > 0 => s.s3_prefix.segments = "plain"
              /\ s.s3_prefix.len > 0 => s.s3_prefix.form \in Visible

ValidSigningKey(s) ==
  /\ s.signing_key.len \in 32..256 /\ s.signing_key.form \in Visible
  /\ s.signing_key # s.harmony_service_token

ValidCallback(s) == /\ ValidCallbackUrl(s.harmony_callback_url)
                    /\ ValidServiceToken(s.harmony_service_token)
                    /\ ValidTimeout(s.document_callback_timeout)

ValidateActive(s) ==
  /\ s.rabbitmq_url
  /\ s.rabbitmq_stack_timeout > s.rabbitmq_socket_timeout
  /\ ValidQueues(s)
  /\ ValidStoragePrefix(s.document_storage_prefix)
  /\ s.document_storage_mode \in {"local", "LOCAL", "s3", "S3"}
  /\ StorageMode(s) = "s3" => ValidS3(s)
  /\ ValidSigningKey(s)
  /\ ValidCallback(s)

\* validate_settings.
ValidateSettings(s) ==
  /\ \A t \in {s.service_version, s.service_commit, s.tryscode_environment} : ValidMetadata(t)
  /\ s.worker_mode = "active" => ValidateActive(s)
=============================================================================
