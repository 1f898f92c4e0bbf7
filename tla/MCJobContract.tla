--------------------------- MODULE MCJobContract ---------------------------
(* Small instances of JobContract for TLC: good settings and requests, and *)
(* what a few changes make of them.                                        *)
EXTENDS JobContract, TLC

SafeIdWords == {"a", "b", "a-b", "review-a"}
SafeJobWords == SafeIdWords \cup {"A_b"}
SafeEvidenceWords == SafeJobWords \cup {"a.b"}
DayWords == ("d1" :> 1) @@ ("d2" :> 2)
PiecesOfWords == [w \in {"a", "b", "A_b"} |-> <<w>>] @@ ("a-b" :> <<"a", "b">>)
                 @@ ("review-a" :> <<"review", "a">>)

Free(n) == Text("free", n)
Padded(t) == [t EXCEPT !.pad = 1]

Subject ==
  Object([action |-> Text("render_subject_pdf", 18), job_id |-> Text("A_b", 64),
          subject_code |-> Text("a", 64), title |-> Free(160), author |-> Free(1),
          sections |-> List(30, Object([heading |-> Free(160), body |-> Free(12000)]))])

Certificate ==
  Object([action |-> Text("render_certificate_pdf", 22), job_id |-> Text("a", 1),
          certificate_code |-> Text("A_b", 3), certificate_name |-> Free(160),
          learner_name |-> Free(1), issued_on |-> Text("d1", 10), issuer |-> Free(1),
          verification_code |-> Text("b", 1), rncp_code |-> Free(32)])

Attestation ==
  Object([action |-> Text("render_attestation_pdf", 22), job_id |-> Text("b", 1),
          training_code |-> Text("a-b", 3), training_name |-> Free(1),
          learner_name |-> Free(1), campus_name |-> Free(1), period_start |-> Text("d1", 10),
          period_end |-> Text("d2", 10), total_hours |-> Number(10000),
          issued_on |-> Text("d2", 10), issuer |-> Free(160)])

StudentCard ==
  Object([action |-> Text("render_student_card_pdf", 23), job_id |-> Text("a", 64),
          member_id |-> Text("A_b", 64), learner_name |-> Free(1), campus_name |-> Free(1),
          issued_on |-> Text("d1", 10), valid_until |-> Text("d1", 10),
          contract_version |-> Text("tryscode.document-render.v1", 27)])

\* One item, or a required one that passed and another one.
Counted(required, optional) ==
  [s \in EvidenceStatus |-> [required |-> IF s \in required THEN 1 ELSE 0,
                             optional |-> IF s \in optional THEN 1 ELSE 0]]

Counts(c) == Object([s \in EvidenceStatus |-> Number(c[s])])

SummaryOf(r) ==
  LET required == [s \in EvidenceStatus |-> r[s].required]
      by == [s \in EvidenceStatus |-> r[s].required + r[s].optional]
  IN Object([total_items |-> Number(Total(by)), required_items |-> Number(Total(required)),
             optional_items |-> Number(Total(by) - Total(required)),
             by_status |-> Counts(by), required_by_status |-> Counts(required)])

EvidenceOf(r) ==
  Object([contract_version |-> Text("tryscode.review-evidence.v1", 27),
          report_schema_version |-> Text("javamoulinette.report.v1", 24),
          run_id |-> Text("a.b", 96), report_sha256 |-> Text("sha", 64),
          mode |-> Text("drawer", 6), summary |-> SummaryOf(r),
          verdict |-> Object([status |-> Text("pass", 4), passed |-> Flag(TRUE),
                              reason_code |-> Text("a", 64), reason |-> Free(500)])])

Review(evidence) ==
  Object([action |-> Text("render_review_pdf", 17), job_id |-> Text("a", 1),
          review_code |-> Text("a", 1), subject_code |-> Text("a", 1),
          subject_name |-> Free(1), group_name |-> Free(1), reviewer_name |-> Free(1),
          participant_names |-> List(100, Free(160)), reviewed_on |-> Text("d1", 10),
          is_final |-> Flag(TRUE), verdict |-> Text("passed", 6), feedback |-> Free(1),
          evidence_url |-> Text("https-url", 512), medal_names |-> List(1, Free(160)),
          moulinette_evidence |-> evidence])

Reviews == {Review(EvidenceOf(r)) :
              r \in {Counted({"pass"}, {}), Counted({"fail"}, {"error"})}}

Payloads == {Subject, Certificate, Attestation, StudentCard, Review(Null)} \cup Reviews

\* What a member may become: another type, a bound of its check, or beyond it.
Ids == {Text("a-b", 64), Text("review-a", 8), Text("a", 65), Padded(Text("A_b", 3))}
Days == {Text("d1", 10), Text("d2", 10), Free(10)}
Lists == {List(0, Null), List(1, Free(161)), List(1, Text("a", 1)), List(101, Free(1)),
          List(1, Object([heading |-> Number(1)])), List(31, Null)}
Counters == {Number(n) : n \in -1..MaxEvidenceItems + 1}
Choices ==
  [job_id |-> Ids, subject_code |-> Ids, certificate_code |-> Ids, training_code |-> Ids,
   member_id |-> Ids, review_code |-> Ids, verification_code |-> Ids,
   run_id |-> Ids, reason_code |-> Ids,
   issued_on |-> Days, valid_until |-> Days, period_start |-> Days, period_end |-> Days,
   reviewed_on |-> Days,
   sections |-> Lists, participant_names |-> Lists, medal_names |-> Lists,
   is_final |-> {Flag(FALSE), Number(1)}, passed |-> {Flag(FALSE), Number(1)},
   verdict |-> {Text("failed", 6), Object([status |-> Text("pass", 4)])},
   status |-> {Text("fail", 4), Text("late", 4)}, mode |-> {Text("expected", 8)},
   evidence_url |-> {Text("ftp-url", 30), Text("https-bracket", 30)},
   reason |-> {Padded(Free(500)), Text("tab", 3)}, total_hours |-> {Number(0), Number(10001)},
   summary |-> {Object([total_items |-> Number(1)])},
   total_items |-> Counters, required_items |-> Counters, optional_items |-> Counters,
   pass |-> Counters, fail |-> Counters, not_run |-> Counters, error |-> Counters]
AnyType == {Null, Text("blank", 0), Free(161), List(1, Null)}
ChoicesOf(name) == AnyType \cup IF name \in DOMAIN Choices THEN Choices[name] ELSE {}

Put(v, name, x) == Object([v.at EXCEPT ![name] = x])

RECURSIVE Near(_)
Near(v) ==
  {Object(("extra" :> Null) @@ v.at)}
  \cup {Object([m \in DOMAIN v.at \ {name} |-> v.at[m]]) : name \in DOMAIN v.at}
  \cup UNION {{Put(v, name, x) : x \in ChoicesOf(name)} : name \in DOMAIN v.at}
  \cup UNION {{Put(v, name, x) : x \in Near(v.at[name])} :
                name \in {n \in DOMAIN v.at : v.at[n].type = "object"}}

-----------------------------------------------------------------------------

T(word, n, form) == [word |-> word, len |-> n, form |-> form]

Url == [dirty |-> FALSE, port |-> "none", scheme |-> "https", host |-> "harmony",
        credentials |-> FALSE, percent |-> FALSE, path |-> "safe"]

GoodSettings ==
  [worker_mode |-> "active", service_version |-> T("0.1.0", 5, "name"),
   service_commit |-> T("unknown", 7, "id"), tryscode_environment |-> T("local", 5, "id"),
   health_port |-> 8080, heartbeat |-> 15000, rabbitmq_url |-> TRUE,
   rabbitmq_socket_timeout |-> 3000, rabbitmq_stack_timeout |-> 5000,
   rabbitmq_blocked_timeout |-> 3000, rabbitmq_heartbeat |-> 30000,
   document_queue |-> T("tasks", 14, "id"), document_retry_queue |-> T("retry", 20, "name"),
   document_archive_queue |-> T("archive", 22, "name"), document_max_retries |-> 5,
   document_retry_delay |-> 30000, signing_key |-> T("key", 32, "visible"),
   document_retry_max_messages |-> 10000, document_retry_max_bytes |-> 536870912,
   document_archive_ttl |-> 604800000, document_archive_max_messages |-> 10000,
   document_storage_mode |-> "s3", document_storage_prefix |-> T("documents", 64, "id"),
   s3_endpoint |-> TRUE, s3_bucket |-> TRUE, s3_access_key |-> TRUE, s3_secret_key |-> TRUE,
   s3_prefix |-> [len |-> 0, segments |-> "odd", form |-> "id"],
   s3_connect_timeout |-> 3000, s3_read_timeout |-> 10000, s3_max_attempts |-> 2,
   harmony_callback_url |-> Url, harmony_service_token |-> T("token", 4096, "visible"),
   document_callback_timeout |-> 5000]

Urls == {[Url EXCEPT !.dirty = TRUE], [Url EXCEPT !.port = "malformed"],
         [Url EXCEPT !.scheme = "http"], [Url EXCEPT !.scheme = "http", !.host = "localhost"],
         [Url EXCEPT !.scheme = "ftp"], [Url EXCEPT !.host = ""],
         [Url EXCEPT !.credentials = TRUE], [Url EXCEPT !.percent = TRUE],
         [Url EXCEPT !.path = "dots"]}

Texts == {T("tasks", 14, "id"), T("key", 32, "visible"), T("key", 31, "visible"), T("", 0, "id"),
          T("long", 129, "id"), T("token", 5000, "visible"), T("token", 32, "latin1"),
          T("token", 32, "wide"), T("token", 32, "blank"), T("token", 40, "name")}

TextFields == {"service_version", "service_commit", "tryscode_environment", "document_queue",
               "document_retry_queue", "document_archive_queue", "document_storage_prefix",
               "signing_key", "harmony_service_token"}

ChangedSettings(s) ==
  {[s EXCEPT ![f] = t] : f \in TextFields, t \in Texts}
  \cup {[s EXCEPT ![f] = n] : f \in DOMAIN Bound \cup {"document_retry_max_bytes"},
                             n \in {0, 1, 50, 1000, 3000, 15000, 30001, 1048576, 5242880}}
  \cup {[s EXCEPT ![f] = FALSE] : f \in {"rabbitmq_url", "s3_endpoint", "s3_bucket",
                                         "s3_access_key", "s3_secret_key"}}
  \cup {[s EXCEPT !.harmony_callback_url = u] : u \in Urls}
  \cup {[s EXCEPT !.document_storage_mode = m] : m \in {"local", "LOCAL", "S3", "ftp"}}
  \cup {[s EXCEPT !.s3_prefix = x] : x \in [len : {1, 512, 513}, segments : {"plain", "odd"},
                                            form : {"visible", "blank"}]}

SomeSettings ==
  {GoodSettings} \cup ChangedSettings(GoodSettings)
  \cup {[GoodSettings EXCEPT !.worker_mode = m] : m \in {"safe_idle", "other"}}
  \cup {[s EXCEPT !.worker_mode = "safe_idle"] : s \in ChangedSettings(GoodSettings)}

Body(p, n, json) == [payload |-> p, bytes |-> n, json |-> json]

\* What may be wrong with a body before its contract is looked at.
Bodies == {Body(Subject, n, "readable") : n \in {0, 1, 5242880, 5242881}}
          \cup {Body(Subject, 100, json) : json \in {"unreadable", "digits"}}

\* JSON values that are no object.
NoObject == {Null, List(1, Null), Free(18), Number(1)}

\* Good settings with every request, every change of the settings with a few.
Cases == [settings : {GoodSettings},
          request : {Body(p, 100, "readable") : p \in Payloads \cup NoObject}]
         \cup [settings : SomeSettings, request : Bodies]

Altered(s, r) ==
  IF s # GoodSettings \/ r.bytes # 100 \/ r.payload \in NoObject THEN {}
  ELSE Near(r.payload)

Versions ==
  {NoVersion, [len |-> 3, json |-> 8, control |-> TRUE]}
  \cup {[len |-> n, json |-> k * n, control |-> FALSE] : n \in {0, 1, 1024, 1025}, k \in {1, 12}}
Sizes == {4, 5, 5242880, 5242881}
Statuses == {NoResponse, NotHttp, 200, 204, 299, 301, 304, 308, 400, 500}
Others == {[Url EXCEPT !.host = "other"]}
=============================================================================
