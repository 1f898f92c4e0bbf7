---------------------------- MODULE JobContract ----------------------------
(***************************************************************************)
(* The way of one job through what the components accept of each other:    *)
(* the settings (WorkerSettings) start a worker, a request                 *)
(* (RequestContract) is parsed, its PDF is published, and the result is    *)
(* encoded, decoded again, checked and posted (HarmonyCallback).           *)
(*                                                                         *)
(* DocumentWorker has the retries, queues and failures of the same steps,  *)
(* and knows of each check only its verdict.  Here every check is spelled  *)
(* out and nothing but the peers may fail.                                 *)
(***************************************************************************)
EXTENDS RequestContract, HarmonyCallback

CONSTANTS
  Case,       \* the settings and requests to start from: [settings, request]
  Alteration(_, _),  \* the payloads a producer may send instead, given the settings
  MaxAlterations,    \* bound on what it changes
  Version,    \* what the bucket may return as a version
  Size,       \* sizes of rendered PDFs
  Status,     \* statuses of Harmony's answers
  Elsewhere   \* where a redirect leads

ASSUME CaseAssumption ==
  \A c \in Case : /\ c.settings.harmony_service_token.form \in Form
                  /\ c.request.bytes \in Nat

\* A character takes at most twelve bytes of ASCII JSON.
ASSUME VersionAssumption ==
  \A v \in Version \ {NoVersion} : v.len \in Nat /\ v.json \in Nat /\ v.json <= 12 * v.len

VARIABLES
  settings, request,  \* request: [payload, bytes, json]
  altered,    \* changes to the request
  stage,      \* how far the job is
  body,       \* the continuation of its callback, or NoBody
  target,     \* the URL about to be opened
  contacted   \* the URLs that have been sent the service token

vars == <<settings, request, altered, stage, body, target, contacted>>

NoBody == [bytes |-> 0]

\* The producer sends something else.
Alter ==
  /\ stage = "off" /\ altered < MaxAlterations
  /\ \E p \in Alteration(settings, request) :
       request' = [payload |-> p, bytes |-> request.bytes, json |-> request.json]
  /\ altered' = altered + 1
  /\ UNCHANGED <<settings, stage, body, target, contacted>>

-----------------------------------------------------------------------------
(* main.py.                                                                *)

StartWorker ==
  /\ stage = "off"
  /\ stage' = IF ~Loads(settings) \/ ~ValidateSettings(settings) THEN "stopped"
              ELSE IF settings.worker_mode = "safe_idle" THEN "safe_idle" ELSE "waiting"
  /\ UNCHANGED <<settings, request, altered, body, target, contacted>>

-----------------------------------------------------------------------------
(* _handle.                                                                *)

\* Parsing a body: a verdict of the worker, or "ok".  json: "readable", "unreadable",
\* or "digits" for an integer literal over the interpreter's limit.
ParseBody(r) ==
  IF r.bytes > MaxMessageBytes THEN "message-too-large"
  ELSE IF r.bytes = 0 \/ r.json = "unreadable" THEN "invalid-json"
  ELSE IF r.json = "digits" THEN "uncaught"
  ELSE CASE ParseDocument(r.payload) = "ok"      -> "ok"
         [] ParseDocument(r.payload) = "refused" -> "invalid-document"
         [] ParseDocument(r.payload) = "raised"  -> "uncaught"

HandleBody ==
  /\ stage = "waiting"
  /\ stage' = IF ParseBody(request) = "ok" THEN "parsed" ELSE ParseBody(request)
  /\ UNCHANGED <<settings, request, altered, body, target, contacted>>

Job == LET id == Get(request.payload, "job_id") IN
       [len |-> id.len, json |-> id.len, safe |-> id.word \in SafeJobId]

KindLength == [render_subject_pdf |-> 7, render_certificate_pdf |-> 11,
               render_attestation_pdf |-> 11, render_student_card_pdf |-> 12,
               render_review_pdf |-> 6]

\* prefix/kind-identifier-job_id.pdf, characters JSON leaves alone.
KeyLength == settings.document_storage_prefix.len + 1 + KindLength[Action(request.payload)]
             + 1 + Identifier(request.payload).len + 1 + Job.len + 4
StorageKey == [len |-> KeyLength, json |-> KeyLength, relative |-> TRUE]

Success(size, version) ==
  [mode |-> "success", job |-> Job, path |-> StorageKey, size |-> size,
   sha |-> [len |-> 64, json |-> 64], version |-> version]

\* notify_failure's code is document-processing-failed.
Failure == [mode |-> "failure", job |-> Job, code |-> [len |-> 26, json |-> 26, safe |-> TRUE]]

Keep(r) == /\ body' = IF CanEncode(r) THEN CallbackBody(r) ELSE NoBody
           /\ stage' = IF CanEncode(r) THEN "encoded" ELSE "stuck"

\* publish_document: the snapshot has a signature and a bounded size, and the version
\* of the object is acceptable.  The continuation is built from what it returns.
Publish ==
  /\ stage = "parsed"
  /\ \E size \in Size, version \in IF StorageMode(settings) = "s3" THEN Version ELSE {NoVersion} :
       IF size \in MinDocumentBytes..MaxDocumentBytes /\ ValidVersion(version)
       THEN Keep(Success(size, version))
       ELSE stage' = "unpublished" /\ UNCHANGED body
  /\ UNCHANGED <<settings, request, altered, target, contacted>>

\* The retries are exhausted, the job is reported as failed.
GiveUp ==
  /\ stage = "unpublished"
  /\ Keep(Failure)
  /\ UNCHANGED <<settings, request, altered, target, contacted>>

-----------------------------------------------------------------------------
(* _deliver_callback, at once or from a continuation.                      *)

DeliverCallback ==
  /\ stage = "encoded"
  /\ stage' = IF /\ Decodes(body, body.result.mode)
                 /\ NotifyAccepts(body.result)
                 /\ CanPost(settings)
              THEN "posting" ELSE "stuck"
  /\ target' = settings.harmony_callback_url
  /\ UNCHANGED <<settings, request, altered, body, contacted>>

\* open_no_redirect, once more with the URL of the request, and an answer.
Open ==
  /\ stage = "posting"
  /\ IF ValidCallbackUrl(target)
     THEN /\ contacted' = contacted \cup {target}
          /\ \E status \in Status :
               stage' = IF status \in Redirect THEN "redirected" ELSE AnswerOf(status)
     ELSE stage' = "stuck" /\ UNCHANGED contacted
  /\ UNCHANGED <<settings, request, altered, body, target>>

\* Mutant: the opener's own handler follows, headers and all.
RefuseRedirectFollowed ==
  /\ stage = "redirected"
  /\ stage' = "posting"
  /\ target' \in Elsewhere
  /\ UNCHANGED <<settings, request, altered, body, contacted>>

\* RejectRedirects closes the response and raises.
RefuseRedirect ==
  /\ stage = "redirected"
  /\ stage' = "pending"
  /\ UNCHANGED <<settings, request, altered, body, target, contacted>>

\* The continuation comes back from the retry queue.
Retry ==
  /\ stage = "pending"
  /\ stage' = "encoded"
  /\ UNCHANGED <<settings, request, altered, body, target, contacted>>

-----------------------------------------------------------------------------

Init == /\ \E c \in Case : settings = c.settings /\ request = c.request
        /\ altered = 0 /\ stage = "off" /\ body = NoBody
        /\ target = settings.harmony_callback_url /\ contacted = {}

Next == Alter \/ StartWorker \/ HandleBody \/ Publish \/ GiveUp \/ DeliverCallback \/ Open
        \/ RefuseRedirect \/ Retry

Spec == Init /\ [][Next]_vars

-----------------------------------------------------------------------------
(* Properties.                                                             *)

Accepted == stage \in {"parsed", "unpublished", "encoded", "posting", "redirected",
                       "pending", "reported", "escaped", "stuck"}

\* What the components accept of each other fits together: a job of a worker that
\* started is never stuck between them.  Whatever request parse_document takes and
\* whatever publish_document returns can be kept as a continuation of the bounded
\* size, decoded, accepted by the notifier and sent; only Harmony's answer decides.
\* A token beyond Latin-1 is the exception: validate_settings takes it, http.client
\* cannot send it.
AcceptedIsReportable ==
  stage = "stuck" => settings.harmony_service_token.form = "wide"

\* The service token is sent to the configured URL and nowhere else, over TLS or to the
\* worker's own host, and a job is reported only if that URL answered.
TokenStaysWithHarmony ==
  /\ contacted \subseteq {settings.harmony_callback_url}
  /\ \A u \in contacted : u.scheme = "https" \/ u.host \in Loopback
  /\ stage = "reported" => contacted # {}

\* Any request the worker processes fits the retry queue, so that its failure can be
\* retried, and so does any continuation.
RetryFitsQueue ==
  Accepted => /\ request.bytes <= settings.document_retry_max_bytes
              /\ body.bytes <= settings.document_retry_max_bytes

UrlIsMalformed(p) ==
  LET url == Get(p, "evidence_url") IN url.type = "text" /\ url.word \in MalformedUrl

\* parse_document accepts or refuses whatever JSON value it is given: nothing is stripped,
\* compared, hashed, measured or read by name before a check has made sure that it has
\* that operation.  An evidence URL with an open bracket alone is what raises something
\* else (see EveryRequestSettled).
RefusedOrAccepted ==
  stage = "uncaught" =>
    request.json = "digits" \/ UrlIsMalformed(request.payload)

\* A report counts its items by status, the required ones and the others.
Report == [EvidenceStatus -> [required : 0..MaxEvidenceItems, optional : 0..MaxEvidenceItems]]

IsSummaryOf(v, r) ==
  LET by == Count(v, "by_status")
      requiredBy == Count(v, "required_by_status")
  IN /\ \A s \in EvidenceStatus : /\ requiredBy[s] = r[s].required
                                  /\ by[s] = r[s].required + r[s].optional
     /\ Item(v, "required_items") = Total([s \in EvidenceStatus |-> r[s].required])
     /\ Item(v, "optional_items") = Total([s \in EvidenceStatus |-> r[s].optional])
     /\ Item(v, "total_items") = Item(v, "required_items") + Item(v, "optional_items")

\* The only report whose summary could be v.
ReportOf(v) ==
  [s \in EvidenceStatus |->
     [required |-> Count(v, "required_by_status")[s],
      optional |-> Count(v, "by_status")[s] - Count(v, "required_by_status")[s]]]

\* Five checks of sums and bounds accept exactly the summaries of reports: a summary of
\* a moulinette's report passes them, and what passes them is one (its counts of
\* optional items by status, which the summary leaves out, are never negative).
SummariesAreOfReports ==
  LET v == Get(Get(request.payload, "moulinette_evidence"), "summary") IN
  SummaryShape(v) = "ok" =>
    (ParseSummary(v) = "ok" <=> ReportOf(v) \in Report /\ IsSummaryOf(v, ReportOf(v)))

\* kind-identifier-job_id is not injective, but a document never has the name of a
\* document of another family, nor of another job with the same identifier.
FamiliesApart ==
  Accepted =>
    LET p == request.payload
        name == DocumentName(Family[Action(p)].kind, IdWord(p), JobWord(p))
    IN \A a \in DOMAIN Family, id, job \in SafeJobId :
         DocumentName(Family[a].kind, id, job) = name =>
           a = Action(p) /\ (id = IdWord(p) => job = JobWord(p))
=============================================================================
