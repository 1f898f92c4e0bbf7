-------------------------- MODULE RequestContract --------------------------
(***************************************************************************)
(* The contract of document requests, parse_document and the validators of *)
(* worker/doc_worker/renderer.py: which JSON payloads are a document, and  *)
(* what happens to those that are not.                                     *)
(*                                                                         *)
(* A JSON value is a record with its type; an object has its members at    *)
(* their names.  A text is a word that stands for its characters, its      *)
(* length when stripped, and the blanks around it.  A check ends "ok",     *)
(* "refused" (DocumentValidationError) or "raised" (any other exception),  *)
(* and the first that is not "ok" decides.  An operation of Python that    *)
(* only some types have stands where the code applies it, and raises on    *)
(* the others: whether a check before it keeps them away is not assumed.   *)
(***************************************************************************)
EXTENDS Integers, Sequences, FiniteSets

CONSTANTS
  SafeId, SafeJobId, SafeEvidenceId,  \* words that match the patterns of that name
  Sha256,            \* words of 64 hexadecimal digits
  Unprintable,       \* words with a control character
  HttpUrl,           \* URLs with a host and no credentials, query or fragment
  MalformedUrl,      \* texts urlparse raises ValueError for (an open bracket)
  Day,               \* the ordinal of each word that is an ISO date
  Pieces,            \* each safe word, cut at its hyphens
  MaxEvidenceItems   \* MAX_EVIDENCE_ITEMS

ASSUME PatternAssumption == SafeId \subseteq SafeJobId /\ SafeJobId \subseteq SafeEvidenceId
ASSUME PiecesAssumption ==
  /\ \A w \in SafeJobId : Pieces[w] \in Seq(STRING)
  /\ \A v, w \in SafeJobId : Pieces[v] = Pieces[w] => v = w
ASSUME DayAssumption == \A d \in DOMAIN Day : Day[d] \in Nat
ASSUME ItemsAssumption == MaxEvidenceItems \in Nat \ {0}

-----------------------------------------------------------------------------
(* JSON values.                                                            *)

Null == [type |-> "null"]
Object(members) == [type |-> "object", at |-> members]
Flag(b) == [type |-> "bool", holds |-> b]
Number(n) == [type |-> "int", n |-> n]
Text(w, n) == [type |-> "text", word |-> w, len |-> n, pad |-> 0]
List(n, item) == [type |-> "list", len |-> n, item |-> item]

\* v.get(name, default) and v.get(name) of an object.
Has(v, name) == v.type = "object" /\ name \in DOMAIN v.at
GetOr(v, name, default) == IF Has(v, name) THEN v.at[name] ELSE default
Get(v, name) == GetOr(v, name, Null)

-----------------------------------------------------------------------------
(* Checks, and operations that may raise.                                  *)

Check(b) == IF b THEN "ok" ELSE "refused"

\* One check after another.
a & b == IF a = "ok" THEN b ELSE a

\* isinstance(v, type), else DocumentValidationError.
Is(v, type) == Check(v.type = type)

\* An operation that values of these types have: TypeError or AttributeError for others.
Needs(v, types) == IF v.type \in types THEN "ok" ELSE "raised"

Strip(v) == Needs(v, {"text"})               \* v.strip(), pattern.fullmatch(v), and the like
Sized(v) == Needs(v, {"text", "list", "object"})    \* len(v)
Compare(v) == Needs(v, {"int", "bool"})      \* v < 1
Hash(v) == Needs(v, {"null", "bool", "int", "text"})    \* v in {...}
Members(v) == Needs(v, {"object"})           \* v.get(name)

\* set(v)
Distinct(v) == IF v.type = "list" THEN Hash(v.item) ELSE Sized(v)

\* v[name] for each of the names.
Subscript(v, names) ==
  Members(v) & (IF names \subseteq DOMAIN v.at THEN "ok" ELSE "raised")

-----------------------------------------------------------------------------
(* Validators.                                                             *)

\* The text v is one of the words: equality, which every type has.
IsOneOf(v, words) == Check(v.type = "text" /\ v.word \in words /\ v.pad = 0)

Matches(v, words) == Strip(v) & IsOneOf(v, words)

RequiredText(v, max) == Is(v, "text") & Strip(v) & Check(v.len \in 1..max)

OptionalText(v, max) == IF v.type = "null" THEN "ok" ELSE RequiredText(v, max)

\* urlparse is called outside any try.
OptionalHttpUrl(v) ==
  IF v.type = "null" THEN "ok"
  ELSE RequiredText(v, 512)
       & (IF v.word \in MalformedUrl THEN "raised" ELSE Check(v.word \in HttpUrl))

SafeIdentifier(v, pattern) == RequiredText(v, 64) & Check(v.word \in pattern)

JobId(p) == SafeIdentifier(Get(p, "job_id"), SafeJobId)

Date(v) == RequiredText(v, 10) & Check(v.word \in DOMAIN Day)

\* A bool is an int of Python, and is not accepted for one.
BoundedInt(v, min, max) ==
  Check(v.type # "bool") & Check(v.type \in {"int", "bool"}) & Compare(v)
  & Check(v.n \in min..max)

BoundedIdentifier(v, max) ==
  Is(v, "text") & Sized(v) & Check(v.len + v.pad \in 1..max) & Matches(v, SafeEvidenceId)

\* The length is that of the text as it came; what is left when stripped is not empty.
BoundedEvidenceText(v, max) ==
  Is(v, "text") & Sized(v) & Check(v.len + v.pad \in 1..max)
  & Strip(v) & Check(v.word \notin Unprintable /\ v.len > 0)

\* _require_exact_fields, after which each member is read.
ExactFields(v, names) ==
  Is(v, "object") & Distinct(v) & Check(v.type = "object" /\ DOMAIN v.at = names)
  & Subscript(v, names)

TextList(v, maxItems, maxLength, allowEmpty) ==
  Is(v, "list") & Sized(v) & Check(v.len \in (IF allowEmpty THEN 0 ELSE 1)..maxItems)
  & (IF v.len = 0 THEN "ok" ELSE RequiredText(v.item, maxLength))

\* A text of a family that is required under its own name.
Named(p, name) == RequiredText(Get(p, name), 160)

-----------------------------------------------------------------------------
(* Evidence of an automated review.                                        *)

EvidenceFields == {"contract_version", "report_schema_version", "run_id", "report_sha256",
                   "mode", "verdict", "summary"}
SummaryFields == {"total_items", "required_items", "optional_items", "by_status",
                  "required_by_status"}
EvidenceStatus == {"pass", "fail", "not_run", "error"}

\* Mutant: the mode is looked up in a set without isinstance.
ModeUnchecked(v) == Hash(v) & IsOneOf(v, {"drawer", "expected"})

ReportMode(v) == Is(v, "text") & Hash(v) & IsOneOf(v, {"drawer", "expected"})

ReportSha256(v) == Is(v, "text") & Matches(v, Sha256)

ParseVerdict(v) ==
  ExactFields(v, {"status", "passed", "reason_code", "reason"})
  & Is(Get(v, "status"), "text")
  & IsOneOf(Get(v, "status"), EvidenceStatus)
  & Is(Get(v, "passed"), "bool")
  & Check(Get(v, "passed").holds = (Get(v, "status").word = "pass"))
  & BoundedIdentifier(Get(v, "reason_code"), 64)
  & BoundedEvidenceText(Get(v, "reason"), 500)

ParseCounts(v) ==
  ExactFields(v, EvidenceStatus)
  & BoundedInt(Get(v, "pass"), 0, MaxEvidenceItems)
  & BoundedInt(Get(v, "fail"), 0, MaxEvidenceItems)
  & BoundedInt(Get(v, "not_run"), 0, MaxEvidenceItems)
  & BoundedInt(Get(v, "error"), 0, MaxEvidenceItems)

SummaryShape(v) ==
  ExactFields(v, SummaryFields)
  & BoundedInt(Get(v, "total_items"), 1, MaxEvidenceItems)
  & BoundedInt(Get(v, "required_items"), 0, MaxEvidenceItems)
  & BoundedInt(Get(v, "optional_items"), 0, MaxEvidenceItems)
  & ParseCounts(Get(v, "by_status"))
  & ParseCounts(Get(v, "required_by_status"))

\* The numbers of a summary whose shape is right.
Item(v, name) == v.at[name].n
Count(v, name) == [s \in EvidenceStatus |-> v.at[name].at[s].n]
Total(c) == c["pass"] + c["fail"] + c["not_run"] + c["error"]

\* Mutant: the required counts are compared with nothing.
CoherentTotalsOnly(total, required, optional, by, requiredBy) ==
  /\ total = required + optional
  /\ Total(by) = total
  /\ Total(requiredBy) = required

CoherentSummary(total, required, optional, by, requiredBy) ==
  /\ total = required + optional
  /\ Total(by) = total
  /\ Total(requiredBy) = required
  /\ \A s \in EvidenceStatus : requiredBy[s] <= by[s]

ParseSummary(v) ==
  SummaryShape(v)
  & Check(CoherentSummary(Item(v, "total_items"), Item(v, "required_items"),
                          Item(v, "optional_items"), Count(v, "by_status"),
                          Count(v, "required_by_status")))

ParseMoulinetteEvidence(v) ==
  IF v.type = "null" THEN "ok" ELSE
  ExactFields(v, EvidenceFields)
  & IsOneOf(Get(v, "contract_version"), {"tryscode.review-evidence.v1"})
  & IsOneOf(Get(v, "report_schema_version"), {"javamoulinette.report.v1"})
  & BoundedIdentifier(Get(v, "run_id"), 96)
  & ReportSha256(Get(v, "report_sha256"))
  & ReportMode(Get(v, "mode"))
  & ParseVerdict(Get(v, "verdict"))
  & ParseSummary(Get(v, "summary"))

-----------------------------------------------------------------------------
(* The five families.                                                      *)

Issuer == Text("issuer", 25)

Section(v) ==
  Is(v, "object") & Members(v)
  & RequiredText(Get(v, "heading"), 160)
  & RequiredText(Get(v, "body"), 12000)

Sections(v) == Is(v, "list") & Sized(v) & Check(v.len \in 1..30) & Section(v.item)

ParseSubject(p) ==
  JobId(p)
  & SafeIdentifier(Get(p, "subject_code"), SafeId)
  & Named(p, "title")
  & RequiredText(GetOr(p, "author", Issuer), 160)
  & Sections(Get(p, "sections"))

ParseCertificate(p) ==
  JobId(p)
  & SafeIdentifier(Get(p, "certificate_code"), SafeJobId)
  & Named(p, "certificate_name") & Named(p, "learner_name")
  & Date(Get(p, "issued_on"))
  & SafeIdentifier(Get(p, "verification_code"), SafeJobId)
  & RequiredText(GetOr(p, "issuer", Issuer), 160)
  & OptionalText(Get(p, "rncp_code"), 32)

\* Both dates are read, and the second is not before the first.
Period(first, last) ==
  Date(first)
  & Date(last)
  & Check(Day[first.word] <= Day[last.word])

ParseAttestation(p) ==
  Period(Get(p, "period_start"), Get(p, "period_end"))
  & JobId(p)
  & SafeIdentifier(Get(p, "training_code"), SafeId)
  & Named(p, "training_name") & Named(p, "learner_name") & Named(p, "campus_name")
  & BoundedInt(Get(p, "total_hours"), 1, 10000)
  & Date(Get(p, "issued_on"))
  & RequiredText(GetOr(p, "issuer", Issuer), 160)

ParseStudentCard(p) ==
  Period(Get(p, "issued_on"), Get(p, "valid_until"))
  & JobId(p)
  & SafeIdentifier(Get(p, "member_id"), SafeJobId)
  & Named(p, "learner_name") & Named(p, "campus_name")

ReviewFields ==
  {"action", "job_id", "review_code", "subject_code", "subject_name", "group_name",
   "participant_names", "reviewer_name", "reviewed_on", "is_final", "verdict", "feedback",
   "evidence_url", "medal_names", "moulinette_evidence", "contract_version"}

\* Medals need a final human review that passed.
Medals(p) ==
  LET medals == GetOr(p, "medal_names", List(0, Null)) IN
  TextList(medals, 100, 160, TRUE)
  & Check(medals.len > 0 => Get(p, "is_final").holds /\ Get(p, "verdict").word = "passed")

\* What is checked of a review up to its identifier, and after it up to the URL.
ReviewNamed(p) ==
  Check(DOMAIN p.at \subseteq ReviewFields)
  & Is(Get(p, "is_final"), "bool")
  & RequiredText(Get(p, "verdict"), 16)
  & Check(Get(p, "verdict").word \in {"recorded", "passed", "failed", "reschedule"})
  & Medals(p)
  & JobId(p)
  & SafeIdentifier(Get(p, "review_code"), SafeJobId)

ReviewTexts(p) ==
  SafeIdentifier(Get(p, "subject_code"), SafeId)
  & Named(p, "subject_name") & Named(p, "group_name") & Named(p, "reviewer_name")
  & TextList(Get(p, "participant_names"), 100, 160, FALSE)
  & Date(Get(p, "reviewed_on"))
  & OptionalText(Get(p, "feedback"), 12000)

ParseReview(p) ==
  ReviewNamed(p) & ReviewTexts(p)
  & OptionalHttpUrl(Get(p, "evidence_url"))
  & ParseMoulinetteEvidence(Get(p, "moulinette_evidence"))

\* Mutant: a review is named as a document of its subject.
FamilyReviewOfSubject ==
  [render_subject_pdf      |-> [kind |-> <<"subject">>, id |-> "subject_code"],
   render_certificate_pdf  |-> [kind |-> <<"certificate">>, id |-> "certificate_code"],
   render_attestation_pdf  |-> [kind |-> <<"attestation">>, id |-> "training_code"],
   render_student_card_pdf |-> [kind |-> <<"student", "card">>, id |-> "member_id"],
   render_review_pdf       |-> [kind |-> <<"subject", "review">>, id |-> "review_code"]]

\* _destination: the first part of the name and the payload's field for the second.
Family ==
  [render_subject_pdf      |-> [kind |-> <<"subject">>, id |-> "subject_code"],
   render_certificate_pdf  |-> [kind |-> <<"certificate">>, id |-> "certificate_code"],
   render_attestation_pdf  |-> [kind |-> <<"attestation">>, id |-> "training_code"],
   render_student_card_pdf |-> [kind |-> <<"student", "card">>, id |-> "member_id"],
   render_review_pdf       |-> [kind |-> <<"review">>, id |-> "review_code"]]

Action(p) == Get(p, "action").word

\* The action chooses the family.
ParseFamily(p) ==
  CASE Action(p) = "render_subject_pdf"      -> ParseSubject(p)
    [] Action(p) = "render_certificate_pdf"  -> ParseCertificate(p)
    [] Action(p) = "render_attestation_pdf"  -> ParseAttestation(p)
    [] Action(p) = "render_student_card_pdf" -> ParseStudentCard(p)
    [] Action(p) = "render_review_pdf"       -> ParseReview(p)

ParseDocument(p) ==
  LET version == Get(p, "contract_version") IN
  Is(p, "object") & Members(p)
  & (IF version.type = "null" THEN "ok"
     ELSE IsOneOf(version, {"tryscode.document-render.v1"}))
  & IsOneOf(Get(p, "action"), DOMAIN Family)
  & ParseFamily(p)

JobWord(p) == Get(p, "job_id").word
Identifier(p) == Get(p, Family[Action(p)].id)
IdWord(p) == Identifier(p).word

\* The name of the PDF, cut at its hyphens: kind-identifier-job_id.
DocumentName(kind, id, job) == kind \o Pieces[id] \o Pieces[job]
=============================================================================
