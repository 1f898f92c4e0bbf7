------------------------- MODULE JobContractProofs -------------------------
(* What parse_document returns for every payload and has checked of those  *)
(* it accepts, whatever the words that match its patterns; and from it,    *)
(* what the components accept of each other, for every setting, request,   *)
(* version, size and answer.                                               *)
EXTENDS JobContract, SequenceTheorems, TLAPS

Verdict == {"ok", "refused", "raised"}
Plain == {"ok", "refused"}  \* the verdicts of a check that raises nothing

-----------------------------------------------------------------------------
(* One check after another.                                                *)

\* A sequence of checks is "ok" when each of them is.
LEMMA AndOk ==
  ASSUME NEW a, NEW b
  PROVE  (a & b) = "ok" <=> a = "ok" /\ b = "ok"
  BY DEF &

\* The first check decides when it is not "ok", the second when it is.
LEMMA OkAnd ==
  ASSUME NEW b
  PROVE  ("ok" & b) = b
  BY DEF &

LEMMA RefusedAnd ==
  ASSUME NEW b
  PROVE  ("refused" & b) = "refused"
  BY DEF &

LEMMA AndPlain ==
  ASSUME NEW a \in Plain, NEW b \in Plain
  PROVE  (a & b) \in Plain
  BY DEF &, Plain

LEMMA AndVerdict ==
  ASSUME NEW a \in Verdict, NEW b \in Verdict
  PROVE  (a & b) \in Verdict
  BY DEF &, Verdict

\* The first check that is not "ok" decides; "raised" comes from one of them.
LEMMA AndRaised ==
  ASSUME NEW a, NEW b, (a & b) = "raised"
  PROVE  a = "raised" \/ (a = "ok" /\ b = "raised")
  BY DEF &

LEMMA NotOkAnd ==
  ASSUME NEW a, NEW b, a # "ok"
  PROVE  (a & b) = a
  BY DEF &

LEMMA CheckPlain ==
  ASSUME NEW b
  PROVE  Check(b) \in Plain
  BY DEF Check, Plain

-----------------------------------------------------------------------------
(* Which checks raise.                                                     *)

\* What is done to a value of the type that was checked is all that counts.
LEMMA IsGuards ==
  ASSUME NEW v, NEW type, NEW b, v.type = type => b \in Plain
  PROVE  Is(v, type) & b \in Plain
<1>1. CASE v.type = type
  <2>1. Is(v, type) = "ok"  BY <1>1 DEF Is, Check
  <2> QED  BY <1>1, <2>1, OkAnd
<1>2. CASE v.type # type
  <2>1. Is(v, type) = "refused"  BY <1>2 DEF Is, Check
  <2> QED  BY <2>1, RefusedAnd DEF Plain
<1> QED  BY <1>1, <1>2

LEMMA NeedsPlain ==
  ASSUME NEW v, NEW types, v.type \in types
  PROVE  Needs(v, types) = "ok" /\ Needs(v, types) \in Plain
  BY DEF Needs, Plain

LEMMA TypeGuards ==
  ASSUME NEW v
  PROVE  /\ Is(v, "text") & Strip(v) \in Plain
         /\ Is(v, "text") & Sized(v) \in Plain
         /\ Is(v, "text") & Hash(v) \in Plain
         /\ Is(v, "list") & Sized(v) \in Plain
         /\ Is(v, "object") & Members(v) \in Plain
<1>1. v.type = "text" => Strip(v) \in Plain /\ Sized(v) \in Plain /\ Hash(v) \in Plain
  BY NeedsPlain DEF Strip, Sized, Hash
<1>2. v.type = "list" => Sized(v) \in Plain  BY NeedsPlain DEF Sized
<1>3. v.type = "object" => Members(v) \in Plain  BY NeedsPlain DEF Members
<1> QED  BY <1>1, <1>2, <1>3, IsGuards

\* The validators of texts, numbers and lists accept or refuse: the checks of the type
\* that come first leave no value on which the operations after them raise.
LEMMA TextPlain ==
  ASSUME NEW v, NEW n
  PROVE  RequiredText(v, n) \in Plain /\ OptionalText(v, n) \in Plain
<1>1. RequiredText(v, n) \in Plain
  BY TypeGuards, CheckPlain, AndPlain DEF RequiredText
<1> QED  BY <1>1 DEF OptionalText, Plain

LEMMA OneOfPlain ==
  ASSUME NEW v, NEW words
  PROVE  /\ IsOneOf(v, words) \in Plain
         /\ Is(v, "text") & Matches(v, words) \in Plain
<1>1. IsOneOf(v, words) \in Plain  BY CheckPlain DEF IsOneOf
<1>2. v.type = "text" => Matches(v, words) \in Plain
  BY <1>1, NeedsPlain, AndPlain DEF Matches, Strip
<1> QED  BY <1>1, <1>2, IsGuards

LEMMA SafeIdentifierPlain ==
  ASSUME NEW v, NEW pattern
  PROVE  SafeIdentifier(v, pattern) \in Plain
  BY TextPlain, CheckPlain, AndPlain DEF SafeIdentifier

LEMMA JobIdPlain ==
  ASSUME NEW p
  PROVE  JobId(p) \in Plain
  BY SafeIdentifierPlain DEF JobId

LEMMA NamedPlain ==
  ASSUME NEW p, NEW name
  PROVE  Named(p, name) \in Plain
  BY TextPlain DEF Named

LEMMA TextListPlain ==
  ASSUME NEW v, NEW n, NEW m, NEW e
  PROVE  TextList(v, n, m, e) \in Plain
<1> DEFINE bounded == Check(v.len \in (IF e THEN 0 ELSE 1)..n)
           items == IF v.len = 0 THEN "ok" ELSE RequiredText(v.item, m)
<1>1. bounded \in Plain  BY CheckPlain
<1>2. items \in Plain  BY TextPlain DEF Plain
<1>3. TextList(v, n, m, e) = Is(v, "list") & Sized(v) & bounded & items  BY DEF TextList
<1> HIDE DEF bounded, items
<1>4. Is(v, "list") & Sized(v) \in Plain  BY TypeGuards
<1> QED  BY <1>1, <1>2, <1>3, <1>4, AndPlain

LEMMA DatePlain ==
  ASSUME NEW v
  PROVE  Date(v) \in Plain
  BY TextPlain, CheckPlain, AndPlain DEF Date

LEMMA PeriodPlain ==
  ASSUME NEW v, NEW w
  PROVE  Period(v, w) \in Plain
  BY DatePlain, CheckPlain, AndPlain DEF Period

LEMMA BoundedIntPlain ==
  ASSUME NEW v, NEW n, NEW m
  PROVE  BoundedInt(v, n, m) \in Plain
<1> DEFINE bounded == Check(v.n \in n..m)
<1>1. bounded \in Plain  BY CheckPlain
<1>2. BoundedInt(v, n, m)
        = Check(v.type # "bool") & Check(v.type \in {"int", "bool"}) & Compare(v) & bounded
  BY DEF BoundedInt
<1> HIDE DEF bounded
<1>3. Check(v.type # "bool") & Check(v.type \in {"int", "bool"}) \in Plain
  BY CheckPlain, AndPlain
<1>4. CASE v.type \in {"int", "bool"}
  <2>1. Compare(v) \in Plain  BY <1>4, NeedsPlain DEF Compare
  <2> QED  BY <1>1, <1>2, <1>3, <2>1, AndPlain
<1>5. CASE v.type \notin {"int", "bool"}
  <2>1. Check(v.type # "bool") = "ok" /\ Check(v.type \in {"int", "bool"}) = "refused"
    BY <1>5 DEF Check
  <2> QED  BY <1>2, <2>1, OkAnd, RefusedAnd DEF Plain
<1> QED  BY <1>4, <1>5

LEMMA EvidenceTextPlain ==
  ASSUME NEW v, NEW n
  PROVE  BoundedIdentifier(v, n) \in Plain /\ BoundedEvidenceText(v, n) \in Plain
<1> DEFINE bounded == Check(v.len + v.pad \in 1..n)
           printable == Check(v.word \notin Unprintable /\ v.len > 0)
           safe == IsOneOf(v, SafeEvidenceId)
<1>1. bounded \in Plain /\ printable \in Plain  BY CheckPlain
<1>2. safe \in Plain  BY OneOfPlain
<1>3. BoundedIdentifier(v, n) = Is(v, "text") & Sized(v) & bounded & (Strip(v) & safe)
  BY DEF BoundedIdentifier, Matches
<1>4. BoundedEvidenceText(v, n) = Is(v, "text") & Sized(v) & bounded & Strip(v) & printable
  BY DEF BoundedEvidenceText
<1> HIDE DEF bounded, printable, safe
<1>5. CASE v.type = "text"
  <2>1. Is(v, "text") = "ok" /\ Sized(v) = "ok" /\ Strip(v) = "ok"
    BY <1>5, NeedsPlain DEF Is, Sized, Strip, Check
  <2>2. BoundedIdentifier(v, n) = bounded & safe  BY <1>3, <2>1, OkAnd
  <2>3. BoundedEvidenceText(v, n) = bounded & "ok" & printable  BY <1>4, <2>1, OkAnd
  <2>4. bounded & "ok" \in Plain  BY <1>1, AndPlain DEF Plain
  <2> QED  BY <1>1, <1>2, <2>2, <2>3, <2>4, AndPlain
<1>6. CASE v.type # "text"
  <2>1. Is(v, "text") = "refused"  BY <1>6 DEF Is, Check
  <2> QED  BY <1>3, <1>4, <2>1, RefusedAnd DEF Plain
<1> QED  BY <1>5, <1>6

\* The members are read after their names were compared with those expected.
LEMMA FieldsPlain ==
  ASSUME NEW v, NEW names
  PROVE  ExactFields(v, names) \in Plain
<1> DEFINE same == Check(v.type = "object" /\ DOMAIN v.at = names)
<1>1. ExactFields(v, names) = Is(v, "object") & Distinct(v) & same & Subscript(v, names)
  BY DEF ExactFields
<1>2. same \in Plain  BY CheckPlain
<1>3. CASE v.type = "object"
  <2>1. Is(v, "object") = "ok" /\ Distinct(v) = "ok" /\ Members(v) = "ok"
    BY <1>3, NeedsPlain DEF Is, Check, Distinct, Sized, Members
  <2>2. ExactFields(v, names) = same & Subscript(v, names)
    BY <1>1, <2>1, OkAnd
  <2>3. CASE DOMAIN v.at = names
    <3>1. Subscript(v, names) = "ok"  BY <2>1, <2>3, OkAnd DEF Subscript
    <3> QED  BY <1>2, <2>2, <3>1, AndPlain DEF Plain
  <2>4. CASE DOMAIN v.at # names
    <3>1. same = "refused"  BY <2>4 DEF Check
    <3> QED  BY <2>2, <3>1, RefusedAnd DEF Plain
  <2> QED  BY <2>3, <2>4
<1>4. CASE v.type # "object"
  <2>1. Is(v, "object") = "refused"  BY <1>4 DEF Is, Check
  <2> HIDE DEF same
  <2> QED  BY <1>1, <2>1, RefusedAnd DEF Plain
<1> QED  BY <1>3, <1>4

\* Nor does the evidence of a review raise, whatever its type and the types inside.
LEMMA EvidencePlain ==
  ASSUME NEW v
  PROVE  ParseMoulinetteEvidence(v) \in Plain
<1>1. \A x : ParseVerdict(x) \in Plain
  <2>1. \A x, type : Is(x, type) \in Plain  BY CheckPlain DEF Is
  <2> QED  BY <2>1, FieldsPlain, OneOfPlain, EvidenceTextPlain, CheckPlain, AndPlain
           DEF ParseVerdict
<1>2. \A x : ParseCounts(x) \in Plain
  BY FieldsPlain, BoundedIntPlain, AndPlain DEF ParseCounts
<1>3. \A x : SummaryShape(x) \in Plain
  BY <1>2, FieldsPlain, BoundedIntPlain, AndPlain DEF SummaryShape
<1>4. \A x : ParseSummary(x) \in Plain
  BY <1>3, CheckPlain, AndPlain DEF ParseSummary
<1>5. ASSUME NEW x PROVE ReportMode(x) \in Plain
  <2>1. IsOneOf(x, {"drawer", "expected"}) \in Plain  BY OneOfPlain
  <2> QED  BY <2>1, TypeGuards, AndPlain DEF ReportMode
<1>6. \A x : ReportSha256(x) \in Plain  BY OneOfPlain DEF ReportSha256
<1>7. CASE v.type = "null"
  BY <1>7 DEF ParseMoulinetteEvidence, Plain
<1>8. CASE v.type # "null"
  BY <1>1, <1>4, <1>5, <1>6, <1>8, FieldsPlain, OneOfPlain, EvidenceTextPlain, AndPlain
     DEF ParseMoulinetteEvidence
<1> QED  BY <1>7, <1>8

\* Four families raise nothing.
LEMMA SectionsPlain ==
  ASSUME NEW v
  PROVE  Sections(v) \in Plain
<1>1. ASSUME NEW s PROVE Section(s) \in Plain
  BY TypeGuards, TextPlain, AndPlain DEF Section
<1>2. Is(v, "list") & Sized(v) \in Plain  BY TypeGuards
<1>3. Check(v.len \in 1..30) \in Plain  BY CheckPlain
<1> QED  BY <1>1, <1>2, <1>3, AndPlain DEF Sections

LEMMA SubjectPlain ==
  ASSUME NEW p
  PROVE  ParseSubject(p) \in Plain
  BY JobIdPlain, SafeIdentifierPlain, NamedPlain, TextPlain, SectionsPlain, AndPlain
     DEF ParseSubject

LEMMA CertificatePlain ==
  ASSUME NEW p
  PROVE  ParseCertificate(p) \in Plain
  BY JobIdPlain, SafeIdentifierPlain, NamedPlain, DatePlain, TextPlain, AndPlain
     DEF ParseCertificate

LEMMA AttestationPlain ==
  ASSUME NEW p
  PROVE  ParseAttestation(p) \in Plain
  BY PeriodPlain, JobIdPlain, SafeIdentifierPlain, NamedPlain, BoundedIntPlain, DatePlain,
     TextPlain, AndPlain DEF ParseAttestation

LEMMA StudentCardPlain ==
  ASSUME NEW p
  PROVE  ParseStudentCard(p) \in Plain
  BY PeriodPlain, JobIdPlain, SafeIdentifierPlain, NamedPlain, AndPlain DEF ParseStudentCard

\* A review raises on its evidence URL only.
LEMMA UrlRaises ==
  ASSUME NEW v
  PROVE  /\ OptionalHttpUrl(v) \in Verdict
         /\ OptionalHttpUrl(v) = "raised" => v.type = "text" /\ v.word \in MalformedUrl
<1>1. RequiredText(v, 512) \in Plain  BY TextPlain
<1>2. Check(v.word \in HttpUrl) \in Plain  BY CheckPlain
<1>3. RequiredText(v, 512) = "ok" => v.type = "text"  BY AndOk DEF RequiredText, Is, Check
<1> QED  BY <1>1, <1>2, <1>3 DEF OptionalHttpUrl, Plain, Verdict, &

LEMMA MedalsPlain ==
  ASSUME NEW p
  PROVE  Medals(p) \in Plain
<1> DEFINE medals == GetOr(p, "medal_names", List(0, Null))
           names == TextList(medals, 100, 160, TRUE)
           final == medals.len > 0 => Get(p, "is_final").holds
                                      /\ Get(p, "verdict").word = "passed"
<1>1. names \in Plain  BY TextListPlain
<1>2. Check(final) \in Plain  BY CheckPlain
<1>3. Medals(p) = names & Check(final)  BY DEF Medals
<1> HIDE DEF medals, names, final
<1> QED  BY <1>1, <1>2, <1>3, AndPlain

LEMMA ReviewRaises ==
  ASSUME NEW p
  PROVE  /\ ParseReview(p) \in Verdict
         /\ ParseReview(p) = "raised" => UrlIsMalformed(p)
<1> DEFINE before == ReviewNamed(p) & ReviewTexts(p)
           url == OptionalHttpUrl(Get(p, "evidence_url"))
           evidence == ParseMoulinetteEvidence(Get(p, "moulinette_evidence"))
<1>1. ParseReview(p) = before & url & evidence
  BY DEF ParseReview
<1>2. before \in Plain
  <2>1. /\ Check(DOMAIN p.at \subseteq ReviewFields) \in Plain
        /\ Is(Get(p, "is_final"), "bool") \in Plain
        /\ Check(Get(p, "verdict").word \in {"recorded", "passed", "failed", "reschedule"})
              \in Plain
    BY DEF Is, Check, Plain
  <2>2. ReviewNamed(p) \in Plain
    BY <2>1, TextPlain, MedalsPlain, JobIdPlain, SafeIdentifierPlain, AndPlain DEF ReviewNamed
  <2>3. ReviewTexts(p) \in Plain
    <3> DEFINE participants == TextList(Get(p, "participant_names"), 100, 160, FALSE)
    <3>1. participants \in Plain  BY TextListPlain
    <3>2. ReviewTexts(p) =
            SafeIdentifier(Get(p, "subject_code"), SafeId)
            & Named(p, "subject_name") & Named(p, "group_name") & Named(p, "reviewer_name")
            & participants & Date(Get(p, "reviewed_on"))
            & OptionalText(Get(p, "feedback"), 12000)
      BY DEF ReviewTexts
    <3> HIDE DEF participants
    <3> QED  BY <3>1, <3>2, TextPlain, SafeIdentifierPlain, NamedPlain, DatePlain, AndPlain
  <2> QED  BY <2>2, <2>3, AndPlain
<1>3. evidence \in Plain  BY EvidencePlain
<1>4. url \in Verdict /\ (url = "raised" => UrlIsMalformed(p))
  BY UrlRaises DEF UrlIsMalformed
<1> HIDE DEF before, url, evidence
<1>5. before \in Verdict /\ evidence \in Verdict /\ before # "raised" /\ evidence # "raised"
  BY <1>2, <1>3 DEF Plain, Verdict
<1>6. before & url & evidence \in Verdict  BY <1>4, <1>5, AndVerdict
<1>7. before & url & evidence = "raised" => url = "raised"  BY <1>5, AndRaised
<1> QED  BY <1>1, <1>4, <1>6, <1>7

\* parse_document accepts, refuses, or raises because of a malformed evidence URL.
THEOREM DocumentRaises ==
  ASSUME NEW p
  PROVE  /\ ParseDocument(p) \in Verdict
         /\ ParseDocument(p) = "raised" => UrlIsMalformed(p)
<1> DEFINE version == Get(p, "contract_version")
           head == Is(p, "object") & Members(p)
                   & (IF version.type = "null" THEN "ok"
                      ELSE IsOneOf(version, {"tryscode.document-render.v1"}))
                   & IsOneOf(Get(p, "action"), DOMAIN Family)
<1>1. ParseDocument(p) = head & ParseFamily(p)  BY DEF ParseDocument
<1>2. head \in Plain
  <2>1. (IF version.type = "null" THEN "ok"
         ELSE IsOneOf(version, {"tryscode.document-render.v1"})) \in Plain
    BY OneOfPlain DEF Plain
  <2>2. Is(p, "object") & Members(p) \in Plain  BY TypeGuards
  <2> QED  BY <2>1, <2>2, OneOfPlain, AndPlain
<1>3. head = "ok" => Action(p) \in DOMAIN Family
  BY AndOk DEF IsOneOf, Action, Check
<1>4. ASSUME Action(p) \in DOMAIN Family
      PROVE  /\ ParseFamily(p) \in Verdict
             /\ ParseFamily(p) = "raised" => UrlIsMalformed(p)
  <2>1. CASE Action(p) = "render_subject_pdf"
    BY <2>1, SubjectPlain DEF ParseFamily, Plain, Verdict
  <2>2. CASE Action(p) = "render_certificate_pdf"
    BY <2>2, CertificatePlain DEF ParseFamily, Plain, Verdict
  <2>3. CASE Action(p) = "render_attestation_pdf"
    BY <2>3, AttestationPlain DEF ParseFamily, Plain, Verdict
  <2>4. CASE Action(p) = "render_student_card_pdf"
    BY <2>4, StudentCardPlain DEF ParseFamily, Plain, Verdict
  <2>5. CASE Action(p) = "render_review_pdf"
    BY <2>5, ReviewRaises DEF ParseFamily
  <2> QED  BY <1>4, <2>1, <2>2, <2>3, <2>4, <2>5 DEF Family
<1> HIDE DEF head
<1>5. CASE head = "ok"  BY <1>1, <1>3, <1>4, <1>5, OkAnd
<1>6. CASE head # "ok"  BY <1>1, <1>2, <1>6, NotOkAnd DEF Plain, Verdict
<1> QED  BY <1>5, <1>6

-----------------------------------------------------------------------------
(* What has been checked of a document.                                    *)

LEMMA SafeIdentifierOk ==
  ASSUME NEW v, NEW pattern, SafeIdentifier(v, pattern) = "ok"
  PROVE  v.len \in 1..64 /\ v.word \in pattern
  BY AndOk DEF SafeIdentifier, RequiredText, Check

\* A document has a family, a job and an identifier that match their patterns.
THEOREM DocumentChecked ==
  ASSUME NEW p, ParseDocument(p) = "ok"
  PROVE  /\ Action(p) \in DOMAIN Family
         /\ Get(p, "job_id").len \in 1..64 /\ JobWord(p) \in SafeJobId
         /\ Identifier(p).len \in 1..64 /\ IdWord(p) \in SafeJobId
<1>1. Action(p) \in DOMAIN Family /\ ParseFamily(p) = "ok"
  BY AndOk DEF ParseDocument, IsOneOf, Action, Check
<1>2. SUFFICES JobId(p) = "ok" /\ (\/ SafeIdentifier(Identifier(p), SafeId) = "ok"
                                  \/ SafeIdentifier(Identifier(p), SafeJobId) = "ok")
  BY <1>1, SafeIdentifierOk, PatternAssumption DEF JobId, JobWord, IdWord
<1>3. CASE Action(p) = "render_subject_pdf"
  <2>1. ParseSubject(p) = "ok"  BY <1>1, <1>3 DEF ParseFamily
  <2>2. JobId(p) = "ok" /\ SafeIdentifier(Get(p, "subject_code"), SafeId) = "ok"
    BY <2>1, AndOk DEF ParseSubject
  <2> QED  BY <1>3, <2>2 DEF Identifier, Family
<1>4. CASE Action(p) = "render_certificate_pdf"
  <2>1. ParseCertificate(p) = "ok"  BY <1>1, <1>4 DEF ParseFamily
  <2>2. JobId(p) = "ok" /\ SafeIdentifier(Get(p, "certificate_code"), SafeJobId) = "ok"
    BY <2>1, AndOk DEF ParseCertificate
  <2> QED  BY <1>4, <2>2 DEF Identifier, Family
<1>5. CASE Action(p) = "render_attestation_pdf"
  <2>1. ParseAttestation(p) = "ok"  BY <1>1, <1>5 DEF ParseFamily
  <2>2. JobId(p) = "ok" /\ SafeIdentifier(Get(p, "training_code"), SafeId) = "ok"
    BY <2>1, AndOk DEF ParseAttestation
  <2> QED  BY <1>5, <2>2 DEF Identifier, Family
<1>6. CASE Action(p) = "render_student_card_pdf"
  <2>1. ParseStudentCard(p) = "ok"  BY <1>1, <1>6 DEF ParseFamily
  <2>2. JobId(p) = "ok" /\ SafeIdentifier(Get(p, "member_id"), SafeJobId) = "ok"
    BY <2>1, AndOk DEF ParseStudentCard
  <2> QED  BY <1>6, <2>2 DEF Identifier, Family
<1>7. CASE Action(p) = "render_review_pdf"
  <2>1. ParseReview(p) = "ok"  BY <1>1, <1>7 DEF ParseFamily
  <2>2. ReviewNamed(p) = "ok"  BY <2>1, AndOk DEF ParseReview
  <2>3. JobId(p) = "ok" /\ SafeIdentifier(Get(p, "review_code"), SafeJobId) = "ok"
    BY <2>2, AndOk DEF ReviewNamed
  <2> QED  BY <1>7, <2>3 DEF Identifier, Family
<1> QED  BY <1>1, <1>3, <1>4, <1>5, <1>6, <1>7 DEF Family

-----------------------------------------------------------------------------
(* The names of documents.                                                 *)

\* Pieces, with the words of the code among them.
Word == STRING \cup {"subject", "certificate", "attestation", "student", "card", "review"}

LEMMA Singleton ==
  ASSUME NEW x \in Word
  PROVE  <<x>> \in Seq(Word) /\ Len(<<x>>) = 1 /\ <<x>>[1] = x
  OBVIOUS

LEMMA PiecesAreWords ==
  ASSUME NEW w \in SafeJobId
  PROVE  Pieces[w] \in Seq(Word)
<1>1. Pieces[w] \in Seq(STRING)  BY PiecesAssumption
<1>2. STRING \subseteq Word  BY DEF Word
<1> QED  BY <1>1, <1>2, SeqMonotonic

FirstWord ==
  [render_subject_pdf |-> "subject", render_certificate_pdf |-> "certificate",
   render_attestation_pdf |-> "attestation", render_student_card_pdf |-> "student",
   render_review_pdf |-> "review"]

LEMMA KindOfFamily ==
  ASSUME NEW a \in DOMAIN Family
  PROVE  LET kind == Family[a].kind IN
         kind \in Seq(Word) /\ Len(kind) >= 1 /\ kind[1] = FirstWord[a]
<1>1. CASE a = "render_subject_pdf"
  <2>1. Family[a].kind = <<"subject">> /\ "subject" \in Word  BY <1>1 DEF Family, Word
  <2> QED  BY <1>1, <2>1, Singleton DEF FirstWord
<1>2. CASE a = "render_certificate_pdf"
  <2>1. Family[a].kind = <<"certificate">> /\ "certificate" \in Word  BY <1>2 DEF Family, Word
  <2> QED  BY <1>2, <2>1, Singleton DEF FirstWord
<1>3. CASE a = "render_attestation_pdf"
  <2>1. Family[a].kind = <<"attestation">> /\ "attestation" \in Word  BY <1>3 DEF Family, Word
  <2> QED  BY <1>3, <2>1, Singleton DEF FirstWord
<1>4. CASE a = "render_student_card_pdf"
  <2>1. Family[a].kind = <<"student", "card">> /\ {"student", "card"} \subseteq Word
    BY <1>4 DEF Family, Word
  <2> QED  BY <1>4, <2>1, Singleton DEF FirstWord
<1>5. CASE a = "render_review_pdf"
  <2>1. Family[a].kind = <<"review">> /\ "review" \in Word  BY <1>5 DEF Family, Word
  <2> QED  BY <1>5, <2>1, Singleton DEF FirstWord
<1> QED  BY <1>1, <1>2, <1>3, <1>4, <1>5 DEF Family

\* The first piece of a name tells the families apart.
LEMMA FirstPiece ==
  ASSUME NEW a \in DOMAIN Family, NEW id \in SafeJobId, NEW job \in SafeJobId
  PROVE  LET name == DocumentName(Family[a].kind, id, job) IN
         name \in Seq(Word) /\ Len(name) >= 1 /\ name[1] = FirstWord[a]
<1>1. Pieces[id] \in Seq(Word) /\ Pieces[job] \in Seq(Word)
  BY PiecesAreWords
<1>2. Family[a].kind \in Seq(Word) /\ Len(Family[a].kind) >= 1
      /\ Family[a].kind[1] = FirstWord[a]
  BY KindOfFamily
<1>3. DocumentName(Family[a].kind, id, job) = Family[a].kind \o Pieces[id] \o Pieces[job]
  BY DEF DocumentName
<1> DEFINE kind == Family[a].kind
           first == Pieces[id]
           second == Pieces[job]
<1> HIDE DEF kind, first, second
<1>4. kind \in Seq(Word) /\ first \in Seq(Word) /\ second \in Seq(Word)
      /\ Len(kind) >= 1 /\ kind[1] = FirstWord[a]
  BY <1>1, <1>2 DEF kind, first, second
<1>5. kind \o first \in Seq(Word) /\ Len(kind \o first) >= 1 /\ (kind \o first)[1] = kind[1]
  BY <1>4, ConcatProperties
<1>6. /\ kind \o first \o second \in Seq(Word)
      /\ Len(kind \o first \o second) >= 1
      /\ (kind \o first \o second)[1] = (kind \o first)[1]
  BY <1>4, <1>5, ConcatProperties
<1> QED  BY <1>3, <1>4, <1>5, <1>6 DEF kind, first, second

\* A name fixes the family, and with the identifier the job.
THEOREM NamesApart ==
  ASSUME NEW a \in DOMAIN Family, NEW b \in DOMAIN Family,
         NEW i \in SafeJobId, NEW j \in SafeJobId, NEW k \in SafeJobId, NEW l \in SafeJobId,
         DocumentName(Family[a].kind, i, j) = DocumentName(Family[b].kind, k, l)
  PROVE  a = b /\ (i = k => j = l)
<1>1. FirstWord[a] = FirstWord[b]
  <2>1. DocumentName(Family[a].kind, i, j)[1] = FirstWord[a]  BY FirstPiece
  <2>2. DocumentName(Family[b].kind, k, l)[1] = FirstWord[b]  BY FirstPiece
  <2> QED  BY <2>1, <2>2
<1>2. a = b  BY <1>1 DEF FirstWord, Family
<1>3. ASSUME i = k PROVE j = l
  <2> DEFINE prefix == Family[a].kind \o Pieces[i]
  <2>1. Family[a].kind \in Seq(Word)  BY KindOfFamily
  <2>2. Pieces[i] \in Seq(Word) /\ Pieces[j] \in Seq(Word) /\ Pieces[l] \in Seq(Word)
    BY PiecesAreWords
  <2>3. prefix \in Seq(Word)  BY <2>1, <2>2, ConcatProperties
  <2>4. prefix \o Pieces[j] = prefix \o Pieces[l]  BY <1>2, <1>3 DEF DocumentName
  <2> HIDE DEF prefix
  <2>5. Pieces[j] = Pieces[l]  BY <2>2, <2>3, <2>4, ConcatSimplifications
  <2> QED  BY <2>5, PiecesAssumption
<1> QED  BY <1>2, <1>3

-----------------------------------------------------------------------------
(* The summary of a moulinette's evidence.                                 *)

\* An object with exact fields has them as members.
LEMMA FieldsAreMembers ==
  ASSUME NEW v, NEW names, ExactFields(v, names) = "ok"
  PROVE  \A name \in names : Get(v, name) = v.at[name]
<1>1. Check(v.type = "object" /\ DOMAIN v.at = names) = "ok"
  BY AndOk DEF ExactFields
<1>2. v.type = "object" /\ DOMAIN v.at = names
  BY <1>1 DEF Check
<1> QED  BY <1>2 DEF Get, GetOr, Has

LEMMA BoundedIntOk ==
  ASSUME NEW v, NEW n, NEW m, BoundedInt(v, n, m) = "ok"
  PROVE  v.n \in n..m
<1>1. Check(v.n \in n..m) = "ok"  BY AndOk DEF BoundedInt
<1> QED  BY <1>1 DEF Check

\* What the shape of a summary says of its numbers.
LEMMA SummaryNumbers ==
  ASSUME NEW v, SummaryShape(v) = "ok"
  PROVE  /\ Item(v, "total_items") \in 1..MaxEvidenceItems
         /\ Item(v, "required_items") \in 0..MaxEvidenceItems
         /\ Item(v, "optional_items") \in 0..MaxEvidenceItems
         /\ Count(v, "by_status") \in [EvidenceStatus -> 0..MaxEvidenceItems]
         /\ Count(v, "required_by_status") \in [EvidenceStatus -> 0..MaxEvidenceItems]
<1>1. /\ ExactFields(v, SummaryFields) = "ok"
      /\ BoundedInt(Get(v, "total_items"), 1, MaxEvidenceItems) = "ok"
      /\ BoundedInt(Get(v, "required_items"), 0, MaxEvidenceItems) = "ok"
      /\ BoundedInt(Get(v, "optional_items"), 0, MaxEvidenceItems) = "ok"
      /\ ParseCounts(Get(v, "by_status")) = "ok"
      /\ ParseCounts(Get(v, "required_by_status")) = "ok"
  BY AndOk DEF SummaryShape
<1>2. \A name \in SummaryFields : Get(v, name) = v.at[name]
  BY <1>1, FieldsAreMembers
<1>3. ASSUME NEW w, ParseCounts(w) = "ok"
      PROVE  \A s \in EvidenceStatus : w.at[s].n \in 0..MaxEvidenceItems
  <2>1. ExactFields(w, EvidenceStatus) = "ok"
    BY <1>3, AndOk DEF ParseCounts
  <2>2. /\ BoundedInt(Get(w, "pass"), 0, MaxEvidenceItems) = "ok"
        /\ BoundedInt(Get(w, "fail"), 0, MaxEvidenceItems) = "ok"
        /\ BoundedInt(Get(w, "not_run"), 0, MaxEvidenceItems) = "ok"
        /\ BoundedInt(Get(w, "error"), 0, MaxEvidenceItems) = "ok"
    BY <1>3, AndOk DEF ParseCounts
  <2>3. \A s \in EvidenceStatus : Get(w, s).n \in 0..MaxEvidenceItems
    BY <2>2, BoundedIntOk DEF EvidenceStatus
  <2>4. \A s \in EvidenceStatus : Get(w, s) = w.at[s]
    BY <2>1, FieldsAreMembers
  <2> QED  BY <2>3, <2>4
<1>4. /\ Item(v, "total_items") \in 1..MaxEvidenceItems
      /\ Item(v, "required_items") \in 0..MaxEvidenceItems
      /\ Item(v, "optional_items") \in 0..MaxEvidenceItems
  <2>1. /\ Get(v, "total_items").n \in 1..MaxEvidenceItems
        /\ Get(v, "required_items").n \in 0..MaxEvidenceItems
        /\ Get(v, "optional_items").n \in 0..MaxEvidenceItems
    BY <1>1, BoundedIntOk
  <2> QED  BY <1>2, <2>1 DEF Item, SummaryFields
<1>5. Count(v, "by_status") \in [EvidenceStatus -> 0..MaxEvidenceItems]
  BY <1>1, <1>2, <1>3 DEF Count, SummaryFields
<1>6. Count(v, "required_by_status") \in [EvidenceStatus -> 0..MaxEvidenceItems]
  BY <1>1, <1>2, <1>3 DEF Count, SummaryFields
<1> QED  BY <1>4, <1>5, <1>6

-----------------------------------------------------------------------------
(* The counts of evidence.                                                 *)

\* Five checks of sums and bounds accept exactly the summaries of reports, for any
\* limit on the items.
LEMMA SummaryReference ==
  ASSUME NEW v, SummaryShape(v) = "ok"
  PROVE  ParseSummary(v) = "ok" <=> ReportOf(v) \in Report /\ IsSummaryOf(v, ReportOf(v))
<1> DEFINE M == MaxEvidenceItems
           t == Item(v, "total_items")
           q == Item(v, "required_items")
           o == Item(v, "optional_items")
           b == Count(v, "by_status")
           r == Count(v, "required_by_status")
<1>1. M \in Nat  BY ItemsAssumption
<1>2. /\ t \in 1..M /\ q \in 0..M /\ o \in 0..M
      /\ b \in [EvidenceStatus -> 0..M] /\ r \in [EvidenceStatus -> 0..M]
  BY SummaryNumbers
<1>3. ParseSummary(v) = "ok" <=> CoherentSummary(t, q, o, b, r)
  BY AndOk DEF ParseSummary, Check
<1>4. ReportOf(v) = [s \in EvidenceStatus |-> [required |-> r[s], optional |-> b[s] - r[s]]]
  BY DEF ReportOf
<1> HIDE DEF M, t, q, o, b, r
<1>5. ReportOf(v) \in Report <=> \A s \in EvidenceStatus : r[s] <= b[s]
  <2>1. ReportOf(v) \in Report <=>
          \A s \in EvidenceStatus : r[s] \in 0..M /\ b[s] - r[s] \in 0..M
    BY <1>4 DEF Report, M
  <2> QED  BY <1>1, <1>2, <2>1
<1>6. IsSummaryOf(v, ReportOf(v)) <=>
        /\ q = Total(r)
        /\ o = Total([s \in EvidenceStatus |-> b[s] - r[s]])
        /\ t = q + o
  <2>1. \A s \in EvidenceStatus : /\ ReportOf(v)[s].required = r[s]
                                  /\ ReportOf(v)[s].optional = b[s] - r[s]
    BY <1>4
  <2>2. \A s \in EvidenceStatus : b[s] = r[s] + (b[s] - r[s])
    BY <1>1, <1>2
  <2>3. /\ [s \in EvidenceStatus |-> ReportOf(v)[s].required] = r
        /\ [s \in EvidenceStatus |-> ReportOf(v)[s].optional]
             = [s \in EvidenceStatus |-> b[s] - r[s]]
    BY <1>2, <2>1
  <2> QED  BY <2>1, <2>2, <2>3 DEF IsSummaryOf, t, q, o, b, r
<1>7. Total([s \in EvidenceStatus |-> b[s] - r[s]]) = Total(b) - Total(r)
  BY <1>1, <1>2 DEF Total, EvidenceStatus
<1>8. Total(b) \in Int /\ Total(r) \in Int
  BY <1>1, <1>2 DEF Total, EvidenceStatus
<1> QED  BY <1>1, <1>2, <1>3, <1>5, <1>6, <1>7, <1>8 DEF CoherentSummary

\* Whatever the request, the summary it carries is accepted exactly when it is that of
\* a report.
THEOREM SummariesExact == Spec => []SummariesAreOfReports
<1>1. SummariesAreOfReports  BY SummaryReference DEF SummariesAreOfReports
<1> QED  BY <1>1, PTL

-----------------------------------------------------------------------------
(* The invariant.                                                          *)

Refusal == {"message-too-large", "invalid-json", "uncaught", "invalid-document"}
Stage == {"off", "stopped", "safe_idle", "waiting", "parsed", "unpublished", "encoded",
          "posting", "redirected", "pending", "reported", "escaped", "stuck"} \cup Refusal
Working == {"waiting"} \cup Refusal \cup (Stage \ {"off", "stopped", "safe_idle"})
Kept == {"encoded", "posting", "redirected", "pending"}
Answered == {"redirected", "reported"}

\* What a process may start from, and what it keeps of it.
TypesInv ==
  /\ stage \in Stage
  /\ settings.harmony_service_token.form \in Form
  /\ request.bytes \in Nat
  /\ body.bytes \in 0..MaxCallbackStateBytes
  /\ target = settings.harmony_callback_url

\* What has been checked before a stage is reached.
CheckedInv ==
  /\ stage \in Working => Loads(settings) /\ ValidateActive(settings)
  /\ stage \in Refusal => ParseBody(request) = stage
  /\ Accepted => ParseBody(request) = "ok"
  /\ AcceptedIsReportable

\* The body of a job that is not over is the continuation of an acceptable result.
Reportable(r) ==
  /\ r.mode \in {"success", "failure"}
  /\ BodyBytes(r) \in 1..MaxCallbackStateBytes
  /\ NotifyAccepts(r)

BodyInv ==
  stage \in Kept => body = CallbackBody(body.result) /\ Reportable(body.result)

ContactInv ==
  /\ contacted \subseteq {settings.harmony_callback_url}
  /\ contacted # {} => ValidCallbackUrl(settings.harmony_callback_url)
  /\ stage \in Answered => contacted # {}

Inv == TypesInv /\ CheckedInv /\ BodyInv /\ ContactInv

LEMMA InitInv == Init => Inv
<1> SUFFICES ASSUME Init PROVE Inv  OBVIOUS
<1>1. TypesInv
  BY CaseAssumption DEF Init, TypesInv, Stage, NoBody, MaxCallbackStateBytes
<1>2. CheckedInv
  BY DEF Init, CheckedInv, Working, Refusal, Stage, Accepted, AcceptedIsReportable
<1>3. BodyInv /\ ContactInv
  BY DEF Init, BodyInv, ContactInv, Kept, Answered
<1> QED  BY <1>1, <1>2, <1>3 DEF Inv

-----------------------------------------------------------------------------
(* What the checks of one component give the next.                         *)

\* Parsing a body has one of five outcomes, and ends "uncaught" only for the two reasons
\* the code has.
LEMMA ParseBodyOutcome ==
  ASSUME NEW r
  PROVE  /\ ParseBody(r) \in Refusal \cup {"ok"}
         /\ ParseBody(r) = "ok" => ParseDocument(r.payload) = "ok"
                                    /\ ~(r.bytes > MaxMessageBytes)
         /\ ParseBody(r) = "uncaught" =>
              r.json = "digits" \/ UrlIsMalformed(r.payload)
<1>1. /\ ParseDocument(r.payload) \in {"ok", "refused", "raised"}
      /\ ParseDocument(r.payload) = "raised"
           => UrlIsMalformed(r.payload)
  BY DocumentRaises DEF Verdict
<1>2. CASE r.bytes > MaxMessageBytes \/ r.bytes = 0 \/ r.json \in {"unreadable", "digits"}
  BY <1>2 DEF ParseBody, Refusal
<1>3. CASE ~(r.bytes > MaxMessageBytes) /\ r.bytes # 0 /\ r.json \notin {"unreadable", "digits"}
  <2>2. CASE ParseDocument(r.payload) = "ok"  BY <1>3, <2>2 DEF ParseBody, Refusal
  <2>3. CASE ParseDocument(r.payload) = "refused"  BY <1>3, <2>3 DEF ParseBody, Refusal
  <2>4. CASE ParseDocument(r.payload) = "raised"  BY <1>1, <1>3, <2>4 DEF ParseBody, Refusal
  <2> QED  BY <1>1, <2>2, <2>3, <2>4
<1> QED  BY <1>2, <1>3

\* The key of a request that was parsed, in the prefix of settings that were validated.
LEMMA KeyBounded ==
  ASSUME ValidateActive(settings), ParseDocument(request.payload) = "ok"
  PROVE  KeyLength \in 1..211 /\ Job.len \in 1..64 /\ Job.json = Job.len
<1> DEFINE p == request.payload
           a == settings.document_storage_prefix.len
           b == KindLength[Action(p)]
           c == Identifier(p).len
           d == Job.len
<1>1. /\ Action(p) \in DOMAIN Family
      /\ Get(p, "job_id").len \in 1..64
      /\ c \in 1..64
  BY DocumentChecked
<1>2. b \in 6..12
  BY <1>1 DEF Family, KindLength
<1>3. a \in 1..64
  BY DEF ValidateActive, ValidStoragePrefix
<1>4. d \in 1..64 /\ Job.json = d
  BY <1>1 DEF Job
<1>5. KeyLength = a + 1 + b + 1 + c + 1 + d + 4
  BY DEF KeyLength
<1> HIDE DEF a, b, c, d
<1>6. a + 1 + b + 1 + c + 1 + d + 4 \in 1..211
  BY <1>1, <1>2, <1>3, <1>4
<1> QED  BY <1>4, <1>5, <1>6 DEF d

LEMMA JobSafe ==
  ASSUME ParseDocument(request.payload) = "ok"
  PROVE  SafeName(Job)
<1>1. Get(request.payload, "job_id").len \in 1..64
      /\ Get(request.payload, "job_id").word \in SafeJobId
  BY DocumentChecked DEF JobWord
<1> QED  BY <1>1 DEF Job, SafeName

LEMMA BoundIsNat == MaxCallbackStateBytes \in Nat
  BY DEF MaxCallbackStateBytes

LEMMA Fits ==
  ASSUME NEW n \in Nat, 1 <= n, n <= 16384
  PROVE  n \in 1..MaxCallbackStateBytes
<1>1. n <= MaxCallbackStateBytes  BY DEF MaxCallbackStateBytes
<1> QED  BY <1>1, BoundIsNat

\* The longest continuation: its frame, an identity, a key, a digest, and a version of
\* 1024 characters that each need twelve bytes.
LEMMA SuccessReportable ==
  ASSUME ValidateActive(settings), ParseDocument(request.payload) = "ok",
         NEW size \in MinDocumentBytes..MaxDocumentBytes,
         NEW version \in Version \cup {NoVersion}, ValidVersion(version)
  PROVE  Reportable(Success(size, version))
<1> DEFINE r == Success(size, version)
           a == Job.json
           b == KeyLength
           c == IF version = NoVersion THEN 2 ELSE version.json
<1>1. r.mode = "success" /\ r.job = Job /\ r.path = StorageKey /\ r.version = version
  BY DEF Success
<1>2. r.size = size /\ r.sha.len = 64 /\ r.sha.json = 64
  BY DEF Success
<1>3. a \in Nat /\ a <= 64 /\ b \in Nat /\ b <= 211
  BY KeyBounded
<1>4. c \in Nat /\ c <= 12288
  <2>1. CASE version = NoVersion
    <3>1. c = 2  BY <2>1
    <3> QED  BY <3>1
  <2>2. CASE version # NoVersion
    <3> DEFINE n == version.len
               k == version.json
    <3>1. n \in 1..1024  BY <2>2 DEF ValidVersion
    <3>2. k \in Nat /\ k <= 12 * n  BY <2>2, VersionAssumption
    <3>3. c = k  BY <2>2
    <3> HIDE DEF n, k, c
    <3>4. n \in Nat /\ n <= 1024  BY <3>1
    <3>5. k \in Nat /\ k <= 12288  BY <3>2, <3>4
    <3> QED  BY <3>3, <3>5
  <2> HIDE DEF c
  <2> QED  BY <2>1, <2>2
<1>5. StorageKey.json = b  BY DEF StorageKey
<1>6. BodyBytes(r) = 185 + a + b + 64 + c
  BY <1>1, <1>2, <1>5 DEF BodyBytes, SuccessFrame
<1>7. BodyBytes(r) \in 1..MaxCallbackStateBytes
  <2> HIDE DEF a, b, c, r
  <2>1. BodyBytes(r) \in Nat /\ 1 <= BodyBytes(r) /\ BodyBytes(r) <= 16384
    BY <1>3, <1>4, <1>6
  <2> QED  BY <2>1, Fits
<1>8. SafeName(Job)  BY JobSafe
<1>9. StorageKey.relative  BY DEF StorageKey
<1>10. NotifySuccessAccepts(r)
  <2> HIDE DEF r
  <2> QED  BY <1>1, <1>2, <1>8, <1>9 DEF NotifySuccessAccepts
<1> HIDE DEF r
<1>11. Reportable(r)
  BY <1>1, <1>7, <1>10 DEF Reportable, NotifyAccepts
<1> QED  BY <1>11 DEF r

LEMMA FailureReportable ==
  ASSUME ValidateActive(settings), ParseDocument(request.payload) = "ok"
  PROVE  Reportable(Failure)
<1> DEFINE a == Job.json
<1>1. Failure.mode = "failure" /\ Failure.job = Job
  BY DEF Failure
<1>2. Failure.code.len = 26 /\ Failure.code.json = 26  BY DEF Failure
<1>3. Failure.code.safe  BY DEF Failure
<1>4. a \in Nat /\ a <= 64  BY KeyBounded
<1>5. BodyBytes(Failure) = 111 + a + 26
  BY <1>1, <1>2 DEF BodyBytes, FailureFrame
<1>6. BodyBytes(Failure) \in 1..MaxCallbackStateBytes
  <2> HIDE DEF a
  <2>1. /\ BodyBytes(Failure) \in Nat
        /\ 1 <= BodyBytes(Failure) /\ BodyBytes(Failure) <= 16384
    BY <1>4, <1>5
  <2> QED  BY <2>1, Fits
<1>7. SafeName(Job) /\ SafeName(Failure.code)
  BY <1>2, <1>3, JobSafe DEF SafeName
<1> QED  BY <1>1, <1>6, <1>7 DEF Reportable, NotifyAccepts, NotifyFailureAccepts

-----------------------------------------------------------------------------
(* The steps.                                                              *)

LEMMA AlterInv ==
  ASSUME Inv, Alter
  PROVE  Inv'
<1>1. stage = "off" /\ stage' = "off" /\ request'.bytes = request.bytes
      /\ UNCHANGED <<settings, body, target, contacted>>
  BY DEF Alter
<1>2. TypesInv'  BY <1>1 DEF Inv, TypesInv
<1>3. CheckedInv'
  BY <1>1 DEF CheckedInv, Working, Refusal, Stage, Accepted, AcceptedIsReportable
<1>4. BodyInv' /\ ContactInv'
  BY <1>1 DEF Inv, BodyInv, ContactInv, Kept, Answered
<1> QED  BY <1>2, <1>3, <1>4 DEF Inv

LEMMA StartWorkerInv ==
  ASSUME Inv, StartWorker
  PROVE  Inv'
<1>1. /\ stage' \in {"stopped", "safe_idle", "waiting"}
      /\ UNCHANGED <<settings, request, body, target, contacted>>
  BY DEF StartWorker
<1>2. stage' = "waiting" => Loads(settings) /\ ValidateActive(settings)
  <2>1. SUFFICES ASSUME stage' = "waiting" PROVE Loads(settings) /\ ValidateActive(settings)
    OBVIOUS
  <2>2. Loads(settings) /\ ValidateSettings(settings) /\ settings.worker_mode # "safe_idle"
    BY <2>1 DEF StartWorker
  <2>3. settings.worker_mode = "active"  BY <2>2 DEF Loads
  <2> QED  BY <2>2, <2>3 DEF ValidateSettings
<1>3. TypesInv'  BY <1>1 DEF Inv, TypesInv, Stage
<1>4. CheckedInv'
  BY <1>1, <1>2 DEF CheckedInv, Working, Refusal, Stage, Accepted, AcceptedIsReportable
<1>5. BodyInv' /\ ContactInv'
  BY <1>1 DEF Inv, BodyInv, ContactInv, Kept, Answered
<1> QED  BY <1>3, <1>4, <1>5 DEF Inv

LEMMA HandleBodyInv ==
  ASSUME Inv, HandleBody
  PROVE  Inv'
<1>1. /\ stage = "waiting" /\ UNCHANGED <<settings, request, body, target, contacted>>
      /\ stage' = IF ParseBody(request) = "ok" THEN "parsed" ELSE ParseBody(request)
  BY DEF HandleBody
<1>2. ParseBody(request) \in Refusal \cup {"ok"}  BY ParseBodyOutcome
<1>3. Loads(settings) /\ ValidateActive(settings)
  BY <1>1 DEF Inv, CheckedInv, Working, Stage
<1>4. \/ stage' = "parsed" /\ ParseBody(request) = "ok"
      \/ stage' \in Refusal /\ stage' = ParseBody(request)
  BY <1>1, <1>2
<1>5. TypesInv'  BY <1>1, <1>4 DEF Inv, TypesInv, Stage
<1>6. CheckedInv'
  BY <1>1, <1>3, <1>4 DEF CheckedInv, Working, Refusal, Stage, Accepted, AcceptedIsReportable
<1>7. BodyInv' /\ ContactInv'
  BY <1>1, <1>4 DEF Inv, BodyInv, ContactInv, Kept, Answered, Refusal
<1> QED  BY <1>5, <1>6, <1>7 DEF Inv

\* What was checked still holds at a stage of an accepted request.
LEMMA StaysChecked ==
  ASSUME CheckedInv, Accepted, UNCHANGED <<settings, request>>, stage' \notin Refusal,
         AcceptedIsReportable'
  PROVE  CheckedInv'
<1>1. stage \in Working  BY DEF Accepted, Working, Stage, Refusal
<1>2. Loads(settings)' /\ ValidateActive(settings)'
  BY <1>1 DEF CheckedInv
<1>3. (ParseBody(request) = "ok")'  BY DEF CheckedInv
<1> QED  BY <1>2, <1>3 DEF CheckedInv

\* A reportable result is kept.
LEMMA KeepsReportable ==
  ASSUME Inv, Accepted, NEW r, Reportable(r), Keep(r),
         UNCHANGED <<settings, request, target, contacted>>
  PROVE  Inv'
<1>1. CanEncode(r)
  BY BoundIsNat DEF Reportable, CanEncode
<1>2. stage' = "encoded" /\ body' = CallbackBody(r)  BY <1>1 DEF Keep
<1>3. body'.result = r /\ body'.bytes = BodyBytes(r)  BY <1>2 DEF CallbackBody
<1>4. BodyBytes(r) \in 0..MaxCallbackStateBytes
  BY BoundIsNat DEF Reportable
<1>5. TypesInv'  BY <1>2, <1>3, <1>4 DEF Inv, TypesInv, Stage
<1>6. CheckedInv'
  BY <1>2, StaysChecked DEF Inv, Refusal, AcceptedIsReportable
<1>7. BodyInv'  BY <1>2, <1>3 DEF BodyInv
<1>8. ContactInv'  BY <1>2 DEF Inv, ContactInv, Answered
<1> QED  BY <1>5, <1>6, <1>7, <1>8 DEF Inv

LEMMA PublishInv ==
  ASSUME Inv, Publish
  PROVE  Inv'
<1>1. stage = "parsed" /\ UNCHANGED <<settings, request, target, contacted>>
  BY DEF Publish
<1>2. Accepted  BY <1>1 DEF Accepted
<1>3. ValidateActive(settings) /\ ParseDocument(request.payload) = "ok"
  BY <1>1, <1>2, ParseBodyOutcome DEF Inv, CheckedInv, Working, Stage, Refusal
<1>4. PICK size \in Size, version \in Version \cup {NoVersion} :
        IF size \in MinDocumentBytes..MaxDocumentBytes /\ ValidVersion(version)
        THEN Keep(Success(size, version))
        ELSE stage' = "unpublished" /\ UNCHANGED body
  BY DEF Publish
<1>5. CASE size \in MinDocumentBytes..MaxDocumentBytes /\ ValidVersion(version)
  <2>1. Reportable(Success(size, version))  BY <1>3, <1>5, SuccessReportable
  <2>2. Keep(Success(size, version))  BY <1>4, <1>5
  <2> QED  BY <1>1, <1>2, <2>1, <2>2, KeepsReportable
<1>6. CASE ~(size \in MinDocumentBytes..MaxDocumentBytes /\ ValidVersion(version))
  <2>1. stage' = "unpublished" /\ body' = body  BY <1>4, <1>6
  <2>2. TypesInv'  BY <1>1, <2>1 DEF Inv, TypesInv, Stage
  <2>3. CheckedInv'
    BY <1>1, <1>2, <2>1, StaysChecked DEF Inv, Refusal, AcceptedIsReportable
  <2>4. BodyInv' /\ ContactInv'
    BY <1>1, <2>1 DEF Inv, BodyInv, ContactInv, Kept, Answered
  <2> QED  BY <2>2, <2>3, <2>4 DEF Inv
<1> QED  BY <1>5, <1>6

LEMMA GiveUpInv ==
  ASSUME Inv, GiveUp
  PROVE  Inv'
<1>1. /\ stage = "unpublished" /\ Keep(Failure)
      /\ UNCHANGED <<settings, request, target, contacted>>
  BY DEF GiveUp
<1>2. Accepted  BY <1>1 DEF Accepted
<1>3. ValidateActive(settings) /\ ParseDocument(request.payload) = "ok"
  BY <1>1, <1>2, ParseBodyOutcome DEF Inv, CheckedInv, Working, Stage, Refusal
<1> QED  BY <1>1, <1>2, <1>3, FailureReportable, KeepsReportable

LEMMA TokenNotBlank ==
  ASSUME NEW t, ValidServiceToken(t)
  PROVE  t.form # "blank"
<1> DEFINE fits == t.len \in 1..4096
<1>1. fits /\ t.form # "blank"  BY DEF ValidServiceToken
<1> HIDE DEF fits
<1> QED  BY <1>1

\* The checks of a continuation and of the notifier were passed when it was written, and
\* the callback's settings when the worker started: only the token's characters remain.
LEMMA DeliverCallbackInv ==
  ASSUME Inv, DeliverCallback
  PROVE  Inv'
<1>1. /\ stage = "encoded" /\ target' = settings.harmony_callback_url
      /\ UNCHANGED <<settings, request, body, contacted>>
      /\ stage' \in {"posting", "stuck"}
  BY DEF DeliverCallback
<1>2. Accepted  BY <1>1 DEF Accepted
<1>3. body = CallbackBody(body.result) /\ Reportable(body.result)
  BY <1>1 DEF Inv, BodyInv, Kept
<1>4. stage' = "stuck" => settings.harmony_service_token.form = "wide"
  <2>1. body.mode = body.result.mode /\ body.keys = Keys(body.result.mode)
        /\ body.bytes = BodyBytes(body.result)
    BY <1>3 DEF CallbackBody
  <2>2. Decodes(body, body.result.mode) /\ NotifyAccepts(body.result)
    <3>1. BodyBytes(body.result) \in 1..MaxCallbackStateBytes /\ NotifyAccepts(body.result)
      BY <1>3 DEF Reportable
    <3> QED  BY <2>1, <3>1, Zenon DEF Decodes
  <2>3. ValidCallback(settings)
    <3>1. stage \in Working  BY <1>1 DEF Working, Stage, Refusal
    <3> QED  BY <3>1, Zenon DEF Inv, CheckedInv, ValidateActive
  <2>4. settings.harmony_service_token.form # "blank"
    <3>1. ValidServiceToken(settings.harmony_service_token)
      BY <2>3, Zenon DEF ValidCallback
    <3> QED  BY <3>1, TokenNotBlank
  <2>5. stage' = "stuck" => ~CanPost(settings)
    BY <2>2 DEF DeliverCallback
  <2>6. ~CanPost(settings) => settings.harmony_service_token.form \notin Latin1
    BY <2>3 DEF CanPost
  <2> QED  BY <2>4, <2>5, <2>6 DEF Inv, TypesInv, Form
<1>5. TypesInv'  BY <1>1 DEF Inv, TypesInv, Stage
<1>6. CheckedInv'
  BY <1>1, <1>2, <1>4, StaysChecked DEF Inv, Refusal, AcceptedIsReportable
<1>7. BodyInv' /\ ContactInv'
  BY <1>1, <1>3 DEF Inv, BodyInv, ContactInv, Answered
<1> QED  BY <1>5, <1>6, <1>7 DEF Inv

LEMMA OpenInv ==
  ASSUME Inv, Open
  PROVE  Inv'
<1>1. stage = "posting" /\ UNCHANGED <<settings, request, body, target>>
  BY DEF Open
<1>2. Accepted  BY <1>1 DEF Accepted
<1>3. target = settings.harmony_callback_url /\ ValidCallbackUrl(target)
  BY <1>1 DEF Inv, TypesInv, CheckedInv, Working, Stage, Refusal, ValidateActive, ValidCallback
<1>4. contacted' = contacted \cup {target}
  BY <1>3 DEF Open
<1>5. stage' \in {"redirected", "escaped", "reported", "pending"}
  BY <1>3 DEF Open, AnswerOf
<1>6. TypesInv'  BY <1>1, <1>5 DEF Inv, TypesInv, Stage
<1>7. CheckedInv'
  BY <1>1, <1>2, <1>5, StaysChecked DEF Inv, Refusal, AcceptedIsReportable
<1>8. BodyInv'  BY <1>1, <1>5 DEF Inv, BodyInv, Kept
<1>9. ContactInv'  BY <1>1, <1>3, <1>4 DEF Inv, ContactInv
<1> QED  BY <1>6, <1>7, <1>8, <1>9 DEF Inv

LEMMA AgainInv ==
  ASSUME Inv, RefuseRedirect \/ Retry
  PROVE  Inv'
<1>1. /\ stage \in Kept /\ stage' \in Kept \ Answered
      /\ UNCHANGED <<settings, request, body, target, contacted>>
  BY DEF RefuseRedirect, Retry, Kept, Answered
<1>2. Accepted  BY <1>1 DEF Accepted, Kept
<1>3. TypesInv'  BY <1>1 DEF Inv, TypesInv, Stage, Kept
<1>4. CheckedInv'
  BY <1>1, <1>2, StaysChecked DEF Inv, Refusal, Kept, AcceptedIsReportable
<1>5. BodyInv' /\ ContactInv'  BY <1>1 DEF Inv, BodyInv, ContactInv
<1> QED  BY <1>3, <1>4, <1>5 DEF Inv

LEMMA NextInv == Inv /\ [Next]_vars => Inv'
<1> SUFFICES ASSUME Inv, [Next]_vars PROVE Inv'
  OBVIOUS
<1>1. CASE Alter  BY <1>1, AlterInv
<1>2. CASE StartWorker  BY <1>2, StartWorkerInv
<1>3. CASE HandleBody  BY <1>3, HandleBodyInv
<1>4. CASE Publish  BY <1>4, PublishInv
<1>5. CASE GiveUp  BY <1>5, GiveUpInv
<1>6. CASE DeliverCallback  BY <1>6, DeliverCallbackInv
<1>7. CASE Open  BY <1>7, OpenInv
<1>8. CASE RefuseRedirect \/ Retry  BY <1>8, AgainInv
<1>9. CASE UNCHANGED vars
  <2>1. UNCHANGED <<settings, request, stage, body, target, contacted>>  BY <1>9 DEF vars
  <2>2. TypesInv' /\ BodyInv' /\ ContactInv'
    BY <2>1 DEF Inv, TypesInv, BodyInv, ContactInv
  <2>3. CheckedInv'  BY <2>1 DEF Inv, CheckedInv, Accepted, AcceptedIsReportable
  <2> QED  BY <2>2, <2>3 DEF Inv
<1> QED  BY <1>1, <1>2, <1>3, <1>4, <1>5, <1>6, <1>7, <1>8, <1>9 DEF Next

LEMMA Invariant == Spec => []Inv
  BY InitInv, NextInv, PTL DEF Spec

-----------------------------------------------------------------------------
(* What follows.                                                           *)

\* A job of a worker that started is never stuck between its components, but for a
\* token HTTP cannot carry.
THEOREM Reports == Spec => []AcceptedIsReportable
<1>1. Inv => AcceptedIsReportable  BY DEF Inv, CheckedInv
<1> QED  BY <1>1, Invariant, PTL

\* The service token is sent to the configured URL only, over TLS or to this host, and a
\* job is reported only by that URL.
THEOREM TokenStays == Spec => []TokenStaysWithHarmony
<1>1. ASSUME NEW u, ValidCallbackUrl(u)
      PROVE  u.scheme = "https" \/ u.host \in Loopback
  BY <1>1 DEF ValidCallbackUrl
<1>2. Inv => TokenStaysWithHarmony
  BY <1>1 DEF Inv, ContactInv, Answered, TokenStaysWithHarmony
<1> QED  BY <1>2, Invariant, PTL

\* The retry queue has room for any request the worker parsed and any continuation.
THEOREM RetryFits == Spec => []RetryFitsQueue
<1> DEFINE room == settings.document_retry_max_bytes
           size == request.bytes
           kept == body.bytes
<1>1. ASSUME Inv, Accepted
      PROVE  size <= room /\ kept <= room
  <2>1. stage \in Working  BY <1>1 DEF Accepted, Working, Stage, Refusal
  <2>2. Loads(settings)  BY <1>1, <2>1 DEF Inv, CheckedInv
  <2>3. room \in RetryBytes  BY <2>2 DEF Loads
  <2>4. size \in Nat  BY <1>1 DEF Inv, TypesInv
  <2>5. ~(size > MaxMessageBytes)  BY <1>1, ParseBodyOutcome DEF Inv, CheckedInv
  <2>6. kept \in 0..MaxCallbackStateBytes  BY <1>1 DEF Inv, TypesInv
  <2> HIDE DEF room, size, kept
  <2>7. room \in Int /\ 5242880 <= room
    <3>1. MinRetryBytes \in Int /\ MaxInt32 \in Int  BY SMT DEF MinRetryBytes, MaxInt32
    <3>2. room \in Int /\ MinRetryBytes <= room  BY <2>3, <3>1, SMT DEF RetryBytes
    <3> QED  BY <3>2, SMT DEF MinRetryBytes
  <2>8. size <= 5242880  BY <2>4, <2>5, SMT DEF MaxMessageBytes
  <2>9. kept \in Int /\ kept <= 16384
    <3>1. MaxCallbackStateBytes = 16384  BY SMT DEF MaxCallbackStateBytes
    <3> QED  BY <2>6, <3>1, SMT
  <2> QED  BY <2>4, <2>7, <2>8, <2>9, SMT
<1>2. Inv => RetryFitsQueue  BY <1>1 DEF RetryFitsQueue
<1> QED  BY <1>2, Invariant, PTL

\* parse_document raises for a malformed evidence URL and for nothing else.
THEOREM RaisesOnUrlOnly == Spec => []RefusedOrAccepted
<1>1. Inv => RefusedOrAccepted
  BY ParseBodyOutcome DEF Inv, CheckedInv, Refusal, RefusedOrAccepted
<1> QED  BY <1>1, Invariant, PTL

\* A document never has the name of one of another family, nor of another job with the
\* same identifier.
THEOREM FamiliesKept == Spec => []FamiliesApart
<1>1. ASSUME Inv, Accepted PROVE ParseDocument(request.payload) = "ok"
  BY <1>1, ParseBodyOutcome DEF Inv, CheckedInv
<1>2. Inv => FamiliesApart
  BY <1>1, DocumentChecked, NamesApart DEF FamiliesApart
<1> QED  BY <1>2, Invariant, PTL
=============================================================================
