----------------------- MODULE CertificateReviewProofs -----------------------
(***************************************************************************)
(* Proofs about CertificateReview, for any vendors, types, documents,      *)
(* profiles, users and exceptions, and any length of history.              *)
(***************************************************************************)
EXTENDS CertificateReview, FiniteSetTheorems, SequenceTheorems, WellFoundedInduction, TLAPS

\* The verdicts and the certificates, as sets.
Verdict == [type : Types, version : Nat, date : Days,
            findings : UNION {[S -> Statuses] : S \in SUBSET (Row \cup {None})},
            compliance : {"pending_review", "compliant", "non_compliant"}]
Certificate == [vendor : Vendors, doc : Documents, state : {"draft", "confirmed", "rejected"},
                by : Staff \cup {None}, round : {1, 2}, verdict : Verdict,
                events : Seq({"submitted", "confirmed", "rejected"})]

-----------------------------------------------------------------------------
(* The requirements of a version, and what is evaluated against them.      *)

\* A publication inserts rows, at least one, all of its version.
LEMMA RowsOfProfile ==
    ASSUME NEW p \in Profiles, NEW n \in Nat \ {0}
    PROVE  /\ RowsOf(p, n) \subseteq Row /\ RowsOf(p, n) # {}
           /\ \A r \in RowsOf(p, n) : r.version = n
<1>1. PICK S \in SUBSET Rules : S # {} /\ p \in [S -> Requirement]
  BY ReviewAssumption
<1>2. RowsOf(p, n) \subseteq Row /\ \A r \in RowsOf(p, n) : r.version = n
  BY <1>1 DEF RowsOf, Row, Requirement
<1>3. RowsOf(p, n) # {}
  BY <1>1 DEF RowsOf
<1> QED BY <1>2, <1>3

\* The version of rows of one version is that version.
LEMMA VersionOfRows ==
    ASSUME NEW rows, rows # {}, NEW n \in Nat, \A r \in rows : r.version = n
    PROVE  RequirementVersion(rows) = n
<1>1. {r.version : r \in rows} = {n}
  OBVIOUS
<1>2. n \in {r.version : r \in rows} /\ \A r \in rows : r.version <= n
  BY <1>1
<1>3. \A m \in {r.version : r \in rows} : m = n
  BY <1>1
<1> QED BY <1>2, <1>3, Zenon DEF RequirementVersion

\* Published, for any publications.
PublishedIn(vs, t, n) == IF n = 0 THEN {} ELSE RowsOf(vs[t][n], n)

\* No version of a type that has none; the others have rows of their version.
LEMMA PublishedRows ==
    ASSUME NEW vs \in [Types -> Seq(Profiles)], NEW t \in Types, NEW n \in 0..Len(vs[t])
    PROVE  /\ PublishedIn(vs, t, n) \subseteq Row
           /\ PublishedIn(vs, t, n) = {} <=> n = 0
           /\ \A r \in PublishedIn(vs, t, n) : r.version = n
<1>1. CASE n = 0
  BY <1>1 DEF PublishedIn
<1>2. CASE n # 0
  <2>1. n \in Nat \ {0} /\ vs[t][n] \in Profiles
    BY <1>2
  <2> QED BY <1>2, <2>1, RowsOfProfile DEF PublishedIn
<1> QED BY <1>1, <1>2

\* A finding has a status.
LEMMA StatusType ==
    ASSUME NEW doc, NEW r, NEW reviewed, NEW date PROVE Status(r, doc, reviewed, date) \in Statuses
BY DEF Status, Statuses

\* The verdict of an evaluation against a published version is a verdict, and
\* records what it was made from.
LEMMA EvaluateType ==
    ASSUME NEW vs \in [Types -> Seq(Profiles)], NEW t \in Types,
           NEW n \in 0..Len(vs[t]), NEW doc, NEW reviewed, NEW date \in Days
    PROVE  LET k == Evaluate(PublishedIn(vs, t, n), t, doc, reviewed, date) IN
           /\ k \in Verdict
           /\ k.type = t /\ k.version = n /\ k.date = date
<1> DEFINE rows == PublishedIn(vs, t, n)
           k == Evaluate(rows, t, doc, reviewed, date)
<1>1. rows \subseteq Row /\ (rows = {} <=> n = 0) /\ \A r \in rows : r.version = n
  BY PublishedRows
<1> HIDE DEF rows
<1>2. CASE rows = {}
  <2>1. k = Unruled(t, date) /\ n = 0
    BY <1>1, <1>2 DEF Evaluate
  <2> DEFINE none == [r \in {None} |-> "UNKNOWN"]
  <2>2. none \in [{None} -> Statuses]
    BY DEF Statuses
  <2> HIDE DEF none
  <2>3. none \in UNION {[S -> Statuses] : S \in SUBSET (Row \cup {None})}
    BY <2>2
  <2>4. k = [type |-> t, version |-> 0, date |-> date, findings |-> none,
             compliance |-> "pending_review"]
    BY <2>1 DEF Unruled, none
  <2> HIDE DEF k
  <2>5. k \in Verdict
    BY <2>3, <2>4 DEF Verdict
  <2> QED BY <2>1, <2>4, <2>5 DEF k, rows
<1>3. CASE rows # {}
  <2> DEFINE findings == [r \in rows |-> Status(r, doc, reviewed, date)]
             statuses == {findings[r] : r \in rows}
  <2>1. findings \in [rows -> Statuses]
    BY StatusType
  <2>2. ComplianceOf(statuses) \in {"pending_review", "compliant", "non_compliant"}
    BY DEF ComplianceOf
  <2>3. RequirementVersion(rows) = n
    BY <1>1, <1>3, VersionOfRows
  <2>4. k = [type |-> t, version |-> n, date |-> date, findings |-> findings,
             compliance |-> ComplianceOf(statuses)]
    BY <1>3, <2>3 DEF Evaluate, Judged
  <2> HIDE DEF findings, statuses, k
  <2>5. findings \in UNION {[S -> Statuses] : S \in SUBSET (Row \cup {None})}
    BY <1>1, <2>1
  <2>6. k \in Verdict
    BY <2>2, <2>4, <2>5 DEF Verdict
  <2> QED BY <2>4, <2>6 DEF k, rows
<1> QED BY <1>2, <1>3

\* A verdict and a certificate of these sets have the types the model states.
LEMMA CertificateType == ASSUME NEW x \in Certificate PROVE IsCertificate(x)
<1> DEFINE k == x.verdict
<1>1. k \in Verdict
  BY DEF Certificate
<1> HIDE DEF k
<1>2. k.findings \in UNION {[S -> Statuses] : S \in SUBSET (Row \cup {None})}
  BY <1>1 DEF Verdict
<1>3. DOMAIN k.findings \subseteq Row \cup {None} /\ k.findings \in [DOMAIN k.findings -> Statuses]
  BY <1>2
<1>4. IsVerdict(k)
  BY <1>1, <1>3 DEF Verdict, IsVerdict
<1> QED BY <1>4 DEF Certificate, IsCertificate, k

-----------------------------------------------------------------------------
(* The invariant.                                                          *)

Variables ==
    /\ day \in Days
    /\ vendorType \in [Vendors -> Types]
    /\ versions \in [Types -> Seq(Profiles)]
    /\ upload \in [Actors -> Upload \cup {None}]

\* The active requirements of a type are those of its latest publication.
ActiveIsLatest == active = [t \in Types |-> PublishedIn(versions, t, Len(versions[t]))]

\* What the verdict of a certificate has to be, from what it records.
Recorded(x, vs) ==
    LET again == Evaluate(PublishedIn(vs, x.verdict.type, x.verdict.version), x.verdict.type, x.doc,
                          x.state = "confirmed", x.verdict.date)
    IN  IF x.state = "rejected" THEN Void(again) ELSE again

CertificateFits(x, vs) ==
    /\ x \in Certificate
    /\ x.verdict.version <= Len(vs[x.verdict.type])
    /\ x.verdict = Recorded(x, vs)
    /\ x.state = "confirmed" => x.by \in Staff
    /\ x.events = IF x.state = "draft" THEN <<"submitted">> ELSE <<"submitted", x.state>>

CertificatesFit == certs \in Seq(Certificate) /\ \A c \in DOMAIN certs : CertificateFits(certs[c], versions)

\* What is true of an exception by itself.
ExceptionFits(x) ==
    /\ x \in Exception
    /\ x.status = "approved" => x.decidedBy \in Admins \ {x.requestedBy}
    /\ x.event = [type |-> IF x.status = "pending" THEN "requested" ELSE x.status,
                  expires |-> x.expires]

ExceptionsFit ==
    /\ exc \in [Exceptions -> Exception \cup {None}]
    /\ \A e \in Exceptions : exc[e] # None => ExceptionFits(exc[e])

\* A finding that failed, of a confirmed certificate of the vendor.
Failed(cs, f, v) ==
    LET x == cs[f.cert] IN
    /\ f.cert \in DOMAIN cs /\ f = [cert |-> f.cert, round |-> x.round, row |-> f.row]
    /\ f.row \in DOMAIN x.verdict.findings /\ x.verdict.findings[f.row] = "FAIL"
    /\ x.state = "confirmed" /\ x.vendor = v

Anchored == \A e \in Exceptions : exc[e] # None => Failed(certs, exc[e].finding, exc[e].vendor)

Inv == Variables /\ ActiveIsLatest /\ CertificatesFit /\ ExceptionsFit /\ Anchored

-----------------------------------------------------------------------------
(* The histories of events of a certificate.                               *)

\* The three histories a certificate can have are sequences of its events.
LEMMA Histories ==
    /\ {<<"submitted">>, <<"submitted", "confirmed">>, <<"submitted", "rejected">>}
          \subseteq Seq({"submitted", "confirmed", "rejected"})
    /\ Append(<<"submitted">>, "confirmed") = <<"submitted", "confirmed">>
    /\ Append(<<"submitted">>, "rejected") = <<"submitted", "rejected">>
<1> DEFINE E == {"submitted", "confirmed", "rejected"}
<1>1. ASSUME NEW e \in E PROVE <<"submitted">> \in Seq(E) /\ <<"submitted", e>> \in Seq(E)
  BY <1>1
<1>2. "submitted" \in E /\ "confirmed" \in E /\ "rejected" \in E
  OBVIOUS
<1>3. ASSUME NEW e \in E PROVE Append(<<"submitted">>, e) = <<"submitted", e>>
  <2> DEFINE s == <<"submitted">>
             l == Append(s, e)
             m == <<"submitted", e>>
  <2>1. s \in Seq(E) /\ m \in Seq(E)
    BY <1>1, <1>3
  <2>2. Len(s) = 1 /\ s[1] = "submitted" /\ Len(m) = 2 /\ m[1] = "submitted" /\ m[2] = e
    OBVIOUS
  <2> HIDE DEF s, m, E
  <2>3. l \in Seq(E) /\ Len(l) = 2 /\ l[1] = "submitted" /\ l[2] = e
    <3>1. /\ l \in Seq(E) /\ Len(l) = Len(s) + 1
          /\ \A i \in 1..Len(s) : l[i] = s[i]
          /\ l[Len(s) + 1] = e
      <4>1. s \in Seq(E) /\ e \in E
        BY <1>3, <2>1
      <4> QED BY <4>1, AppendProperties
    <3> HIDE DEF l
    <3> QED BY <2>2, <3>1
  <2> HIDE DEF l
  <2>4. \A i \in 1..Len(l) : l[i] = m[i]
    BY <2>2, <2>3
  <2>5. l = m
    BY <2>1, <2>2, <2>3, <2>4, SeqEqual
  <2> QED BY <2>5 DEF l, m, s
<1> HIDE DEF E
<1>4. /\ {<<"submitted">>, <<"submitted", "confirmed">>, <<"submitted", "rejected">>}
            \subseteq Seq(E)
      /\ Append(<<"submitted">>, "confirmed") = <<"submitted", "confirmed">>
      /\ Append(<<"submitted">>, "rejected") = <<"submitted", "rejected">>
  BY <1>1, <1>2, <1>3
<1> QED BY <1>4 DEF E

-----------------------------------------------------------------------------
(* Evaluations made now record what they were made from.                   *)

\* An evaluation made now is by a published version, and records what it used.
LEMMA PersistType ==
    ASSUME Variables, ActiveIsLatest, NEW v \in Vendors, NEW doc \in Documents,
           NEW reviewed \in BOOLEAN, NEW date \in Days
    PROVE  LET k == PersistEvaluation(v, doc, reviewed, date) IN
           /\ k \in Verdict /\ k.version <= Len(versions[k.type])
           /\ k = Evaluate(PublishedIn(versions, k.type, k.version), k.type, doc, reviewed, k.date)
<1> DEFINE t == vendorType[v]
           n == Len(versions[t])
           k == Evaluate(PublishedIn(versions, t, n), t, doc, reviewed, date)
<1>1. t \in Types /\ n \in Nat
  BY DEF Variables
<1>2. PersistEvaluation(v, doc, reviewed, date) = k
  BY <1>1 DEF PersistEvaluation, ActiveIsLatest
<1>3. k \in Verdict /\ k.type = t /\ k.version = n /\ k.date = date
  <2> HIDE DEF t, n
  <2>1. n \in 0..Len(versions[t]) /\ versions \in [Types -> Seq(Profiles)]
    BY <1>1 DEF Variables, n
  <2> QED BY <1>1, <2>1, EvaluateType
<1> HIDE DEF k, n, t
<1>4. k.version <= Len(versions[k.type])
  BY <1>1, <1>3 DEF n
<1>5. k = Evaluate(PublishedIn(versions, k.type, k.version), k.type, doc, reviewed, k.date)
  BY <1>3, Zenon DEF k
<1> QED BY <1>2, <1>3, <1>4, <1>5

\* A certificate as it is stored fits.
LEMMA NewCertificateFits ==
    ASSUME Variables, ActiveIsLatest, NEW a \in Actors, NEW u \in Upload,
           NEW doc \in Documents, NEW reviewed \in BOOLEAN, reviewed => a \in Staff
    PROVE  CertificateFits(NewCertificate(a, u, doc, reviewed), versions)
<1> DEFINE k == PersistEvaluation(u.vendor, doc, reviewed, u.date)
           x == NewCertificate(a, u, doc, reviewed)
<1>1. /\ k \in Verdict /\ k.version <= Len(versions[k.type])
      /\ k = Evaluate(PublishedIn(versions, k.type, k.version), k.type, doc, reviewed, k.date)
  BY PersistType DEF Upload
<1> HIDE DEF k
<1>2. x = [vendor |-> u.vendor, doc |-> doc, state |-> IF reviewed THEN "confirmed" ELSE "draft",
           by |-> IF reviewed THEN a ELSE None, round |-> 1, verdict |-> k,
           events |-> IF reviewed THEN <<"submitted", "confirmed">> ELSE <<"submitted">>]
  BY DEF NewCertificate, k
<1>3. x \in Certificate
  <2> DEFINE events == IF reviewed THEN <<"submitted", "confirmed">> ELSE <<"submitted">>
             by == IF reviewed THEN a ELSE None
             state == IF reviewed THEN "confirmed" ELSE "draft"
  <2>1. events \in Seq({"submitted", "confirmed", "rejected"})
    BY Histories
  <2>2. by \in Staff \cup {None} /\ state \in {"draft", "confirmed", "rejected"}
    OBVIOUS
  <2>3. x = [vendor |-> u.vendor, doc |-> doc, state |-> state, by |-> by, round |-> 1,
             verdict |-> k, events |-> events]
    BY <1>2
  <2>4. u.vendor \in Vendors
    BY DEF Upload
  <2> HIDE DEF events, by, state, x
  <2> QED BY <1>1, <2>1, <2>2, <2>3, <2>4 DEF Certificate
<1> HIDE DEF x
<1>4. x.verdict = k /\ x.doc = doc /\ (x.state = "confirmed") = reviewed /\ x.state # "rejected"
  BY <1>2
<1>5. x.verdict = Recorded(x, versions)
  BY <1>1, <1>4 DEF Recorded
<1> QED BY <1>1, <1>2, <1>3, <1>4, <1>5 DEF CertificateFits, x

\* A certificate confirmed fits.
LEMMA ConfirmedFits ==
    ASSUME Variables, ActiveIsLatest, NEW cert, CertificateFits(cert, versions), cert.state = "draft",
           NEW u \in Staff, NEW doc \in Documents
    PROVE  CertificateFits(Confirmed(cert, u, doc), versions)
<1> DEFINE k == PersistEvaluation(cert.vendor, doc, TRUE, day)
           x == Confirmed(cert, u, doc)
<1>1. cert.vendor \in Vendors /\ cert.events = <<"submitted">> /\ day \in Days
  BY DEF CertificateFits, Certificate, Variables
<1>2. /\ k \in Verdict /\ k.version <= Len(versions[k.type])
      /\ k = Evaluate(PublishedIn(versions, k.type, k.version), k.type, doc, TRUE, k.date)
  BY <1>1, PersistType
<1> HIDE DEF k
<1>3. x = [vendor |-> cert.vendor, doc |-> doc, state |-> "confirmed", by |-> u, round |-> 2,
           verdict |-> k, events |-> <<"submitted", "confirmed">>]
  BY <1>1, Histories DEF Confirmed, k
<1>4. x \in Certificate
  <2> HIDE DEF x
  <2> DEFINE events == <<"submitted", "confirmed">>
  <2>1. events \in Seq({"submitted", "confirmed", "rejected"})
    BY Histories
  <2>2. x = [vendor |-> cert.vendor, doc |-> doc, state |-> "confirmed", by |-> u, round |-> 2,
             verdict |-> k, events |-> events]
    BY <1>3
  <2> HIDE DEF events
  <2> QED BY <1>1, <1>2, <2>1, <2>2 DEF Certificate
<1> HIDE DEF x
<1>5. x.verdict = k /\ x.doc = doc /\ x.state = "confirmed"
  BY <1>3
<1>6. x.verdict = Recorded(x, versions)
  BY <1>2, <1>5 DEF Recorded
<1> QED BY <1>2, <1>3, <1>4, <1>5, <1>6 DEF CertificateFits, x

\* A certificate rejected fits.
LEMMA RejectedFits ==
    ASSUME Variables, NEW cert, CertificateFits(cert, versions), cert.state = "draft"
    PROVE  CertificateFits(Rejected(cert), versions)
<1> DEFINE k == cert.verdict
           j == Void(k)
           x == Rejected(cert)
<1>1. /\ cert.vendor \in Vendors /\ cert.doc \in Documents /\ cert.by \in Staff \cup {None}
      /\ cert.round \in {1, 2} /\ cert.events = <<"submitted">> /\ k \in Verdict
  BY DEF CertificateFits, Certificate
<1>2. k = Evaluate(PublishedIn(versions, k.type, k.version), k.type, cert.doc, FALSE, k.date)
  <2>1. (cert.state = "confirmed") = FALSE /\ cert.state # "rejected"
    OBVIOUS
  <2> QED BY <2>1 DEF CertificateFits, Recorded
<1>3. j \in Verdict /\ j.type = k.type /\ j.version = k.version /\ j.date = k.date
  BY <1>1 DEF Verdict, Void
<1>4. k.version <= Len(versions[k.type])
  BY DEF CertificateFits
<1> DEFINE events == <<"submitted", "rejected">>
<1>5. events \in Seq({"submitted", "confirmed", "rejected"})
  BY Histories
<1>6. x = [vendor |-> cert.vendor, doc |-> cert.doc, state |-> "rejected", by |-> cert.by,
           round |-> cert.round, verdict |-> j, events |-> events]
  BY <1>1, Histories DEF Rejected
<1> HIDE DEF k, x, events
<1>7. x \in Certificate
  <2> HIDE DEF j
  <2> QED BY <1>1, <1>3, <1>5, <1>6 DEF Certificate
<1>8. x.verdict = j /\ x.doc = cert.doc /\ x.state = "rejected" /\ x.events = events
  BY <1>6
<1>9. x.verdict = Recorded(x, versions)
  <2> DEFINE again == Evaluate(PublishedIn(versions, j.type, j.version), j.type, x.doc, FALSE, j.date)
  <2>1. (x.state = "confirmed") = FALSE
    BY <1>8
  <2>2. Recorded(x, versions) = Void(again)
    BY <1>8, <2>1 DEF Recorded
  <2>3. again = k
    <3> HIDE DEF j
    <3> QED BY <1>2, <1>3, <1>8
  <2> HIDE DEF again
  <2> QED BY <1>8, <2>2, <2>3
<1>10. x.verdict.version <= Len(versions[x.verdict.type])
  <2> HIDE DEF j
  <2> QED BY <1>3, <1>4, <1>8
<1> HIDE DEF j
<1> QED BY <1>7, <1>8, <1>9, <1>10 DEF CertificateFits, events, x

-----------------------------------------------------------------------------
(* A publication takes nothing away.                                       *)

\* The publications of ws are those of vs and possibly more.
Continues(vs, ws) ==
    \A t \in Types : \A n \in 0..Len(vs[t]) :
        n <= Len(ws[t]) /\ PublishedIn(ws, t, n) = PublishedIn(vs, t, n)

\* The publications of ws are those of vs, and of p for t.
Adds(vs, ws, t, p) ==
    /\ ws \in [Types -> Seq(Profiles)]
    /\ \A s \in Types : \A n \in DOMAIN vs[s] : n \in DOMAIN ws[s] /\ ws[s][n] = vs[s][n]
    /\ \A s \in Types \ {t} : ws[s] = vs[s]
    /\ PublishedIn(ws, t, Len(ws[t])) = RowsOf(p, Len(vs[t]) + 1)
    /\ Continues(vs, ws)

\* A publication appended adds its rows and leaves the others.
LEMMA PublicationAdds ==
    ASSUME NEW vs \in [Types -> Seq(Profiles)], NEW t \in Types, NEW p \in Profiles
    PROVE  Adds(vs, [vs EXCEPT ![t] = Append(@, p)], t, p)
<1> DEFINE ws == [vs EXCEPT ![t] = Append(@, p)]
<1>1. ws \in [Types -> Seq(Profiles)] /\ ws[t] = Append(vs[t], p) /\ \A s \in Types \ {t} : ws[s] = vs[s]
  OBVIOUS
<1> HIDE DEF ws
<1>2. /\ vs[t] \in Seq(Profiles) /\ Len(vs[t]) \in Nat /\ Len(ws[t]) = Len(vs[t]) + 1
      /\ ws[t][Len(vs[t]) + 1] = p
      /\ \A n \in 1..Len(vs[t]) : ws[t][n] = vs[t][n]
  BY <1>1, AppendProperties
<1>3. ASSUME NEW s \in Types PROVE \A n \in DOMAIN vs[s] : n \in DOMAIN ws[s] /\ ws[s][n] = vs[s][n]
  <2>1. CASE s = t
    <3>1. DOMAIN vs[t] = 1..Len(vs[t]) /\ DOMAIN ws[t] = 1..Len(ws[t])
      BY <1>1
    <3> QED BY <1>2, <2>1, <3>1
  <2>2. CASE s # t
    BY <1>1, <2>2
  <2> QED BY <2>1, <2>2
<1>4. PublishedIn(ws, t, Len(ws[t])) = RowsOf(p, Len(vs[t]) + 1)
  BY <1>2 DEF PublishedIn
<1>5. ASSUME NEW s \in Types, NEW n \in 0..Len(vs[s])
      PROVE  n <= Len(ws[s]) /\ PublishedIn(ws, s, n) = PublishedIn(vs, s, n)
  <2>1. vs[s] \in Seq(Profiles) /\ ws[s] \in Seq(Profiles)
    BY <1>1
  <2>2. CASE n = 0
    BY <2>1, <2>2 DEF PublishedIn
  <2>3. CASE n # 0
    <3>1. n \in DOMAIN vs[s]
      BY <2>1, <2>3
    <3>2. n \in DOMAIN ws[s] /\ ws[s][n] = vs[s][n]
      BY <1>3, <3>1
    <3> QED BY <2>1, <2>3, <3>2 DEF PublishedIn
  <2> QED BY <2>2, <2>3
<1> QED BY <1>1, <1>2, <1>3, <1>4, <1>5 DEF Continues, Adds, ws

\* Nor does it make a certificate unfit.
LEMMA FitsLater ==
    ASSUME NEW vs \in [Types -> Seq(Profiles)], NEW ws \in [Types -> Seq(Profiles)],
           Continues(vs, ws), NEW x, CertificateFits(x, vs)
    PROVE  CertificateFits(x, ws)
<1> DEFINE t == x.verdict.type
           n == x.verdict.version
<1>1. t \in Types /\ n \in Nat /\ n <= Len(vs[t])
  BY DEF CertificateFits, Certificate, Verdict
<1> HIDE DEF t, n
<1>2. n \in 0..Len(vs[t])
  BY <1>1
<1>3. n <= Len(ws[t]) /\ PublishedIn(ws, t, n) = PublishedIn(vs, t, n)
  BY <1>1, <1>2 DEF Continues
<1>4. Recorded(x, ws) = Recorded(x, vs)
  BY <1>3 DEF Recorded, t, n
<1> QED BY <1>3, <1>4 DEF CertificateFits, t, n

-----------------------------------------------------------------------------
(* The invariant is inductive.                                             *)

\* The empty database satisfies the invariant.
LEMMA InitInv == Init => Inv
<1> SUFFICES ASSUME Init PROVE Inv
  OBVIOUS
<1>1. Variables
  BY ReviewAssumption DEF Init, Variables
<1>2. ActiveIsLatest
  BY DEF Init, ActiveIsLatest, PublishedIn
<1>3. CertificatesFit
  BY DEF Init, CertificatesFit
<1>4. ExceptionsFit /\ Anchored
  BY DEF Init, ExceptionsFit, Anchored
<1> QED BY <1>1, <1>2, <1>3, <1>4 DEF Inv

\* What the certificates are is kept when one is stored ...
LEMMA CertificateStored ==
    ASSUME NEW cs \in Seq(Certificate), NEW vs, \A c \in DOMAIN cs : CertificateFits(cs[c], vs),
           NEW x, CertificateFits(x, vs)
    PROVE  LET ds == Append(cs, x) IN
           /\ ds \in Seq(Certificate) /\ \A c \in DOMAIN ds : CertificateFits(ds[c], vs)
           /\ \A c \in DOMAIN cs : c \in DOMAIN ds /\ ds[c] = cs[c]
<1> DEFINE ds == Append(cs, x)
<1>1. x \in Certificate
  BY DEF CertificateFits
<1>2. /\ ds \in Seq(Certificate) /\ Len(ds) = Len(cs) + 1
      /\ \A i \in 1..Len(cs) : ds[i] = cs[i]
      /\ ds[Len(cs) + 1] = x
  BY <1>1, AppendProperties
<1> HIDE DEF ds
<1>3. DOMAIN cs = 1..Len(cs) /\ DOMAIN ds = 1..Len(ds) /\ Len(cs) \in Nat
  BY <1>2
<1>4. ASSUME NEW c \in DOMAIN ds PROVE CertificateFits(ds[c], vs)
  <2>1. CASE c \in DOMAIN cs
    BY <1>2, <1>3, <2>1
  <2>2. CASE c \notin DOMAIN cs
    <3>1. c = Len(cs) + 1
      BY <1>2, <1>3, <2>2
    <3> QED BY <1>2, <3>1
  <2> QED BY <2>1, <2>2
<1> QED BY <1>2, <1>3, <1>4 DEF ds

\* ... and when one is reviewed.
LEMMA CertificateReviewed ==
    ASSUME NEW cs \in Seq(Certificate), NEW vs, \A c \in DOMAIN cs : CertificateFits(cs[c], vs),
           NEW c \in DOMAIN cs, NEW x, CertificateFits(x, vs)
    PROVE  LET ds == [cs EXCEPT ![c] = x] IN
           /\ ds \in Seq(Certificate) /\ \A d \in DOMAIN ds : CertificateFits(ds[d], vs)
           /\ DOMAIN ds = DOMAIN cs /\ \A d \in DOMAIN cs \ {c} : ds[d] = cs[d]
<1> DEFINE ds == [cs EXCEPT ![c] = x]
<1>1. x \in Certificate
  BY DEF CertificateFits
<1>2. ds \in Seq(Certificate)
  BY <1>1
<1>3. DOMAIN ds = DOMAIN cs /\ ds[c] = x /\ \A d \in DOMAIN cs \ {c} : ds[d] = cs[d]
  OBVIOUS
<1> HIDE DEF ds
<1> QED BY <1>2, <1>3 DEF ds

\* An exception stays anchored while its certificate does.
LEMMA StaysAnchored ==
    ASSUME NEW cs, NEW ds, NEW f, NEW v, Failed(cs, f, v),
           \A c \in DOMAIN cs : cs[c].state = "confirmed" => c \in DOMAIN ds /\ ds[c] = cs[c]
    PROVE  Failed(ds, f, v)
BY DEF Failed

\* A decided exception fits, with the finding and the vendor it was requested for.
LEMMA DecidedFits ==
    ASSUME NEW x, ExceptionFits(x), NEW u \in Admins, NEW decision \in Decisions,
           NEW expires \in Days \cup {None}, decision = "approved" => u # x.requestedBy
    PROVE  LET y == Decided(x, u, decision, expires) IN
           ExceptionFits(y) /\ y.finding = x.finding /\ y.vendor = x.vendor
<1> DEFINE until == IF expires = None THEN x.expires ELSE expires
           y == Decided(x, u, decision, expires)
<1>1. /\ x.vendor \in Vendors /\ x.finding \in Finding /\ x.requestedBy \in Staff
      /\ x.expires \in Days
  BY DEF ExceptionFits, Exception
<1>2. until \in Days /\ u \in Staff
  BY <1>1, ReviewAssumption
<1> HIDE DEF until
<1>3. y = [status |-> decision, vendor |-> x.vendor, finding |-> x.finding,
           requestedBy |-> x.requestedBy, decidedBy |-> u, expires |-> until,
           event |-> [type |-> decision, expires |-> until]]
  BY DEF Decided, until
<1> HIDE DEF y
<1>4. y \in Exception
  BY <1>1, <1>2, <1>3 DEF Exception, Decisions
<1>5. y.status = "approved" => y.decidedBy \in Admins \ {y.requestedBy}
  BY <1>3
<1>6. decision # "pending"
  BY DEF Decisions
<1>7. ExceptionFits(y)
  BY <1>3, <1>4, <1>5, <1>6 DEF ExceptionFits
<1> QED BY <1>3, <1>7 DEF y

\* Every step preserves the invariant.
LEMMA NextInv == Inv /\ [Next]_vars => Inv'
<1> SUFFICES ASSUME Inv, [Next]_vars PROVE Inv'
  OBVIOUS
<1> USE DEF Inv
<1>1. CASE UNCHANGED vars
  BY <1>1 DEF vars, Variables, ActiveIsLatest, CertificatesFit, ExceptionsFit, Anchored
<1>2. CASE NextDay
  BY <1>2 DEF NextDay, Variables, ActiveIsLatest, CertificatesFit, ExceptionsFit, Anchored
<1>3. ASSUME NEW t \in Types, NEW p \in Profiles, PublishRequirements(t, p) PROVE Inv'
  <2>1. /\ versions' = [versions EXCEPT ![t] = Append(@, p)]
        /\ active' = [active EXCEPT ![t] = RowsOf(p, Len(versions[t]) + 1)]
        /\ UNCHANGED <<day, vendorType, upload, certs, exc>>
    BY <1>3 DEF PublishRequirements
  <2>2. versions \in [Types -> Seq(Profiles)]
    BY DEF Variables
  <2>3. /\ versions' \in [Types -> Seq(Profiles)]
        /\ \A s \in Types \ {t} : versions'[s] = versions[s]
        /\ PublishedIn(versions', t, Len(versions'[t])) = RowsOf(p, Len(versions[t]) + 1)
        /\ Continues(versions, versions')
    <3>1. Adds(versions, versions', t, p)
      BY <2>1, <2>2, PublicationAdds
    <3> QED BY <3>1 DEF Adds
  <2>4. Variables'
    BY <2>1, <2>3 DEF Variables
  <2>5. ActiveIsLatest'
    <3>1. active = [s \in Types |-> PublishedIn(versions, s, Len(versions[s]))]
      BY DEF ActiveIsLatest
    <3>2. ASSUME NEW s \in Types PROVE active'[s] = PublishedIn(versions', s, Len(versions'[s]))
      <4>1. CASE s = t
        BY <2>1, <2>3, <3>1, <4>1
      <4>2. CASE s # t
        <5>1. versions'[s] = versions[s] /\ active'[s] = active[s]
          BY <2>1, <2>3, <3>1, <4>2
        <5> QED BY <3>1, <5>1 DEF PublishedIn
      <4> QED BY <4>1, <4>2
    <3>3. active' = [s \in Types |-> active'[s]]
      BY <2>1, <3>1
    <3> QED BY <3>2, <3>3 DEF ActiveIsLatest
  <2>6. CertificatesFit'
    <3>1. \A c \in DOMAIN certs : CertificateFits(certs[c], versions')
      BY <2>2, <2>3, FitsLater DEF CertificatesFit
    <3> QED BY <2>1, <3>1 DEF CertificatesFit
  <2> QED BY <2>1, <2>4, <2>5, <2>6 DEF ExceptionsFit, Anchored
<1>4. ASSUME NEW v \in Vendors, NEW t \in Types, ChangeVendorType(v, t) PROVE Inv'
  BY <1>4 DEF ChangeVendorType, Variables, ActiveIsLatest, CertificatesFit, ExceptionsFit, Anchored
<1>5. ASSUME NEW a \in Actors, NEW v \in Vendors, BeginUpload(a, v) PROVE Inv'
  <2>1. Variables'
    BY <1>5 DEF BeginUpload, Variables, Upload
  <2> QED BY <1>5, <2>1 DEF BeginUpload, ActiveIsLatest, CertificatesFit, ExceptionsFit, Anchored
<1>6. ASSUME NEW a \in Actors, NEW doc \in Documents, NEW reviewed \in BOOLEAN,
             IngestCertificate(a, doc, reviewed)
      PROVE  Inv'
  <2>1. /\ upload[a] # None /\ (reviewed => a \in Staff)
        /\ certs' = Append(certs, NewCertificate(a, upload[a], doc, reviewed))
        /\ upload' = [upload EXCEPT ![a] = None]
        /\ UNCHANGED <<day, vendorType, versions, active, exc>>
    BY <1>6 DEF IngestCertificate
  <2>2. Variables'
    BY <2>1 DEF Variables
  <2>3. CertificateFits(NewCertificate(a, upload[a], doc, reviewed), versions)
    <3>1. upload[a] \in Upload
      BY <2>1 DEF Variables
    <3> QED BY <2>1, <3>1, NewCertificateFits
  <2>4. /\ certs' \in Seq(Certificate) /\ \A c \in DOMAIN certs' : CertificateFits(certs'[c], versions)
        /\ \A c \in DOMAIN certs : c \in DOMAIN certs' /\ certs'[c] = certs[c]
    <3> DEFINE x == NewCertificate(a, upload[a], doc, reviewed)
               ds == Append(certs, x)
    <3>1. certs' = ds /\ CertificateFits(x, versions)
      BY <2>1, <2>3
    <3>2. certs \in Seq(Certificate) /\ \A c \in DOMAIN certs : CertificateFits(certs[c], versions)
      BY DEF CertificatesFit
    <3> HIDE DEF x
    <3>3. /\ ds \in Seq(Certificate) /\ \A c \in DOMAIN ds : CertificateFits(ds[c], versions)
          /\ \A c \in DOMAIN certs : c \in DOMAIN ds /\ ds[c] = certs[c]
      BY <3>1, <3>2, CertificateStored
    <3> HIDE DEF ds
    <3> QED BY <3>1, <3>3
  <2>5. CertificatesFit'
    BY <2>1, <2>4 DEF CertificatesFit
  <2>6. Anchored'
    BY <2>1, <2>4, StaysAnchored DEF Anchored
  <2> QED BY <2>1, <2>2, <2>5, <2>6 DEF ActiveIsLatest, ExceptionsFit
<1>7. ASSUME NEW a \in Actors, AbandonUpload(a) PROVE Inv'
  <2>1. Variables'
    BY <1>7 DEF AbandonUpload, Variables
  <2> QED BY <1>7, <2>1 DEF AbandonUpload, ActiveIsLatest, CertificatesFit, ExceptionsFit, Anchored
<1>8. ASSUME NEW c \in DOMAIN certs, NEW x, CertificateFits(x, versions), certs[c].state = "draft",
             certs' = [certs EXCEPT ![c] = x],
             UNCHANGED <<day, vendorType, versions, active, upload, exc>>
      PROVE  Inv'
  <2>1. /\ certs' \in Seq(Certificate) /\ \A d \in DOMAIN certs' : CertificateFits(certs'[d], versions)
        /\ DOMAIN certs' = DOMAIN certs /\ \A d \in DOMAIN certs \ {c} : certs'[d] = certs[d]
    BY <1>8, CertificateReviewed DEF CertificatesFit
  <2>2. CertificatesFit'
    BY <1>8, <2>1 DEF CertificatesFit
  <2>3. \A d \in DOMAIN certs : certs[d].state = "confirmed" => d \in DOMAIN certs' /\ certs'[d] = certs[d]
    BY <1>8, <2>1
  <2>4. Anchored'
    BY <1>8, <2>3, StaysAnchored DEF Anchored
  <2> QED BY <1>8, <2>2, <2>4 DEF Variables, ActiveIsLatest, ExceptionsFit
<1>9. ASSUME NEW c \in DOMAIN certs, NEW u \in Staff, NEW doc \in Documents,
             ConfirmCertificate(u, c, doc)
      PROVE  Inv'
  <2>1. CertificateFits(certs[c], versions)
    BY DEF CertificatesFit
  <2>2. CertificateFits(Confirmed(certs[c], u, doc), versions)
    BY <1>9, <2>1, ConfirmedFits DEF ConfirmCertificate
  <2> QED BY <1>8, <1>9, <2>2 DEF ConfirmCertificate
<1>10. ASSUME NEW c \in DOMAIN certs, RejectCertificate(c) PROVE Inv'
  <2>1. CertificateFits(certs[c], versions)
    BY DEF CertificatesFit
  <2>2. CertificateFits(Rejected(certs[c]), versions)
    BY <1>10, <2>1, RejectedFits DEF RejectCertificate
  <2> QED BY <1>8, <1>10, <2>2 DEF RejectCertificate
<1>11. ASSUME NEW e \in Exceptions, NEW x, ExceptionFits(x), Failed(certs, x.finding, x.vendor),
              exc' = [exc EXCEPT ![e] = x],
              UNCHANGED <<day, vendorType, versions, active, upload, certs>>
       PROVE  Inv'
  <2>1. x \in Exception
    BY <1>11 DEF ExceptionFits
  <2>2. exc' \in [Exceptions -> Exception \cup {None}] /\ exc'[e] = x
        /\ \A d \in Exceptions \ {e} : exc'[d] = exc[d]
    BY <1>11, <2>1 DEF ExceptionsFit
  <2>3. ExceptionsFit'
    BY <1>11, <2>2 DEF ExceptionsFit
  <2>4. Anchored'
    BY <1>11, <2>2 DEF Anchored
  <2> QED BY <1>11, <2>3, <2>4 DEF Variables, ActiveIsLatest, CertificatesFit
<1>12. ASSUME NEW e \in Exceptions, NEW u \in Staff, NEW v \in Vendors, NEW c \in DOMAIN certs,
              NEW expires \in Days, NEW f \in FindingsOf(c), CreateException(u, e, v, f, expires)
       PROVE  Inv'
  <2> DEFINE x == [status |-> "pending", vendor |-> v, finding |-> f, requestedBy |-> u,
                   decidedBy |-> None, expires |-> expires,
                   event |-> [type |-> "requested", expires |-> expires]]
  <2>1. /\ exc' = [exc EXCEPT ![e] = x] /\ f \in FailuresOf(f.cert)
        /\ certs[f.cert].state = "confirmed" /\ certs[f.cert].vendor = v
        /\ UNCHANGED <<day, vendorType, versions, active, upload, certs>>
    BY <1>12 DEF CreateException, Exceptable
  <2>2. f \in Finding /\ f.cert = c
    <3>1. certs \in Seq(Certificate)
      BY DEF CertificatesFit
    <3>2. IsCertificate(certs[c]) /\ c \in Nat \ {0}
      BY <3>1, CertificateType
    <3> QED BY <3>2 DEF FindingsOf, Finding, IsCertificate, IsVerdict
  <2>3. Failed(certs, f, v)
    BY <2>1, <2>2 DEF FailuresOf, FindingsOf, Failed
  <2>4. ExceptionFits(x)
    BY <2>2 DEF ExceptionFits, Exception
  <2>5. x.finding = f /\ x.vendor = v
    OBVIOUS
  <2> HIDE DEF x
  <2> QED BY <1>11, <2>1, <2>3, <2>4, <2>5
<1>13. ASSUME NEW e \in Exceptions, NEW u \in Admins, NEW decision \in Decisions,
              NEW expires \in Days \cup {None}, DecideException(u, e, decision, expires)
       PROVE  Inv'
  <2> DEFINE y == Decided(exc[e], u, decision, expires)
  <2>1. /\ exc[e] # None /\ (decision = "approved" => u # exc[e].requestedBy)
        /\ exc' = [exc EXCEPT ![e] = y]
        /\ UNCHANGED <<day, vendorType, versions, active, upload, certs>>
    BY <1>13 DEF DecideException
  <2>2. ExceptionFits(exc[e]) /\ Failed(certs, exc[e].finding, exc[e].vendor)
    BY <2>1 DEF ExceptionsFit, Anchored
  <2>3. ExceptionFits(y) /\ y.finding = exc[e].finding /\ y.vendor = exc[e].vendor
    BY <2>1, <2>2, DecidedFits
  <2> HIDE DEF y
  <2> QED BY <1>11, <2>1, <2>2, <2>3
<1> QED BY <1>1, <1>2, <1>3, <1>4, <1>5, <1>6, <1>7, <1>9, <1>10, <1>12, <1>13
        DEF Next, Requirements, Submission, Review, Disposition

\* The invariant holds in every reachable state.
LEMMA Invariance == Spec => []Inv
BY InitInv, NextInv, PTL DEF Spec

-----------------------------------------------------------------------------
(* What follows of the recorded facts.                                     *)

\* Every variable has its type, in every reachable state: rows that are active
\* are rows, and a certificate has a verdict and a history of its own type.
THEOREM Typed == Spec => []TypeOK
<1>1. Inv => TypeOK
  <2> SUFFICES ASSUME Inv PROVE TypeOK
    OBVIOUS
  <2>1. active \in [Types -> SUBSET Row]
    <3>1. ASSUME NEW t \in Types PROVE PublishedIn(versions, t, Len(versions[t])) \subseteq Row
      <4>1. versions \in [Types -> Seq(Profiles)] /\ Len(versions[t]) \in 0..Len(versions[t])
        BY DEF Inv, Variables
      <4> QED BY <4>1, PublishedRows
    <3> QED BY <3>1 DEF Inv, ActiveIsLatest
  <2>2. /\ DOMAIN certs = 1..Len(certs) /\ Len(certs) \in Nat
        /\ \A c \in DOMAIN certs : IsCertificate(certs[c])
    BY CertificateType DEF Inv, CertificatesFit
  <2> QED BY <2>1, <2>2 DEF TypeOK, Inv, Variables, ExceptionsFit
<1> QED BY <1>1, Invariance, PTL

\* No later publication, change of type or review alters what a certificate was
\* judged by: its verdict can be made again from what it records.
THEOREM Reproducible == Spec => []VerdictReproducible
<1>1. Inv => VerdictReproducible
  BY DEF Inv, CertificatesFit, CertificateFits, Recorded, VerdictReproducible, Published, PublishedIn
<1> QED BY <1>1, Invariance, PTL

\* An exception never loses the failed finding of the confirmed certificate it
\* was requested for.
THEOREM StayAnchored == Spec => []ExceptionsAnchored
<1>1. Inv => ExceptionsAnchored
  BY DEF Inv, Anchored, Failed, ExceptionsAnchored, FindingsOf
<1> QED BY <1>1, Invariance, PTL

\* The events of a certificate and of an exception tell what became of them.
THEOREM EventsAgree == Spec => []EventsTellTheOutcome
<1>1. Inv => EventsTellTheOutcome
  BY DEF Inv, CertificatesFit, CertificateFits, ExceptionsFit, ExceptionFits, EventsTellTheOutcome
<1> QED BY <1>1, Invariance, PTL

-----------------------------------------------------------------------------
(* The status of a vendor.                                                 *)

\* Of finitely many first numbers one is the greatest.
LEMMA GreatestNatural ==
    ASSUME NEW n \in Nat, NEW T \in SUBSET (1..n), T # {}
    PROVE  \E x \in T : \A y \in T : y <= x
<1> DEFINE S == {n - x : x \in T}
<1>1. S \in SUBSET Nat /\ S # {}
  <2>1. \A x \in T : n - x \in Nat
    OBVIOUS
  <2>2. PICK x : x \in T
    OBVIOUS
  <2>3. n - x \in S
    BY <2>2
  <2> QED BY <2>1, <2>3
<1>2. PICK d \in S : \A y \in S : <<y, d>> \notin OpToRel(<, Nat)
  <2> HIDE DEF S
  <2> QED BY <1>1, NatLessThanWellFounded, WFMin, Zenon
<1>3. ASSUME NEW y \in S PROVE d <= y
  <2> HIDE DEF S
  <2>1. ~(<<y, d>> \in {ss \in Nat \X Nat : ss[1] < ss[2]})
    BY <1>2, Zenon DEF OpToRel
  <2> QED BY <1>1, <2>1
<1>4. PICK x \in T : d = n - x
  OBVIOUS
<1>5. ASSUME NEW y \in T PROVE y <= x
  <2>1. d <= n - y
    BY <1>3
  <2> QED BY <1>4, <2>1
<1> QED BY <1>5

\* The latest certificate considered for a vendor is one of those.
LEMMA LatestConsidered ==
    ASSUME CertificatesFit, NEW v, Considered(v) # {}
    PROVE  /\ LatestCertificate(v) \in Considered(v)
           /\ \A d \in Considered(v) : d <= LatestCertificate(v)
<1>1. Considered(v) \in SUBSET (1..Len(certs)) /\ Len(certs) \in Nat
  BY DEF CertificatesFit, Considered
<1>2. \E c \in Considered(v) : \A d \in Considered(v) : d <= c
  BY <1>1, GreatestNatural
<1> QED BY <1>2, Zenon DEF LatestCertificate

\* Without requirements an evaluation leaves a review to do; with some it finds
\* what each of them asks for.
Outcome(k, rows, doc, reviewed, date) ==
    LET findings == [r \in rows |-> Status(r, doc, reviewed, date)] IN
    /\ rows = {} => k.compliance = "pending_review"
    /\ rows # {} => k.findings = findings /\ k.compliance = ComplianceOf({findings[r] : r \in rows})

\* Every evaluation has such an outcome.
LEMMA EvaluateOutcome ==
    ASSUME NEW rows, NEW t, NEW doc, NEW reviewed, NEW date
    PROVE  Outcome(Evaluate(rows, t, doc, reviewed, date), rows, doc, reviewed, date)
<1> DEFINE findings == [r \in rows |-> Status(r, doc, reviewed, date)]
           statuses == {findings[r] : r \in rows}
           k == Evaluate(rows, t, doc, reviewed, date)
<1>1. CASE rows = {}
  BY <1>1 DEF Evaluate, Unruled, Outcome
<1>2. CASE rows # {}
  <2>1. k = [type |-> t, version |-> RequirementVersion(rows), date |-> date,
             findings |-> findings, compliance |-> ComplianceOf(statuses)]
    BY <1>2 DEF Evaluate, Judged
  <2> HIDE DEF k, findings, statuses
  <2>2. k.findings = findings /\ k.compliance = ComplianceOf(statuses)
    BY <2>1
  <2> QED BY <1>2, <2>2 DEF k, findings, statuses, Outcome
<1> QED BY <1>1, <1>2

\* A vendor is shown as meeting its requirements, or as accepted, only on the
\* word of a reviewer, from published requirements, with every shortfall
\* accepted by an administrator who did not request it.
THEOREM Earned == Spec => []StatusIsEarned
<1>1. Inv => StatusIsEarned
  <2> SUFFICES ASSUME Inv, NEW v \in Vendors, VendorStatus(v) \in {"meets", "approved_exception"}
               PROVE  LET c == LatestCertificate(v)
                          k == certs[c].verdict
                          required == {r \in Published(k.type, k.version) : r.required}
                          unclear == {r \in required : r.rule \in certs[c].doc.unclear}
                          short == {r \in required \ unclear : ~Shows(certs[c].doc, r, k.date)}
                      IN  /\ certs[c].state = "confirmed" /\ certs[c].by \in Staff
                          /\ k.version > 0
                          /\ VendorStatus(v) = "meets" => short = {} /\ unclear = {}
                          /\ \A r \in short :
                                Accepted([cert |-> c, round |-> certs[c].round, row |-> r])
    BY DEF StatusIsEarned
  <2> DEFINE c == LatestCertificate(v)
             x == certs[c]
             k == x.verdict
             rows == PublishedIn(versions, k.type, k.version)
             unclear == {r \in rows : r.required /\ r.rule \in x.doc.unclear}
             short == {r \in rows : r.required /\ r.rule \notin x.doc.unclear
                                               /\ ~Shows(x.doc, r, k.date)}
             findings == [r \in rows |-> Status(r, x.doc, TRUE, k.date)]
  <2>1. Considered(v) # {} /\ VendorStatus(v) = CheckFor(c)
    BY DEF VendorStatus
  <2>2. c \in Considered(v)
    BY <2>1, LatestConsidered DEF Inv
  <2>3. c \in DOMAIN certs /\ x.state # "rejected" /\ CertificateFits(x, versions)
    BY <2>2 DEF Considered, Inv, CertificatesFit
  <2>4. x.state # "draft" /\ k.compliance # "pending_review"
    BY <2>1 DEF CheckFor
  <2> HIDE DEF c, x
  <2>5. x.state = "confirmed" /\ x.by \in Staff
    BY <2>3, <2>4 DEF CertificateFits, Certificate
  <2>6. k = Evaluate(rows, k.type, x.doc, TRUE, k.date)
    <3>1. (x.state = "confirmed") = TRUE
      BY <2>5
    <3> QED BY <2>3, <2>5, <3>1 DEF CertificateFits, Recorded
  <2>7. k.version \in Nat /\ k.type \in Types /\ k.version \in 0..Len(versions[k.type])
    BY <2>3 DEF CertificateFits, Certificate, Verdict
  <2> HIDE DEF k
  <2>8. /\ rows = {} => k.compliance = "pending_review"
        /\ rows # {} => k.findings = findings
                        /\ k.compliance = ComplianceOf({findings[r] : r \in rows})
    <3> HIDE DEF rows
    <3>1. Outcome(k, rows, x.doc, TRUE, k.date)
      BY <2>6, EvaluateOutcome, Zenon
    <3> QED BY <3>1 DEF Outcome
  <2>9. k.version > 0
    BY <2>4, <2>7, <2>8 DEF PublishedIn
  <2> HIDE DEF rows
  <2>10. k.findings = findings /\ k.compliance = ComplianceOf({findings[r] : r \in rows})
    BY <2>4, <2>8
  <2>11. ASSUME NEW r \in short PROVE r \in rows /\ findings[r] = "FAIL"
    BY DEF Status
  <2>12. VendorStatus(v) = "meets" => short = {} /\ unclear = {}
    <3>1. VendorStatus(v) = "meets" => k.compliance = "compliant"
      BY <2>1 DEF CheckFor, k, x
    <3>2. short # {} => k.compliance = "non_compliant"
      BY <2>10, <2>11 DEF ComplianceOf
    <3>3. ASSUME NEW r \in unclear PROVE r \in rows /\ findings[r] = "UNKNOWN"
      BY DEF Status
    <3>4. unclear # {} => k.compliance # "compliant"
      BY <2>10, <3>3 DEF ComplianceOf
    <3> QED BY <3>1, <3>2, <3>4
  <2>13. ASSUME NEW r \in short
         PROVE  Accepted([cert |-> c, round |-> x.round, row |-> r])
    <3> DEFINE f == [cert |-> c, round |-> x.round, row |-> r]
    <3>1. VendorStatus(v) = "approved_exception"
      BY <2>12, <2>13
    <3>2. \A g \in FailuresOf(c) : Excepted(g)
      BY <2>1, <3>1 DEF CheckFor
    <3>3. r \in DOMAIN k.findings /\ k.findings[r] = "FAIL"
      BY <2>10, <2>11
    <3>4. f \in FindingsOf(c) /\ f.row = r
      BY <3>3 DEF FindingsOf, k, x
    <3>5. f \in FailuresOf(c)
      BY <3>3, <3>4 DEF FailuresOf, k, x
    <3> HIDE DEF f
    <3>6. Excepted(f)
      BY <3>2, <3>5
    <3>7. PICK e \in Exceptions : InForce(e) /\ exc[e].finding = f
      BY <3>6 DEF Excepted
    <3>8. exc[e] # None /\ exc[e].status = "approved" /\ exc[e].expires > day
      BY <3>7 DEF InForce
    <3>9. exc[e].decidedBy \in Admins \ {exc[e].requestedBy}
      BY <3>8 DEF Inv, ExceptionsFit, ExceptionFits
    <3>10. Accepted(f)
      BY <3>7, <3>8, <3>9 DEF Accepted
    <3> QED BY <3>10 DEF f
  <2> DEFINE required == {r \in Published(k.type, k.version) : r.required}
  <2>14. /\ unclear = {r \in required : r.rule \in x.doc.unclear}
         /\ short = {r \in required \ unclear : ~Shows(x.doc, r, k.date)}
    BY DEF Published, PublishedIn, rows
  <2> HIDE DEF short, unclear, findings
  <2> QED BY <2>5, <2>9, <2>12, <2>13, <2>14 DEF k, x, c
<1> QED BY <1>1, Invariance, PTL

-----------------------------------------------------------------------------
(* The two queries of the status.                                          *)

\* What a profile publishes, and so what a certificate is found to lack, is
\* finite: the counts of the vendor list are counts.
LEMMA FiniteRows ==
    ASSUME NEW vs \in [Types -> Seq(Profiles)], NEW t \in Types, NEW n \in 0..Len(vs[t])
    PROVE  IsFiniteSet(PublishedIn(vs, t, n))
<1>1. CASE n = 0
  BY <1>1, FS_EmptySet DEF PublishedIn
<1>2. CASE n # 0
  <2> DEFINE p == vs[t][n]
  <2>1. p \in Profiles
    BY <1>2
  <2> HIDE DEF p
  <2>2. DOMAIN p \subseteq Rules
    BY <2>1, ReviewAssumption
  <2>3. IsFiniteSet(DOMAIN p)
    BY <2>2, ReviewAssumption, FS_Subset
  <2> DEFINE Rows == {[rule |-> r, required |-> p[r].required, minimum |-> p[r].minimum,
                       version |-> n] : r \in DOMAIN p}
  <2>4. Rows = RowsOf(p, n)
    BY DEF RowsOf
  <2> DEFINE f == [r \in DOMAIN p |-> [rule |-> r, required |-> p[r].required,
                                       minimum |-> p[r].minimum, version |-> n]]
  <2>5. f \in Surjection(DOMAIN p, Rows)
    BY DEF Surjection
  <2>6. IsFiniteSet(Rows)
    BY <2>3, <2>5, FS_Surjection
  <2> QED BY <1>2, <2>4, <2>6 DEF PublishedIn, p
<1> QED BY <1>1, <1>2

\* The failures of a certificate are finitely many.
LEMMA FiniteFailures ==
    ASSUME Inv, NEW c \in DOMAIN certs
    PROVE  IsFiniteSet(FailuresOf(c))
<1> DEFINE x == certs[c]
           k == x.verdict
           rows == PublishedIn(versions, k.type, k.version)
           again == Evaluate(rows, k.type, x.doc, x.state = "confirmed", k.date)
           D == DOMAIN k.findings
<1>1. CertificateFits(x, versions) /\ versions \in [Types -> Seq(Profiles)]
  BY DEF Inv, CertificatesFit, Variables
<1> HIDE DEF x
<1>2. k.version \in Nat /\ k.type \in Types /\ k.version \in 0..Len(versions[k.type])
  BY <1>1 DEF CertificateFits, Certificate, Verdict
<1>3. IsFiniteSet(rows)
  BY <1>1, <1>2, FiniteRows
<1>4. k = again \/ k = Void(again)
  BY <1>1 DEF CertificateFits, Recorded
<1> HIDE DEF k, rows
<1>5. DOMAIN again.findings = IF rows = {} THEN {None} ELSE rows
  BY DEF Evaluate, Unruled, Judged
<1>6. IsFiniteSet({None})
  BY FS_Singleton
<1>7. IsFiniteSet(D)
  <2> HIDE DEF again
  <2>1. k.findings = again.findings
    BY <1>4 DEF Void
  <2> QED BY <1>3, <1>5, <1>6, <2>1
<1> DEFINE F == {[cert |-> c, round |-> x.round, row |-> r] : r \in D}
           f == [r \in D |-> [cert |-> c, round |-> x.round, row |-> r]]
<1>8. f \in Surjection(D, F)
  BY DEF Surjection
<1>9. IsFiniteSet(F)
  <2> HIDE DEF f, F, D
  <2> QED BY <1>7, <1>8, FS_Surjection
<1>10. FailuresOf(c) \subseteq F
  BY DEF FailuresOf, FindingsOf, x, k
<1> QED BY <1>9, <1>10, FS_Subset

\* A certificate has the same status in both.
LEMMA SameCheck ==
    ASSUME Inv, NEW c \in DOMAIN certs
    PROVE  AggregateCheckStatus(c) = CheckFor(c)
<1> DEFINE U == {f \in FailuresOf(c) : ~Excepted(f)}
           A == {e \in Exceptions : InForce(e) /\ exc[e].finding \in FindingsOf(c)}
<1>1. IsFiniteSet(U)
  BY FiniteFailures, FS_Subset
<1>2. IsFiniteSet(A)
  <2>1. A \subseteq Exceptions
    OBVIOUS
  <2> HIDE DEF A
  <2> QED BY <2>1, ReviewAssumption, FS_Subset
<1>3. UnexceptedFailures(c) = 0 <=> \A f \in FailuresOf(c) : Excepted(f)
  <2>1. Cardinality(U) = 0 <=> U = {}
    <3> HIDE DEF U
    <3> QED BY <1>1, FS_EmptySet
  <2> QED BY <2>1 DEF UnexceptedFailures
<1>4. ActiveExceptions(c) > 0 <=> \E f \in FindingsOf(c) : Excepted(f)
  <2>1. Cardinality(A) \in Nat /\ (Cardinality(A) = 0 <=> A = {})
    <3> HIDE DEF A
    <3> QED BY <1>2, FS_EmptySet, FS_CardinalityType
  <2>2. A # {} <=> \E f \in FindingsOf(c) : Excepted(f)
    BY DEF Excepted
  <2>3. ActiveExceptions(c) = Cardinality(A)
    BY DEF ActiveExceptions
  <2> HIDE DEF A
  <2> QED BY <2>1, <2>2, <2>3
<1> QED BY <1>3, <1>4 DEF AggregateCheckStatus, CheckFor

\* The page of a vendor and the list of vendors never disagree on a status.
THEOREM SameViews == Spec => []ViewsAgree
<1>1. Inv => ViewsAgree
  <2> SUFFICES ASSUME Inv, NEW v \in Vendors PROVE ListedStatuses(v) = {VendorStatus(v)}
    BY DEF ViewsAgree
  <2> DEFINE latest == {c \in Considered(v) : RecentRank(c) = 1}
  <2>1. CASE Considered(v) = {}
    <3>1. latest = {}
      BY <2>1
    <3> QED BY <2>1, <3>1 DEF ListedStatuses, VendorStatus
  <2>2. CASE Considered(v) # {}
    <3> DEFINE c == LatestCertificate(v)
    <3>1. c \in Considered(v) /\ \A d \in Considered(v) : d <= c
      BY <2>2, LatestConsidered DEF Inv
    <3>2. Considered(v) \subseteq 1..Len(certs) /\ Len(certs) \in Nat
      BY DEF Inv, CertificatesFit, Considered
    <3>3. IsFiniteSet(Considered(v))
      <4>1. IsFiniteSet(1..Len(certs))
        BY <3>2, FS_Interval
      <4> QED BY <3>2, <4>1, FS_Subset
    <3> HIDE DEF c
    <3>4. ASSUME NEW d \in Considered(v) PROVE RecentRank(d) = 1 <=> d = c
      <4> DEFINE later == {e \in Considered(v) : e > d}
      <4>1. RecentRank(d) = 1 + Cardinality(later)
        BY DEF RecentRank, Considered
      <4>2. IsFiniteSet(later)
        BY <3>3, FS_Subset
      <4>3. later = {} <=> d = c
        BY <3>1, <3>2
      <4> HIDE DEF later
      <4>4. Cardinality(later) \in Nat /\ (Cardinality(later) = 0 <=> later = {})
        BY <4>2, FS_EmptySet, FS_CardinalityType
      <4> QED BY <4>1, <4>3, <4>4
    <3>5. latest = {c}
      BY <3>1, <3>4
    <3>6. ListedStatuses(v) = {AggregateCheckStatus(c)}
      BY <3>5 DEF ListedStatuses
    <3>7. AggregateCheckStatus(c) = CheckFor(c)
      BY <3>1, SameCheck DEF Considered
    <3> QED BY <2>2, <3>6, <3>7 DEF VendorStatus, c
  <2> QED BY <2>1, <2>2
<1> QED BY <1>1, Invariance, PTL

-----------------------------------------------------------------------------
(* What a step may not do.                                                 *)

\* No step changes a reviewed certificate, a closed exception or a published
\* version, or moves an exception to another finding.
THEOREM Final == Spec => DecisionsAreFinal
<1> DEFINE Step ==
      /\ \A c \in DOMAIN certs : certs[c].state # "draft" => certs'[c] = certs[c]
      /\ \A e \in Exceptions : exc[e] # None =>
            /\ exc'[e].finding = exc[e].finding
            /\ exc[e].status \in {"rejected", "revoked"} => exc'[e] = exc[e]
      /\ \A t \in Types : \A n \in DOMAIN versions[t] : versions'[t][n] = versions[t][n]
<1>1. Inv /\ Next => Step
  <2> SUFFICES ASSUME Inv, Next PROVE Step
    OBVIOUS
  <2>1. CASE UNCHANGED <<certs, exc, versions>>
    BY <2>1
  <2>2. ASSUME NEW t \in Types, NEW p \in Profiles, PublishRequirements(t, p) PROVE Step
    <3>1. /\ versions' = [versions EXCEPT ![t] = Append(@, p)] /\ UNCHANGED <<certs, exc>>
          /\ versions \in [Types -> Seq(Profiles)]
      BY <2>2 DEF PublishRequirements, Inv, Variables
    <3>2. Adds(versions, versions', t, p)
      BY <3>1, PublicationAdds
    <3> QED BY <3>1, <3>2 DEF Adds
  <2>3. ASSUME NEW a \in Actors, NEW doc \in Documents, NEW reviewed \in BOOLEAN,
               IngestCertificate(a, doc, reviewed)
        PROVE  Step
    <3>1. /\ certs' = Append(certs, NewCertificate(a, upload[a], doc, reviewed))
          /\ UNCHANGED <<exc, versions>>
      BY <2>3 DEF IngestCertificate
    <3>2. certs \in Seq(Certificate)
      BY DEF Inv, CertificatesFit
    <3>3. \A c \in DOMAIN certs : certs'[c] = certs[c]
      BY <3>1, <3>2
    <3> QED BY <3>1, <3>3
  <2>4. ASSUME NEW c \in DOMAIN certs, NEW u \in Staff, NEW doc \in Documents,
               ConfirmCertificate(u, c, doc)
        PROVE  Step
    BY <2>4 DEF ConfirmCertificate
  <2>5. ASSUME NEW c \in DOMAIN certs, RejectCertificate(c) PROVE Step
    BY <2>5 DEF RejectCertificate
  <2>6. ASSUME NEW e \in Exceptions, NEW u \in Staff, NEW v \in Vendors, NEW c \in DOMAIN certs,
               NEW expires \in Days, NEW f \in FindingsOf(c), CreateException(u, e, v, f, expires)
        PROVE  Step
    BY <2>6 DEF CreateException
  <2>7. ASSUME NEW e \in Exceptions, NEW u \in Admins, NEW decision \in Decisions,
               NEW expires \in Days \cup {None}, DecideException(u, e, decision, expires)
        PROVE  Step
    <3> DEFINE y == Decided(exc[e], u, decision, expires)
    <3>1. /\ exc' = [exc EXCEPT ![e] = y] /\ exc[e].status \in {"pending", "approved"}
          /\ UNCHANGED <<certs, versions>> /\ exc \in [Exceptions -> Exception \cup {None}]
      BY <2>7 DEF DecideException, Inv, ExceptionsFit
    <3>2. y.finding = exc[e].finding
      BY DEF Decided
    <3> HIDE DEF y
    <3> QED BY <3>1, <3>2
  <2>8. CASE NextDay \/ (\E v \in Vendors, t \in Types : ChangeVendorType(v, t))
    BY <2>1, <2>8 DEF NextDay, ChangeVendorType
  <2>9. CASE \E a \in Actors : AbandonUpload(a) \/ (\E v \in Vendors : BeginUpload(a, v))
    BY <2>1, <2>9 DEF AbandonUpload, BeginUpload
  <2> HIDE DEF Step
  <2> QED BY <2>2, <2>3, <2>4, <2>5, <2>6, <2>7, <2>8, <2>9
          DEF Next, Requirements, Submission, Review, Disposition
<1>2. Inv /\ [Next]_vars => [Step]_vars
  BY <1>1
<1>3. Spec => [][Step]_vars
  <2> HIDE DEF Step
  <2> QED BY <1>2, Invariance, PTL DEF Spec
<1> QED BY <1>3 DEF DecisionsAreFinal
=============================================================================
