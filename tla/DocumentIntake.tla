--------------------------- MODULE DocumentIntake ---------------------------
(***************************************************************************)
(* The browser's part of a certificate's way into the system.  The intake  *)
(* form takes a PDF, reads it page by page in the background, offers what  *)
(* the parser found as a draft, and sends the file with the edited draft:  *)
(* confirmed if a member of the staff uploads, unconfirmed if a vendor     *)
(* does through a link.  The detail page shows a stored submission to      *)
(* reviewers, who correct and confirm it, or reject it.                    *)
(*                                                                         *)
(* One browser tab holds the form, and each reviewer has a page.  What the *)
(* server does is one step per request; requests and answers may be lost   *)
(* or late, and tabs may be closed at any time.  State updates of one      *)
(* event handler, and of the code between two awaits, take effect together.*)
(*                                                                         *)
(* A text field is what the code makes of it: blank, unreadable, or the    *)
(* numbers in it.  Messages, toasts and layout are left out.               *)
(***************************************************************************)
EXTENDS Naturals, Sequences, FiniteSets, SequencesExt, TLC

CONSTANTS
    Files,        \* files of at most 15 MB that are called PDFs
    PageCount,    \* pages of a file
    Scanned,      \* pages of a file without usable text
    Parsed,       \* what parseCoiText finds in the text of a file
    MaxOcrPages,  \* MAX_OCR_PAGES
    Common,       \* endorsements that every policy of the form has a field for
    Coverages,    \* coverage types a user may select
    Types,        \* limit types a user may select
    Levels,       \* evidence levels a user may select
    AmountTexts,  \* texts a user may type as an amount
    PageTexts,    \* texts a user may type as source pages
    Names,        \* endorsement names a user may type
    Reviewers,    \* members of the staff who open stored certificates
    None,         \* null
    Unreadable,   \* a text that is no number
    MaxTabs,      \* bound of the forms opened
    MaxChoices,   \* bound of the files chosen
    MaxEdits,     \* bound of the edits of the form
    MaxFixes,     \* bound of the corrections on detail pages
    MaxSends,     \* bound of the submissions
    MaxAsks       \* bound of the decisions asked for

Blank == <<>>

OccurrenceTypes == <<"EACH_OCCURRENCE", "COMBINED_SINGLE_LIMIT", "EACH_ACCIDENT", "EACH_CLAIM">>
AggregateTypes  == <<"GENERAL_AGGREGATE", "AGGREGATE", "PRODUCTS_COMPLETED_OPERATIONS_AGGREGATE">>

CoverageType ==
    {"COMMERCIAL_GENERAL_LIABILITY", "AUTOMOBILE_LIABILITY", "WORKERS_COMPENSATION",
     "EMPLOYERS_LIABILITY", "UMBRELLA_EXCESS_LIABILITY", "PROFESSIONAL_LIABILITY",
     "CYBER_LIABILITY", "POLLUTION_LIABILITY", "PROPERTY", "OTHER"}

LimitType ==
    {"EACH_OCCURRENCE", "DAMAGE_TO_RENTED_PREMISES", "MEDICAL_EXPENSE",
     "PERSONAL_ADVERTISING_INJURY", "GENERAL_AGGREGATE",
     "PRODUCTS_COMPLETED_OPERATIONS_AGGREGATE", "COMBINED_SINGLE_LIMIT",
     "BODILY_INJURY_PER_PERSON", "BODILY_INJURY_PER_ACCIDENT", "PROPERTY_DAMAGE_PER_ACCIDENT",
     "EACH_ACCIDENT", "DISEASE_EACH_EMPLOYEE", "DISEASE_POLICY_LIMIT", "EACH_CLAIM",
     "AGGREGATE"}

EvidenceLevel == {"NONE", "MENTIONED", "SCHEDULED", "ATTACHED", "HUMAN_VERIFIED"}

\* What the fields of a draft hold.
AmountText == {Blank, Unreadable} \cup (Nat \X Nat)
PageText   == Seq(Nat) \cup {Unreadable}

PolicyDraft ==
    [cover : CoverageType,
     occurrence : [type : Range(OccurrenceTypes), text : AmountText],
     aggregate : [type : Range(AggregateTypes), text : AmountText],
     common : [Common -> [level : EvidenceLevel, pages : PageText]]]

CertificateDraft ==
    [from : Files, named : BOOLEAN, policies : Seq(PolicyDraft),
     endorsements : Seq([name : STRING \cup {None}, level : EvidenceLevel, pages : PageText])]

\* What the intake form holds; see the section on the form.
Form ==
    [mode : {"staff", "vendor"}, file : Files \cup {None},
     extraction : [of : Files, pageCount : Nat] \cup {None},
     draft : CertificateDraft \cup {None}, progress : BOOLEAN, abort : Nat \cup {None},
     reviewConfirmed : BOOLEAN, ticked : Files \cup {None}, waits : Nat, success : BOOLEAN]

\* What the parser returns for the text of a file.
WellRead(found) ==
    /\ found.named \in BOOLEAN
    /\ found.policies \in Seq(Range(found.policies))
    /\ \A i \in DOMAIN found.policies :
          /\ found.policies[i].cover \in CoverageType
          /\ \A t \in DOMAIN found.policies[i].limits : found.policies[i].limits[t] \in Nat
    /\ found.endorsements \in Seq(Range(found.endorsements))
    /\ \A i \in DOMAIN found.endorsements :
          /\ found.endorsements[i].name \in STRING
          /\ found.endorsements[i].level \in EvidenceLevel

ASSUME IntakeAssumption ==
    /\ None \notin Files \cup Common \cup CertificateDraft \cup Form
    /\ PageCount \in [Files -> Nat \ {0}] /\ Scanned \in [Files -> Nat]
    /\ \A d \in Files : Scanned[d] <= PageCount[d] /\ WellRead(Parsed[d])
    /\ Common \subseteq STRING /\ IsFiniteSet(Common) /\ Names \subseteq STRING
    /\ Coverages \subseteq CoverageType /\ Types \subseteq LimitType
    /\ Levels \subseteq EvidenceLevel
    /\ AmountTexts \subseteq AmountText /\ PageTexts \subseteq PageText
    /\ {MaxOcrPages, MaxTabs, MaxChoices, MaxEdits, MaxFixes, MaxSends, MaxAsks} \subseteq Nat

VARIABLES
    form,     \* the state of the intake form, None when no tab shows it
    task,     \* extractions under way, in any tab that still runs
    sent,     \* submissions on their way to the server
    link,     \* the upload link has been used
    certs,    \* stored certificates
    page,     \* the detail page of each reviewer, None when not open
    asked,    \* decisions on their way to the server
    count     \* forms opened, files chosen, edits and submissions so far, for the bounds

vars == <<form, task, sent, link, certs, page, asked, count>>

-----------------------------------------------------------------------------
(* Amounts and source pages.                                               *)

MajorUnits(minor) == <<minor \div 100, minor % 100>>
Readable(text)    == text \notin {Blank, Unreadable}
ToMinorUnits(text) == 100 * text[1] + text[2]

Strong(level) == level \in {"ATTACHED", "HUMAN_VERIFIED"}

\* parseEndorsementSourcePages throws.
PagesRefused(text, level, maxPage) ==
    IF text = Blank
    THEN Strong(level)
    ELSE \/ text = Unreadable
         \/ Len(text) > 100
         \/ \E i \in DOMAIN text : text[i] \notin 1..maxPage
         \/ \E i, j \in DOMAIN text : i # j /\ text[i] = text[j]

PagesOf(text) == Range(text)

-----------------------------------------------------------------------------
(* The draft that the form makes of an extraction.                         *)

DefaultOccurrenceType(cover) ==
    CASE cover = "AUTOMOBILE_LIABILITY" -> "COMBINED_SINGLE_LIMIT"
      [] cover = "EMPLOYERS_LIABILITY"  -> "EACH_ACCIDENT"
      [] cover \in {"PROFESSIONAL_LIABILITY", "CYBER_LIABILITY", "POLLUTION_LIABILITY"}
            -> "EACH_CLAIM"
      [] OTHER -> "EACH_OCCURRENCE"

DefaultAggregateType(cover) ==
    IF cover \in {"PROFESSIONAL_LIABILITY", "CYBER_LIABILITY", "POLLUTION_LIABILITY",
                  "UMBRELLA_EXCESS_LIABILITY"}
    THEN "AGGREGATE" ELSE "GENERAL_AGGREGATE"

FirstLimit(limits, types, fallback) ==
    LET found == {k \in DOMAIN types : types[k] \in DOMAIN limits}
        type  == IF found = {} THEN fallback ELSE types[Min(found)]
    IN  [type |-> type,
         text |-> IF type \in DOMAIN limits THEN MajorUnits(limits[type]) ELSE Blank]

EmptyPolicy(cover) ==
    [cover |-> cover,
     occurrence |-> [type |-> "EACH_OCCURRENCE", text |-> Blank],
     aggregate |-> [type |-> "GENERAL_AGGREGATE", text |-> Blank],
     common |-> [n \in Common |-> [level |-> "NONE", pages |-> Blank]]]

\* A form that is said to be scheduled counts as attached.
LevelShown(level) ==
    CASE level = "HUMAN_VERIFIED" -> level
      [] level \in {"ATTACHED", "SCHEDULED"} -> "ATTACHED"
      [] level = "NONE" -> level
      [] OTHER -> "MENTIONED"

DraftFromExtraction(d) ==
    LET found == Parsed[d]
        policy(p) ==
            [cover |-> p.cover,
             occurrence |-> FirstLimit(p.limits, OccurrenceTypes, DefaultOccurrenceType(p.cover)),
             aggregate |-> FirstLimit(p.limits, AggregateTypes, DefaultAggregateType(p.cover)),
             common |-> [n \in Common |->
                 [level |-> IF n \in found.mentioned THEN "MENTIONED" ELSE "NONE",
                  pages |-> Blank]]]
    IN  [from |-> d,
         named |-> found.named,
         policies |-> IF found.policies = <<>>
                      THEN <<EmptyPolicy("COMMERCIAL_GENERAL_LIABILITY")>>
                      ELSE [i \in DOMAIN found.policies |-> policy(found.policies[i])],
         endorsements |-> [i \in DOMAIN found.endorsements |->
             [name |-> found.endorsements[i].name,
              level |-> LevelShown(found.endorsements[i].level),
              pages |-> Blank]]]

-----------------------------------------------------------------------------
(* The fields of the review view: the drafts one edit away.                *)

UpdateDraft(draft) == {[draft EXCEPT !.named = b] : b \in BOOLEAN}

UpdatePolicy(draft) ==
    UNION {  {[draft EXCEPT !.policies[i].occurrence.text = t] : t \in AmountTexts}
        \cup {[draft EXCEPT !.policies[i].aggregate.text = t] : t \in AmountTexts}
        \cup {[draft EXCEPT !.policies[i].occurrence.type = t] : t \in Types \cap Range(OccurrenceTypes)}
        \cup {[draft EXCEPT !.policies[i].aggregate.type = t] : t \in Types \cap Range(AggregateTypes)}
        \cup {[draft EXCEPT !.policies[i].common[n].level = l] : n \in Common, l \in Levels}
        \cup {[draft EXCEPT !.policies[i].common[n].pages = t] : n \in Common, t \in PageTexts}
        : i \in DOMAIN draft.policies}

\* Another coverage takes its usual types of limits with it.
Covered(p, c) ==
    [p EXCEPT !.cover = c, !.occurrence.type = DefaultOccurrenceType(c),
              !.aggregate.type = DefaultAggregateType(c)]

UpdatePolicyCoverage(draft) ==
    {[draft EXCEPT !.policies[i] = Covered(@, c)] : i \in DOMAIN draft.policies, c \in Coverages}

AddPolicy(draft) == {[draft EXCEPT !.policies = Append(@, EmptyPolicy("OTHER"))]}

\* The button is shown only while there are several.
RemovePolicy(draft) ==
    {[draft EXCEPT !.policies = RemoveAt(@, i)]
        : i \in {j \in DOMAIN draft.policies : Len(draft.policies) > 1}}

AddEndorsement(draft, mode) ==
    {[draft EXCEPT !.endorsements = Append(@,
        [name |-> None, level |-> IF mode = "staff" THEN "HUMAN_VERIFIED" ELSE "ATTACHED",
         pages |-> Blank])]}

UpdateEndorsement(draft) ==
    UNION {  {[draft EXCEPT !.endorsements[i].name = n] : n \in Names \cup {None}}
        \cup {[draft EXCEPT !.endorsements[i].level = l] : l \in Levels}
        \cup {[draft EXCEPT !.endorsements[i].pages = t] : t \in PageTexts}
        : i \in DOMAIN draft.endorsements}

RemoveEndorsement(draft) ==
    {[draft EXCEPT !.endorsements = RemoveAt(@, i)] : i \in DOMAIN draft.endorsements}

Edits(draft, mode) ==
    UpdateDraft(draft) \cup UpdatePolicy(draft) \cup UpdatePolicyCoverage(draft)
        \cup AddPolicy(draft) \cup RemovePolicy(draft) \cup AddEndorsement(draft, mode)
        \cup UpdateEndorsement(draft) \cup RemoveEndorsement(draft)

-----------------------------------------------------------------------------
(* The form.  `ticked' is the file that was shown when the box was ticked, *)
(* `waits' the number of the submission whose answer it waits for.         *)

FreshForm(mode) ==
    [mode |-> mode, file |-> None, extraction |-> None, draft |-> None, progress |-> FALSE,
     abort |-> None, reviewConfirmed |-> FALSE, ticked |-> None, waits |-> 0, success |-> FALSE]

Shown    == form # None
StartView ==
    Shown /\ ~form.success /\ (form.file = None \/ (form.draft = None /\ ~form.progress))
ProgressView ==
    /\ Shown /\ ~form.success /\ ~StartView
    /\ form.progress \/ form.draft = None \/ form.extraction = None
ReviewView == Shown /\ ~form.success /\ ~StartView /\ ~ProgressView

\* Pages read, and then scanned pages recognized up to a limit.
Work(d) == PageCount[d] + Min({Scanned[d], MaxOcrPages})

\* As if the drop zone stayed until the first page is read.
BegunQuietly(f, d) ==
    [f EXCEPT !.file = d, !.extraction = None, !.draft = None, !.abort = count.chosen + 1]

\* The first report of progress comes before the first await of the extraction.
Begun(f, d) ==
    [f EXCEPT !.file = d, !.extraction = None, !.draft = None, !.abort = count.chosen + 1,
              !.progress = TRUE]

Init ==
    /\ form = None /\ task = {} /\ sent = {} /\ link = FALSE /\ certs = <<>>
    /\ page = [r \in Reviewers |-> None] /\ asked = {}
    /\ count = [tabs |-> 0, chosen |-> 0, edits |-> 0, fixes |-> 0, sends |-> 0, asks |-> 0]

\* A vendor's page opens with a link that still admits an upload.
Open(mode) ==
    /\ form = None /\ count.tabs < MaxTabs
    /\ mode = "vendor" => ~link
    /\ form' = FreshForm(mode)
    /\ count' = [count EXCEPT !.tabs = @ + 1]
    /\ UNCHANGED <<task, sent, link, certs, page, asked>>

\* A file that is too large, or not called a PDF, leaves only a message.
ChooseFile(d) ==
    /\ StartView /\ count.chosen < MaxChoices
    /\ form' = Begun(form, d)
    /\ task' = task \cup {[n |-> count.chosen + 1, file |-> d, left |-> Work(d) + 1, aborted |-> FALSE]}
    /\ count' = [count EXCEPT !.chosen = @ + 1]
    /\ UNCHANGED <<sent, link, certs, page, asked>>

\* The file is opened, and then page after page is read; the signal is looked at
\* before each page.
ReadOn(t) ==
    /\ t.left > 0
    /\ t.left <= Work(t.file) => ~t.aborted
    /\ task' = (task \ {t}) \cup {[t EXCEPT !.left = @ - 1]}
    /\ form' = IF Shown THEN [form EXCEPT !.progress = TRUE] ELSE form
    /\ UNCHANGED <<sent, link, certs, page, asked, count>>

\* As if only a result cleared the progress.
SettledByResult(f, t, result) ==
    IF result = None THEN f
    ELSE [f EXCEPT !.extraction = result, !.draft = DraftFromExtraction(result.of),
                   !.abort = None, !.progress = FALSE]

\* The end of processFile: its result, or an error or a cancellation, and the finally.
Settled(f, t, result) ==
    IF result = None
    THEN [f EXCEPT !.abort = None, !.progress = FALSE]
    ELSE [f EXCEPT !.extraction = result, !.draft = DraftFromExtraction(result.of),
                   !.abort = None, !.progress = FALSE]

ExtractionEnds(t, result) ==
    /\ task' = task \ {t}
    /\ form' = IF Shown THEN Settled(form, t, result) ELSE form
    /\ UNCHANGED <<sent, link, certs, page, asked, count>>

\* Nothing looks at the signal any more after the last page.
ExtractionDone(t) ==
    /\ t.left = 0
    /\ ExtractionEnds(t, [of |-> t.file, pageCount |-> PageCount[t.file]])

ExtractionCancelled(t) ==
    t.aborted /\ t.left \in 1..Work(t.file) /\ ExtractionEnds(t, None)

\* PDF.js or the recognition fails, whatever the file.
ExtractionFails(t) == t.left > 0 /\ ExtractionEnds(t, None)

Cancel ==
    /\ ProgressView /\ form.abort # None
    /\ \E t \in task : t.n = form.abort /\ ~t.aborted
    /\ task' = {IF t.n = form.abort THEN [t EXCEPT !.aborted = TRUE] ELSE t : t \in task}
    /\ UNCHANGED <<form, sent, link, certs, page, asked, count>>

Edit ==
    /\ ReviewView /\ count.edits < MaxEdits
    /\ form' \in {[form EXCEPT !.draft = d] : d \in Edits(form.draft, form.mode) \ {form.draft}}
    /\ count' = [count EXCEPT !.edits = @ + 1]
    /\ UNCHANGED <<task, sent, link, certs, page, asked>>

TickReviewed ==
    /\ ReviewView /\ form.mode = "staff"
    /\ form' = [form EXCEPT !.reviewConfirmed = ~@,
                            !.ticked = IF form.reviewConfirmed THEN None ELSE form.file]
    /\ UNCHANGED <<task, sent, link, certs, page, asked, count>>

\* As if the box kept its tick.
ReplacedTicked(f) == [f EXCEPT !.file = None, !.draft = None, !.extraction = None]

Replaced(f) ==
    [f EXCEPT !.file = None, !.draft = None, !.extraction = None, !.reviewConfirmed = FALSE,
              !.ticked = None]

Replace ==
    /\ ReviewView
    /\ form' = Replaced(form)
    /\ UNCHANGED <<task, sent, link, certs, page, asked, count>>

-----------------------------------------------------------------------------
(* What the form sends.                                                    *)

Complete(draft, maxPage) ==
    /\ draft.named
    /\ \A i \in DOMAIN draft.policies, n \in Common :
          LET e == draft.policies[i].common[n] IN ~PagesRefused(e.pages, e.level, maxPage)
    /\ \A i \in DOMAIN draft.endorsements :
          LET e == draft.endorsements[i]
          IN  e.level # "NONE" /\ e.name # None => ~PagesRefused(e.pages, e.level, maxPage)

\* An amount that cannot be read is left out without a word.  The two selects of a
\* policy offer different types.
LimitsOf(p) ==
    LET read == {l \in {p.occurrence, p.aggregate} : Readable(l.text)}
    IN  [t \in {l.type : l \in read} |->
            ToMinorUnits((CHOOSE l \in read : l.type = t).text)]

CommonOf(p) ==
    {[name |-> n, level |-> p.common[n].level, pages |-> PagesOf(p.common[n].pages)]
        : n \in {m \in Common : p.common[m].level # "NONE"}}

OthersOf(draft) ==
    {[name |-> e.name, level |-> e.level, pages |-> PagesOf(e.pages)]
        : e \in {f \in Range(draft.endorsements) : f.level # "NONE" /\ f.name # None}}

\* The endorsements of the document go with its first policy.
PoliciesOf(draft) ==
    [i \in DOMAIN draft.policies |->
        LET p == draft.policies[i]
        IN  [cover |-> p.cover, limits |-> LimitsOf(p),
             endorsements |-> CommonOf(p) \cup (IF i = 1 THEN OthersOf(draft) ELSE {})]]

Submission(f) ==
    [n |-> count.sends + 1, mode |-> f.mode, file |-> f.file, text |-> f.extraction.of,
     shown |-> f.extraction.pageCount,
     reviewStatus |-> IF f.mode = "staff" THEN "CONFIRMED" ELSE "UNCONFIRMED",
     policies |-> PoliciesOf(f.draft), draft |-> f.draft, ticked |-> f.ticked]

Submit ==
    /\ ReviewView /\ form.waits = 0 /\ count.sends < MaxSends
    /\ Complete(form.draft, form.extraction.pageCount)
    /\ form.mode = "staff" => form.reviewConfirmed
    /\ sent' = sent \cup {Submission(form)}
    /\ form' = [form EXCEPT !.waits = count.sends + 1]
    /\ count' = [count EXCEPT !.sends = @ + 1]
    /\ UNCHANGED <<task, link, certs, page, asked>>

\* The tab is closed, reloaded or led elsewhere; what it started goes on without it.
Leave ==
    /\ Shown
    /\ form' = None /\ task' = {}
    /\ UNCHANGED <<sent, link, certs, page, asked, count>>

-----------------------------------------------------------------------------
(* The server takes a submission, whose answer arrives or is lost.         *)

Waiting(s) == Shown /\ form.waits = s.n

\* A vendor is shown the receipt; the staff is led to the certificate.
Answered(s) ==
    IF ~Waiting(s) THEN form
    ELSE IF s.mode = "vendor" THEN [form EXCEPT !.success = TRUE, !.waits = 0] ELSE None

Store(s) ==
    /\ s.mode = "vendor" => ~link
    /\ s.shown <= PageCount[s.file]
    /\ certs' = Append(certs, [sub |-> s, facts |-> s.policies, of |-> <<s.draft>>,
                               status |-> IF s.reviewStatus = "CONFIRMED" THEN "confirmed" ELSE "draft"])
    /\ link' = (link \/ s.mode = "vendor")
    /\ sent' = sent \ {s}
    /\ \/ form' = Answered(s)
       \/ Waiting(s) /\ form' = [form EXCEPT !.waits = 0]
    /\ task' = IF Shown /\ form' = None THEN {} ELSE task
    /\ UNCHANGED <<page, asked, count>>

\* It is refused, or never arrives.
Refused(s) ==
    /\ sent' = sent \ {s}
    /\ form' = IF Waiting(s) THEN [form EXCEPT !.waits = 0] ELSE form
    /\ UNCHANGED <<task, link, certs, page, asked, count>>

\* The browser gives up while the request is still under way.
ConnectionLost ==
    /\ Shown /\ form.waits # 0
    /\ form' = [form EXCEPT !.waits = 0]
    /\ UNCHANGED <<task, sent, link, certs, page, asked, count>>

-----------------------------------------------------------------------------
(* The detail page: the correction editor.                                 *)

LimitDrafts(policy) ==
    LET types == SetToSeq(DOMAIN policy.limits)
    IN  [i \in DOMAIN types |-> [type |-> types[i], text |-> MajorUnits(policy.limits[types[i]])]]

\* The order of the pages plays no part.
EndorsementDrafts(policy) ==
    LET rows == SetToSeq(policy.endorsements)
    IN  [i \in DOMAIN rows |-> [name |-> rows[i].name, level |-> rows[i].level,
                                pages |-> SetToSeq(rows[i].pages)]]

CorrectionDraft(c) ==
    [named |-> TRUE,
     policies |-> [i \in DOMAIN c.facts |->
         [cover |-> c.facts[i].cover, limits |-> LimitDrafts(c.facts[i]),
          endorsements |-> EndorsementDrafts(c.facts[i])]]]

PolicyCorrections(draft, i) ==
         {[draft EXCEPT !.policies = RemoveAt(@, i)]}
    \cup {[draft EXCEPT !.policies[i].cover = c] : c \in Coverages}
    \cup {[draft EXCEPT !.policies[i].limits = Append(@, [type |-> "EACH_OCCURRENCE", text |-> Blank])],
          [draft EXCEPT !.policies[i].endorsements =
              Append(@, [name |-> None, level |-> "MENTIONED", pages |-> Blank])]}

LimitCorrections(draft, i) ==
    UNION {  {[draft EXCEPT !.policies[i].limits = RemoveAt(@, k)]}
        \cup {[draft EXCEPT !.policies[i].limits[k].text = t] : t \in AmountTexts}
        \cup {[draft EXCEPT !.policies[i].limits[k].type = t] : t \in Types}
        : k \in DOMAIN draft.policies[i].limits}

EndorsementCorrections(draft, i) ==
    UNION {  {[draft EXCEPT !.policies[i].endorsements = RemoveAt(@, k)]}
        \cup {[draft EXCEPT !.policies[i].endorsements[k].name = n] : n \in Names \cup {None}}
        \cup {[draft EXCEPT !.policies[i].endorsements[k].level = l] : l \in Levels \ {"NONE"}}
        \cup {[draft EXCEPT !.policies[i].endorsements[k].pages = t] : t \in PageTexts}
        : k \in DOMAIN draft.policies[i].endorsements}

Corrections(draft) ==
         {[draft EXCEPT !.named = b] : b \in BOOLEAN}
    \cup {[draft EXCEPT !.policies = Append(@, [cover |-> "OTHER", limits |-> <<>>,
                                                endorsements |-> <<>>])]}
    \cup UNION {PolicyCorrections(draft, i) \cup LimitCorrections(draft, i)
                    \cup EndorsementCorrections(draft, i) : i \in DOMAIN draft.policies}

\* As if one of two amounts of a type were taken.
CorrectionRefusedLoose(draft, maxPage) ==
    \/ ~draft.named
    \/ \E i \in DOMAIN draft.policies :
          LET limits == draft.policies[i].limits
              rows   == draft.policies[i].endorsements
          IN  \/ \E k \in DOMAIN limits : ~Readable(limits[k].text)
              \/ \E k \in DOMAIN rows :
                    rows[k].name # None /\ PagesRefused(rows[k].pages, rows[k].level, maxPage)

\* correctionInputFromDraft throws.
CorrectionRefused(draft, maxPage) ==
    \/ ~draft.named
    \/ \E i \in DOMAIN draft.policies :
          LET limits == draft.policies[i].limits
              rows   == draft.policies[i].endorsements
          IN  \/ \E k \in DOMAIN limits : ~Readable(limits[k].text)
              \/ \E k, l \in DOMAIN limits : k # l /\ limits[k].type = limits[l].type
              \/ \E k \in DOMAIN rows :
                    rows[k].name # None /\ PagesRefused(rows[k].pages, rows[k].level, maxPage)

CorrectionInput(draft) ==
    [i \in DOMAIN draft.policies |->
        LET p == draft.policies[i]
        IN  [cover |-> p.cover,
             limits |-> [t \in {p.limits[k].type : k \in DOMAIN p.limits} |->
                 ToMinorUnits(p.limits[CHOOSE k \in DOMAIN p.limits : p.limits[k].type = t].text)],
             endorsements |-> {[name |-> e.name, level |-> e.level, pages |-> PagesOf(e.pages)]
                 : e \in {f \in Range(p.endorsements) : f.name # None}}]]

-----------------------------------------------------------------------------
(* The detail page: what a reviewer does, and what the server decides.     *)

Undecided(c) == certs[c].status = "draft"

\* The page of a pending submission; that of a decided one has no editor.  The box that
\* says the source was reviewed, and the dialog that asks for the reason of a rejection,
\* hold nothing back: who presses has ticked, or opened it before.
PageOf(c) ==
    [of |-> c, status |-> certs[c].status, waits |-> {}, rejectable |-> TRUE,
     draft |-> CorrectionDraft(certs[c])]

LoadPage(r, c) ==
    /\ page[r] = None /\ Undecided(c)
    /\ page' = [page EXCEPT ![r] = PageOf(c)]
    /\ UNCHANGED <<form, task, sent, link, certs, asked, count>>

Pending(r) == page[r] # None /\ page[r].status = "draft"

Correct(r) ==
    /\ Pending(r) /\ count.fixes < MaxFixes
    /\ page' \in {[page EXCEPT ![r].draft = d] : d \in Corrections(page[r].draft) \ {page[r].draft}}
    /\ count' = [count EXCEPT !.fixes = @ + 1]
    /\ UNCHANGED <<form, task, sent, link, certs, asked>>

\* The buttons of a decision under way are disabled; the other one is not.
Ask(r, kind, facts, draft) ==
    /\ asked' = asked \cup {[by |-> r, kind |-> kind, of |-> page[r].of, facts |-> facts,
                             draft |-> draft]}
    /\ page' = [page EXCEPT ![r].waits = @ \cup {kind}]
    /\ count.asks < MaxAsks
    /\ count' = [count EXCEPT !.asks = @ + 1]
    /\ UNCHANGED <<form, task, sent, link, certs>>

ConfirmExtraction(r) ==
    /\ Pending(r) /\ "confirmation" \notin page[r].waits
    /\ ~CorrectionRefused(page[r].draft, PageCount[certs[page[r].of].sub.file])
    /\ Ask(r, "confirmation", CorrectionInput(page[r].draft), page[r].draft)

\* The dialog stays open while the page's own confirmation succeeds.
RejectSubmission(r) ==
    /\ page[r] # None /\ page[r].rejectable /\ "rejection" \notin page[r].waits
    /\ Ask(r, "rejection", None, None)

Decided(c, q) ==
    IF q.kind = "confirmation"
    THEN [c EXCEPT !.status = "confirmed", !.facts = q.facts, !.of = Append(@, q.draft)]
    ELSE [c EXCEPT !.status = "rejected", !.of = Append(@, Last(@))]

Expecting(q) == page[q.by] # None /\ page[q.by].of = q.of /\ q.kind \in page[q.by].waits

\* A success replaces the record and drops the draft.
Told(q, c) ==
    LET p == page[q.by]
    IN  [page EXCEPT ![q.by] = [p EXCEPT !.status = c.status, !.draft = None,
                                         !.waits = p.waits \ {q.kind},
                                         !.rejectable = p.rejectable /\ q.kind # "rejection"]]

Failed(q) == IF Expecting(q) THEN [page EXCEPT ![q.by].waits = @ \ {q.kind}] ELSE page

Decide(q) ==
    /\ Undecided(q.of)
    /\ certs' = [certs EXCEPT ![q.of] = Decided(@, q)]
    /\ asked' = asked \ {q}
    /\ \/ page' = IF Expecting(q) THEN Told(q, certs'[q.of]) ELSE page
       \/ Expecting(q) /\ page' = Failed(q)
    /\ UNCHANGED <<form, task, sent, link, count>>

\* Turned away because it is decided, or for another reason, or lost on its way.
TurnedAway(q) ==
    /\ asked' = asked \ {q}
    /\ page' = Failed(q)
    /\ UNCHANGED <<form, task, sent, link, certs, count>>

ClosePage(r) ==
    /\ page[r] # None
    /\ page' = [page EXCEPT ![r] = None]
    /\ UNCHANGED <<form, task, sent, link, certs, asked, count>>

-----------------------------------------------------------------------------
Next ==
    \/ \E mode \in {"staff", "vendor"} : Open(mode)
    \/ \E d \in Files : ChooseFile(d)
    \/ \E t \in task : ReadOn(t) \/ ExtractionDone(t) \/ ExtractionCancelled(t) \/ ExtractionFails(t)
    \/ Cancel \/ Edit \/ TickReviewed \/ Replace \/ Submit \/ Leave \/ ConnectionLost
    \/ \E s \in sent : Store(s) \/ Refused(s)
    \/ \E r \in Reviewers, c \in DOMAIN certs : LoadPage(r, c)
    \/ \E r \in Reviewers :
          Correct(r) \/ ConfirmExtraction(r) \/ RejectSubmission(r) \/ ClosePage(r)
    \/ \E q \in asked : Decide(q) \/ TurnedAway(q)

Spec == Init /\ [][Next]_vars

-----------------------------------------------------------------------------
(* Safety.                                                                 *)

\* A stored certificate holds together: its text and its facts come from the file
\* that is stored with it, however often the user replaced, cancelled or retried
\* (DocumentIntake.tsx: processFile, submit); what the staff confirmed on sending was
\* ticked while that very file was shown; and evidence that counts as attached or
\* verified names pages which that file has.
SentAsReviewed ==
    \A c \in DOMAIN certs :
        LET s == certs[c].sub
        IN  /\ s.text = s.file /\ s.draft.from = s.file
            /\ s.reviewStatus = "CONFIRMED" => s.ticked = s.file
            /\ \A i \in DOMAIN certs[c].facts : \A e \in certs[c].facts[i].endorsements :
                  /\ e.pages \subseteq 1..PageCount[s.file]
                  /\ Strong(e.level) => e.pages # {}

\* What the form or the editor shows as limits: type and amount, as far as it can be read.
LimitsShown(p) ==
    LET rows == IF "limits" \in DOMAIN p THEN Range(p.limits) ELSE {p.occurrence, p.aggregate}
    IN  {<<l.type, ToMinorUnits(l.text)>> : l \in {m \in rows : Readable(m.text)}}

\* The endorsements a screen shows with a name and a level.
EndorsementsShown(draft) ==
    (UNION {IF "endorsements" \in DOMAIN draft.policies[i]
            THEN {<<e.name, e.level>> : e \in Range(draft.policies[i].endorsements)}
            ELSE {<<n, draft.policies[i].common[n].level>> : n \in Common}
                : i \in DOMAIN draft.policies})
    \cup (IF "endorsements" \in DOMAIN draft
          THEN {<<e.name, e.level>> : e \in Range(draft.endorsements)} ELSE {})

\* The facts of a certificate are those of the last screen that was accepted for it,
\* the intake form or a reviewer's page, limit for limit and endorsement for
\* endorsement: nothing that was shown is lost on the way, nothing is added, and of
\* several reviewers and retries only one decides (DocumentIntake.tsx: submit;
\* CertificateCorrectionEditor.tsx: correctionInputFromDraft).
FactsAsShown ==
    \A c \in DOMAIN certs :
        LET history == certs[c].of
            draft   == Last(history)
            facts   == certs[c].facts
        IN  /\ Len(history) = IF certs[c].status = "draft" \/ certs[c].sub.mode = "staff" THEN 1 ELSE 2
            /\ DOMAIN facts = DOMAIN draft.policies
            /\ \A i \in DOMAIN facts :
                  {<<t, facts[i].limits[t]>> : t \in DOMAIN facts[i].limits}
                      = LimitsShown(draft.policies[i])
            /\ {<<e.name, e.level>> : e \in UNION {facts[i].endorsements : i \in DOMAIN facts}}
                  = {p \in EndorsementsShown(draft) : p[1] # None /\ p[2] # "NONE"}

\* The form is busy only while something is: the progress bar stands for the one
\* extraction that runs, which the Cancel button reaches, and the button that sends is
\* disabled for a request that is under way; after a failure, a cancellation, a lost
\* answer or a replaced document the user is never left before a dead screen (the
\* finally blocks of processFile and submit, DocumentIntake.tsx).
BusyMeansWork ==
    Shown => /\ form.progress <=> task # {}
             /\ \A t \in task : t.n = form.abort
             /\ form.waits # 0 => \E s \in sent : s.n = form.waits
=============================================================================
