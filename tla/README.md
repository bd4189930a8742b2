# WebCAF in TLA+

WebCAF is the Django application in which government organisations assess their
systems against the Cyber Assessment Framework (CAF). An organisation answers a
self-assessment and submits it; an assessor reviews it and finalises a report;
the organisation answers the report's recommendations in a Targeted Improvement
Plan (TIP); staff approve the plan. This directory holds a formal model of that
chain, its model-checked instances and machine-checked proofs about it.

Source paths below are relative to the repository (`webcaf/webcaf/...`).

## 1. The system

### How it runs

Gunicorn runs five worker processes and kills a request after 120 seconds
(`gunicorn_conf.py`). Each request is handled by a Django view that loads a row,
changes the Python instance and saves **every column** of it. There is no
`ATOMIC_REQUESTS`, no `select_for_update` and no version column; PostgreSQL runs
at READ COMMITTED. So requests on the same row interleave, a save overwrites
whatever was stored since the load, and a request may die between two saves.
The questions of this project follow from that: which promises of the program
survive overlapping requests, which need an assumption, and which are broken.

### Inventory

| Component | State it keeps | Operations | Hard behaviour | Module |
|---|---|---|---|---|
| Review (`models.py` 587-1300, `views/assessor/`) | `status`, `review_data` (responses, confirmed scope, audit trail, completion and finalised stamps), `last_updated` | edit a section, confirm system and scope, edit the System, complete, reopen, finalise, save | optimistic lock that is not atomic; two-save requests; refusal after side effects | `ReviewData`, `Review`; data: `ReviewReport`, `Lifecycle` |
| Review back office (`admin.py` 1016-1345) | same row | change form, Un Finalise, import of a workbook | form posts the data it was opened with; imports skip the usual way | `Review`, `Lifecycle` |
| TIP (`models.py` 1349-1855, `tip/`) | `status`, `tip_data` (answers, confirmation, sign-off) | answer, bulk review, confirm, submit | no lock at all; confirmation must not outlive its answers; answers are keyed by position | `Tip`; `Lifecycle` |
| TIP back office (`admin.py` 1348-1655) | same row | approve, reject, reopen, a superuser's plain Save | form posts `tip_data` back, the plain Save under any status | `Tip` |
| Self-assessment (`models.py` 173-360, `views/assesment.py`, `caf/views/factory.py`, `views/sections.py`) | `Assessment` rows; `draft_assessment` of each session | choose details, create, open, edit details, answer, confirm, submit, create the Review | the session, shared by tabs, says which row is meant; full-row saves; two saves on submission | `Assessment`; data: `Questionnaire`, `Lifecycle` |
| Framework (`caf/routers.py`, `caf/field_providers.py`, `caf/util.py`, `frameworks/`) | none | pages and their order, statements, status of an outcome, minimum profile | order, first and last elements | `Framework` (`GetStatus` in `Assessment`) |
| Workbooks (`utils/excel_exporter.py`, `utils/excel_importer.py`, `admin.py`) | a file | lay out, fill in, check, import | row arithmetic; blank cells | `Workbook`, `Lifecycle` |
| Version history (`models.py` 1189-1265) | history rows | number, list, retrieve versions | reopening, unchanged completions | `Lifecycle` |
| Reports (`templatetags/`, `utils/review.py`, `utils/to_spreadsheet.py`) | none | progress, reminders, groups and lists of recommendations, spreadsheet | the same rule worked out in several places | `ReviewReport`, `Lifecycle` |
| Organisations, accounts, profiles, systems (`admin.py` 347-531, `views/user_profiles.py`, `views/system.py`, `auth.py` 32-96) | master data | CSV import, forms, accounts made at sign-in | import without transaction; addresses compared in four ways | `Directory` |
| Log-in, second factor, sessions (`session.py`, `auth.py`, `middleware.py`, `views/account.py`, `two_factor_auth.py`, `organisation.py`) | session rows, cookies | sign in and out, verify, choose and switch profile, expire | a request saves its whole copy of a session that tabs share; order of middleware | `Access` |
| Roles (`utils/permission.py`, mixins) | profiles | allow, read only | `can_edit` exists on some instances only | guards of all |
| Configuration (`models.py` 431-512) | periods | pick by date | rollover between two reads | none |
| Notifications (`notification.py`) | none | send with retry | one failing address stops the rest | none |
| References (`utils/references.py`, `models.py` 43-60) | `reference` | arithmetic on the key, second save | crash between two saves | none |
| Data export, analysis, seed commands | none | read everything, write files | conversions | none |

Components meet in these places: a sign-in finds the account and the account page the
profile every role check looks at (`account.py` 80); submission creates the Review
(`sections.py` 96); finalisation creates the Tip (`models.py` 1136); a Tip reads
the recommendations of its Review (`utils/review.py`); the review pages edit the
System of the assessment (`views/assessor/review.py` 512); imports of the back office
create any of these rows (`admin.py` 407, 808, 1206).

What makes each component correct:

* **Review**: a closed report changes only by being reopened or finalised; stamps
  and status agree; a finalised report is never rewritten and has its Tip; no edit
  is lost; an organisation lead does not decide (the repository's README even has it read
  only, which is not so, see below); a change of the System is in the audit trail.
* **Tip**: a confirmation is about the stored answers, and those are the answers
  the lead saw; a submitted plan is complete, signed by a lead and read-only;
  approval changes the status only.
* **Assessment**: what is submitted is complete, final and reviewed; a confirmed
  status follows from the answers; only drafts are edited; a system has one
  assessment in a period.
* **Data and reports**: what was filled in survives the workbook; progress is shown as
  complete exactly when the next step is allowed; a completed report can be built, has
  every recommendation once, and stays retrievable under its number.
* **Directory**: an address stands for one person; importing again repairs and repeats
  nothing; profiles are changed from within their organisation.
* **Access**: a session acts with a profile of its user, after the second factor; an idle
  session ends; nobody is redirected for ever.

## 2. The modules

| Module | What it is |
|---|---|
| `ReviewData` | content of one Review and the in-memory methods that change it |
| `ReviewLifecycle` | abstract specification: one review, every operation atomic on its current content |
| `Review` | the row, the System, the Tip and the requests, each with its own copy |
| `MCReview`, `ReviewProofs` | bounded instances; theorems |
| `Tip`, `MCTip`, `TipProofs` | the plan; bounded instances; theorems |
| `Assessment`, `MCAssessment`, `AssessmentProofs` | sessions and assessments; bounded instances; theorems |
| `Directory`, `MCDirectory`, `DirectoryProofs` | organisations, accounts, profiles, systems; bounded instance; theorems |
| `Access`, `MCAccess`, `AccessProofs` | browsers, tabs, sessions, middleware; bounded instance; theorems |
| `Framework` | objectives, principles, outcomes, statements; the pages in order; status and profile rules |
| `Questionnaire`, `Workbook`, `ReviewReport` | the operators on answers, on template spreadsheets, on an assessor's response |
| `FrameworkProofs`, `ReportProofs` | lemmas about those operators: pages and their order, shares, groups and lists |
| `Lifecycle`, `MCLifecycle`, `LifecycleProofs` | one system through one period with that data; bounded instance; theorems |

There are two kinds of composition. `Review`, `Tip` and `Assessment` keep the data
opaque and look at overlapping requests. `Lifecycle` puts their operations in sequence,
one request a step, and has the data: what the pages of one component rely on
in the data another one wrote.

### Review

`row` is the stored review, `updated` its `last_updated` (a counter: no two writes
share a time stamp), `system` and `tip` the rows a review request also writes, and
`req[r]` a request in progress with `base`, the instance it loaded, and `stamp`,
the `last_updated` it was loaded with. `Load` is `get_object` of a POST; the
operation is remembered in `op` and applied (`Result`) when `save()` is called.

`Review.save` is three actions. `CheckSave` is the read of `old` and the three
checks of models.py 1164-1183 (`SaveAllowed`), `RefuseSave` the `ValidationError`,
`WriteRow` the UPDATE of all columns. Between `CheckSave` and `WriteRow` other
requests run. Requests with more than one database effect have more steps:

* `SystemAndScope`, `WriteTouch`, `ReadSummary`, then a second save: the view calls
  `super().form_valid`, which saves, before it records the confirmation;
* `FinaliseReport`, `CreateTip`, then save: `finalise_review` is a transaction of
  its own;
* `SaveSystem`, `RecordChange`, then save: the System is committed first.

The back office adds `OpenChangeForm` and its two ways of posting: the instance is
loaded again and overwritten with what the page carried, so the lock compares
the time stamp of the POST (`PostChangeForm` renews `stamp` and keeps `base`).

A completion or finalisation stamp is represented by the request that wrote it:
who and when are told apart, which is all the comparisons of `save` need. A request
that gunicorn kills takes no further step.

### Tip

A request is two steps, because between loading and saving it touches its
instance only: the action that loads the row and makes `held` of it, and `Save`.
The page whose content comes back has a step of its own: `OpenChangeForm` is the GET
of the admin form, whose `tip_data` the POST sends back (`Posted`): with the buttons Approve,
Reject and Re Open, or with a superuser's plain Save (`SavePage`), which tests no status and
keeps the one the row has by then. `mixed` counts the plain Saves of pages that showed another
status; two of the properties speak of the time before the first. The page of
answers carries none: `ConfirmStoredAnswers` confirms what is stored at its POST. Recommendations are fixed, split into
`Priority` and `Other` (the bulk form acts on the latter). `confirmation` keeps the
confirmed answers as a history variable: the code stores who and when.

### Assessment

A user is one browser session. `session[u]` is the `draft_assessment` entry:
assessment id, system, profile, review type. Choosing details are single-step
requests (`CreateDraft`: `get_or_create` under the unique constraint). The others load
a row (`Hold`) and save it (`SaveDraft`, `SaveSubmission`). Confirming an outcome
loads twice, as the code does: `JudgeOutcome` works out the status, `ConfirmOutcome`
loads again and stores it. Submission saves twice: `SaveSubmission`, `InitiateReview`.
`Abandon` is a request that fails or is killed at any of these points. `EditDetails`
checks the assessment of the URL and edits the one of the session, as
`EditAssessmentView` does.

`GetStatus` condenses the 27 rows of `assessment-rules` (caf32, which every caller
uses): any statement of "not achieved" decides, then all of "achieved", then all of
"partially achieved".

### Directory

`accounts` is the table of django users in the order of their ids, `profiles` that of
`UserProfile`, `orgs` and `systems` the master data. An address is a mailbox and a
spelling (`Spellings`), because the code compares addresses exactly (`ImportAccounts`,
`FormAccounts`), ignoring case (`AccountsOf`), after lowering them (`Lowered`) and after
lowering the domain (`Normalised`). The import is one action per write: `imp` says in
which row and column it is; `ImportStops` may end it between any two. Several forms of several
senders are under way, each in four steps between which anything else may happen: `Post`, the
check of the sender's role (`UserRoleCheckMixin.dispatch`); `ReadSender` (or `ReadNoSender`),
which reads the sender's profile again and notes its organisation; `ReadEdited`,
`ReadRemoved` or `ReadSystem`, which look up what the form is about; and the save of what was
read (`SaveEdit`, `SaveCreate`, `SaveRemove`, `SaveSystem`), or `Refused`. A form keeps the
organisation and the ids it read, no more, because the save writes the other columns from
what was posted. So an edit of a profile that was removed after it was looked up inserts it
again. `quiet` records that nothing wrote beside the import.

### Access

`row` is the session table, `jar` and `lastOrg` the two cookies of a browser, `tab[t]` what
a tab is doing. A request is two steps: one that runs the middleware in the order of
`settings.py` and the view on the copy it loaded (`Serve`: `TimeOut`, `Divert` or a view), and
`Respond`, which saves the whole copy, sets cookies and follows a redirect. `active` is the
time stamp of the idle timeout, with two ages that matter. Several tabs interleave, people
take turns at the browser, and `EditProfile` gives profiles to others meanwhile.

Abstractions: the provider, one-time codes and Django's views are external (any code may be
right); anonymous sessions carry nothing; a session row that no cookie or request names is
as good as deleted; `/public/` behaves as "/"; while no period is open the account page may
answer 500; `Age` happens only while no request holds the session, because gunicorn ends a
request long before the 90 minutes. Closing the browser drops the session cookie
(`SESSION_EXPIRE_AT_BROWSER_CLOSE`) and keeps `last_org`.

### Framework, Questionnaire, Workbook, ReviewReport, Lifecycle

`Framework` takes the YAML as constants and has the list of pages `Elements` in the order of
`_traverse_framework`. `Questionnaire` is `assessments_data` by outcome: statements ticked,
comments as one value, whether it is confirmed and with which status. `Workbook` computes
the row and column of every cell as `excel_exporter.py` does and follows the mapping sheet
as `excel_importer.py` does; a workbook is the values of its mapped cells. `ReviewReport` has
the assessor's response by outcome (decision, recommendations by title), comments, scope
and details, and the readers of it: completeness, percentage, groups of recommendations,
tabs. `Lifecycle` holds the rows by status, the page the lead is on, the review, the
completed rows of its history and the actions of the plan by number of the recommendation;
each page's handler is an action. `EditDetails` changes profile and type of the draft;
`EditSubmitted` is the same POST in a session that still has the submitted assessment as its
draft (`stale`), which rewrites the submitted row.

Choices: the parties follow links (an assessor sees the pages of the review once its scope is
confirmed; principle pages exist in `Elements` and nothing links to them); a superuser
imports the workbook he previewed; a peer review's recommendations carry no title, which is
one title here.

## 3. What is checked

`SerialSaves` (Review) and `SerialRequests` (Assessment) FALSE is the deployed
system. TRUE removes one kind of interleaving, and with it separates what the code gets wrong by itself from what
only overlapping requests break.

### Runs that pass

| Run | Question | Instance |
|---|---|---|
| `review_serial` | If saves do not overlap, does the optimistic lock make the stored review follow `ReviewLifecycle`? What does a lead write? | 3 requests (one a lead's), 1 section, 2 systems, 6 writes |
| `review_overlap` | What survives overlapping saves? `CompletionRecorded`, `FinalisedHasTip` | 3 requests, 5 writes |
| `review_backoffice` | Can an old admin page rewrite a finalised review? | 2 requests, 6 writes |
| `tip_overlap` | Do confirmation, completeness and the lead's signature survive unlocked saves and old admin forms? (4.6 million states) | lead, colleague, a superuser; a priority and another recommendation; one plain Save under another status |
| `assessment_overlap` | Is every submission complete whatever stale copies are saved? | lead and colleague, 1 system, 2 outcomes, 2 answers, unbounded |
| `assessment_serial` | Without overlap, but with stale sessions and killed requests: current statuses, reviewed implies submitted, submission final | lead and colleague, 2 systems, 2 assessments, unbounded |
| `directory_import` | Two imports that may stop anywhere, beside forms and sign-ins: who can sign in, are there twin advisors, what has a finished import done, who changes a profile? (713 thousand states, up to the exchange of the two forms) | two forms, each posted once; 3 mailboxes with different spellings, one of them staff; 2 organisations, the lead department after its member in the file; at most 5 accounts, 4 profiles, 2 imports |
| `access` | Whatever two tabs save over each other: whose profile, after which factor, do idle sessions end, does every request settle? (231 thousand states, with liveness) | one browser, 2 tabs, a user and a member of staff taking turns, 2 profiles, one of which may change hands, 3 session keys |
| `lifecycle` | Do the parts that read the same data agree, all the way from the first answer to the plan? (1.5 million states) | 2 objectives of one outcome each, statements of all three levels, 3 plans (one per type of review), 3 workbooks, 2 titles, 3 completed rows |

Review: `MaxWrites` is the only bound on behaviours: requests on a review start only after
fewer writes. A review needs two writes to be completed, one to be finalised, one
to be reopened, so five or six reach every status with two more requests still
holding older copies. Two copies and a writer are enough for every lost update: a
third request adds none that a second cannot make. The Tip state space is finite but
for the count `mixed`, bounded by `MaxMixed`: after one such Save the properties that
speak of none are void and `SignedByLead` is checked on. The Assessment state space is finite
without a bound (`Ids` bounds the number of assessments, and two
are what a system or a session can confuse). Deadlock is checked there; the Review
runs disable the check because the bound stops the system.

Directory: `MaxAccounts` lets every mailbox have the account it starts with and one more,
`MaxProfiles` every address of the file a profile and one more; a second import is what
finds the remains of the first. Two forms are what it takes for one to remove or change the
sender or the target of the other between any two of its steps; each is posted once, for a
profile or system that has been made, and the two are interchangeable (symmetry). Imports run one
after the other: two that overlap are not in the instance, and `get_or_create` without a unique
constraint would let them make twin advisors. The run disables the deadlock check because these bounds
stop it. Access is bounded by what each tab may ask for (`Visits`; the other paths are
reached by redirects), by `Edits` and by the number of keys: one of the cookie and one in
each tab's hands. `AdminVerification` is FALSE, the default.

Lifecycle: one objective could hide an error in the order of pages, two have a first and a
last; one outcome has no statement of the second level and the other has all three, which is
what the template and the forms tell apart. A title that occurs twice and one that does not
make groups of different size in the wrong order. Bounds, each named in the module: no draft
is worked on once there is a review (`Drafting`) and none is left when a review is imported;
after the first version only outcome A1.a is edited (`Reworked`); comments and details are
filled in one order (`FillOrder`); the history has at most three completed rows (`MaxRows`):
a version, a second one and a finalisation; the old session edits the submitted row once,
before the review is begun or when it is final (`EditSubmitted`), and to one other profile
and type (`StalePlans`).

Fairness: the specifications of Review, Tip, Assessment, Directory and Lifecycle have none,
and only safety is asked of them. `Access` assumes weak fairness of `Serve(t) \/ Respond(t)`:
a worker answers every request (or is killed, and the server answers), and a browser follows
redirects. Nobody is assumed to click, to sign in or to come back from the provider.

What the less obvious properties say:

* `RoundTrip`: every mapped cell of the template is its own, and what is typed into it is read
  back as the same answer of the same outcome; the strict import refuses exactly the workbooks
  with an outcome that has no status.
* `ProgressIsHonest`, `ReviewProgressIsHonest`, `RequiredIsAsked`: percentages and reminders
  (templates) against completeness (models), which share no code. `RequiredIsAsked` is of each
  outcome: nothing reminds of the scope, the comments and the details a review also needs. For a peer review 97 per cent
  is all that can be asked for: the areas of good practice and improvement count and are optional.
* `ReportCanBeBuilt`: a completed review has everything its report looks up. It is an induction
  over requests: `CreateReportView` checks nothing, but no page lets a decision be taken back.
* `SubmittedAnswersStay`: no second draft, import or old session replaces the answers of the
  submitted row. Its profile and type do not stay (`EditSubmitted`); the property says that
  nothing else changes them.
* `LeadsOnlyNoteChanges`: a lead's request writes nothing of its own to a review. Either the
  row stays, or it gets the note of a changed System on its current content, which withdraws the
  confirmation of the scope; a completed review gets not even that.
* `ChangedFromWithin`: the check of the organisation is made on profiles that may be changed or
  gone at the save. It holds nevertheless because no form or import ever gives a profile
  another organisation, which only an invariant over all profiles and all forms under way shows.
* `VersionsAreKept`, `CompletedIsLatestVersion`: the arithmetic of versions over a history in
  which reopening, finalising and unchanged completions add rows or do not.
* `ActionsFitUntilRollback`: the plan finds its recommendation by position, which is right
  because a final review is closed, and only as long as it is.
* `HoldersCanSignIn`, `NoTwinAdvisors`, `UsernameNamesMailbox`: no writer makes a second account
  or profile that another writer's look-up would then trip over.
* `IdleStaysIdle`, `IdleIsSignedOut`, `EveryRequestSettles`: sessions without the second factor
  included (see below), a tab cannot refresh a session
  that timed out in another; the expiry page is exempt, so that redirects end there.

### Runs that find a disagreement

Each checks one property that quotes a document, docstring, comment or test, and TLC
finds a behaviour of the code against it.

| Run | What happens |
|---|---|
| `review_lost_update` | an edit that passed the checks before a completion is written after it: the closed review is changed and reopened |
| `assessment_stale_session` | the details of a submitted assessment are edited through a session that still points at it |
| `report_mixed_versions` | the spreadsheet of version 1 has its own recommendations and the decisions of the review as it is now |

### Other disagreements seen in the code

The models have the steps that lead to these; no run is kept for them.

* An organisation lead is not read-only on reviews (README.md:39-46 of the repository): the page
  that edits the System is open to it (`SaveSystem`). A POST changes the System, also that of a
  completed review, whose own save is then refused; on an open review it adds to the audit trail
  and withdraws the confirmation of the scope (`RecordChange`).
* A superuser's plain Save puts the `tip_data` of the page under the status the plan has by then
  (`TipAdmin.save_model` falls through, `submit_line.html` keeps the buttons): a submitted
  plan with unconfirmed answers, or a confirmation that comes back under `in_progress` and
  outlives the next answer (`SavePage`).
* The inactivity timeout is documented for verified users only (`session.py` 4-5, 10, 33-36:
  `is_verified()`), and the code asks `is_authenticated` (59): sessions that have not passed the second
  factor expire too (`TimedOut`).
* The same docstring excludes the logout URL from the timeout (12-13), and the code excludes the expiry
  page only (63): the log-out of an idle session is redirected there, and the provider is not told
  (`TimeOut` before `LogoutView`).
* A form goes through although its sender was demoted or removed after the check of the role, and
  an edit brings back, under its old id, a profile that was removed after it was looked up
  (`SaveEdit`).
* An old session changes the profile and type (and the system, of which `Lifecycle` has one)
  of a submitted assessment even while its review is under way or final (`EditSubmitted`; run
  `assessment_stale_session`).
* A colleague's answer that was loaded before a submission is saved over the submitted plan
  and puts it back in progress (`Tip`, `Save`): README.md:70 of the repository has submitted
  plans "read-only for everyone".
* A request killed after the submission is saved leaves no Review, and no way to submit
  again (`Assessment`, `SaveSubmission`, `Abandon`).
* A refused or killed finalisation leaves its Tip behind (`CreateTip`, then
  `RefuseSave`), against "created when a Review is finalised".
* The System is changed, and the save of the audit trail is refused (`SaveSystem`,
  `RecordChange`, `RefuseSave`).
* An approval posts back the answers of an earlier submission: a plan rejected,
  corrected and submitted again while the form was open (`ApproveTip`). What is
  approved is still complete and signed by leads.
* The lead confirms answers that changed since the page was shown.
* With overlap, a status worked out from the old answers is stored with the new
  ones: `ConfirmedStatusIsCurrent` fails when `SerialRequests` is FALSE.
* A system chosen before its assessment was submitted gets a second draft; so does an import
  of a draft. It can be filled in and never submitted (unique constraint).
* A review type posted from another tab undoes the type the enhanced profile imposes.
* A workbook with blank statuses, imported as a draft, counts as complete and can be submitted;
  the report of its review then fails (`Parse`, `CanBeBuilt`; `partial` marks such rows).
* An assessment imported as submitted has no Review until one is imported. An imported review
  carries both stamps and no Tip: completed, it is final at once, and can be neither finalised,
  reopened nor planned for (`ImportReview`).
* After the back office reopens a final review, the actions of its plan keep their numbers and
  may be about other recommendations (`Rollback`; `ActionsFitUntilRollback` stops there).
* An independent review can show 100 per cent without the comments on its objectives, and is
  not ready.
* A form posted for a profile that was removed meanwhile makes a profile without an
  organisation (`SaveEdit`).
* An address written with capitals in the CSV file can end with two accounts, after which
  sign-in refuses both; with capitals after the @, a second import finds no account of that
  address and fails on its user name (`ImportAccount`).
* A session goes on with a profile that was given to another account (`CurrentProfile`).

Not in the models: the workbook exporter registers the same validation objects on every
sheet, so that each sheet's drop-downs accumulate the cells of the sheets before
(`excel_exporter.py` 49-64); a lead's upload of a workbook reports success and stores nothing
(`views/assesment.py` 635-651); `get_when_the_status_changed` (`caf/util.py` 68) looks for a key
that is never stored; the multiplier of assessment references (11547) has a factor in
common with 30, so that references repeat after 2.7 million assessments, against "without the
need to check for uniqueness" (`utils/references.py` 19).

None of the violations relies on the system stopping, except that a killed request is
represented (by stopping or by `Abandon`).

## 4. What is proved

The theorems hold for every number of requests, sections, systems, recommendations,
outcomes, assessments, browsers, tabs, people, organisations, rows of a file and versions:
the bounds of the instances are constants of which nothing is assumed but that they are
numbers. Every invariant and action property of a passing run is stated by a theorem; a
theorem about Review or Assessment with `SerialSaves` or `SerialRequests` among its
assumptions is about the system in which saves do not overlap, as its run is.

* **ReviewProofs**. `CompletionRecorded` and `FinalisedHasTip` are not inductive: a
  request writes its own old copy. `CInv` says that *every copy*, stored or held, is
  coherent (stamps agree with its status, a finalised copy is a completed one whose
  Tip exists) and fits its operation. Since every write stores a copy with one operation
  applied, overlap cannot break it. `TypeCorrect`, `CompletionIsRecorded`,
  `FinalisedReviewHasTip` follow.
  With the back office (`BackOfficeSpec`) coherence is lost, because a form posts the content
  of an old page on a new stamp; what remains is `OInv`: each copy and each open page that
  carries the stamp of finalisation has its Tip. Hence `BackOfficeTypeCorrect`, `StampsHaveTips`.
  With `SerialSaves`, `GInv` says that one request at a time is between its check and its
  write (Exclusive) and that what was checked is still so (Checked), for old pages too: from it
  `FinalisedIsFinal`. `LInv` adds that a copy with the current stamp equals the row
  (Fresh). Then a write is the abstract operation on the current row and all other steps stutter:
  `ReviewRefinesLifecycle`, `LeadsNote` and `ClosedUntilReopened`, the promise
  that `review_lost_update` shows broken by overlapping saves.
* **TipProofs**. Same idea: a plan is Sound if its confirmation is about its answers,
  its status agrees with confirmation, sign-off and completeness, and who confirmed and
  signed it are leads; every held or posted copy is Sound. A plain Save under another status breaks
  this; the part about who confirmed and signed survives it, since it is about `tip_data` alone. Hence `TipTypeCorrect`, `ConfirmationIsOfAnswers`,
  `SubmittedPlanIsComplete` and `SubmissionIsSigned`.
* **AssessmentProofs**. A row is Sound if, submitted, all its outcomes are confirmed.
  Every instance about to be saved is Sound, and the id of every request and session
  names an existing row. Hence `AssessmentTypeCorrect` and `SubmissionIsComplete`.
  With `SerialRequests`, `SerialInv` adds that one request at a time is busy (Alone) and that
  what it knows is still so (UpToDate): the status it worked out is that of the row's
  answers, its instance has the row's status or submits it. Sessions may be as stale as they
  like. Hence `ConfirmationIsCurrent`, `ReviewsAreOfSubmissions`, `SubmittedStaysSubmitted`.
* **AccessProofs**. A session is Good if the profile it names was its user's at some time
  and the user has passed the second factor or is staff. A request saves the copy it
  loaded, so Good has to hold of every copy, stored or held. `CopyInv` says the rest:
  a copy and its row can differ only while neither is idle for too long, because what ages
  is a session no request holds, and what passes the timeout middleware was not idle.
  Hence `ProfilesWereOwned`, `ProfilesAfterSecondFactor` and `IdleIsNeverRevived`. The weak
  fairness of `Spec` plays no part.
* **DirectoryProofs**. `TInv` has the tables and the place of the import: wherever it is, its
  row, organisation and account exist (`DirectoryTypeCorrect`). A step of `Next` is split once
  into what it does to accounts, to profiles and to organisations; each property is then an
  induction over one of these. `OneMailboxPerAccount` and `AdvisorsAreNotDuplicated` say that
  the writers keep the tables clean, and assume them clean at the start.
  `PlainHoldersCanSignIn` needs `PlainInv`, which counts accounts by user name as well as by
  address, because `get_or_create` and sign-in look at one each. `ImportsAreComplete` is an
  induction over two passes (`ImportedSoFar`): behind the import, every row is handled; in its
  own row, every address before its column; in the second pass, every parent. It assumes
  `FileIsConsistent`: the reference of a row is an organisation there was before, or the name in the
  row, and two rows of one organisation agree on its lead. The import does not check that, and
  without it a later row may undo an earlier one. `ProfilesChangedFromWithin` is the one action
  property. What a form has read is stale when it is used, so its invariant (`HomesInv`) says that there is
  a home for every profile id ever used, removed ones included, at which the profile is if it exists and
  at which every form under way has read it; a step extends the homes by those of new ids.
* **FrameworkProofs, ReportProofs**. Which pages there are and which comes next
  (`ElementsFacts`, `NextPageFacts`), what `FlattenSeq` and `FoldLeft` return, that a share is
  100 per cent only of the whole (`PercentageIsHonest`); that a set put in order has each element
  once (`InOrderIs`), that the groups of equal titles cut each list into pieces without overlap
  (`GroupsOfIs`, `ListedIs`).
* **LifecycleProofs**. `LifecycleInv` joins what the pages rely on: a draft while its pages
  are open, answers where a summary is shown (`DraftInv`); a status where something is confirmed,
  and confirmation where something is submitted, unless a workbook left it blank (`RowsInv`); a
  decision of each outcome once the create-report page is offered, and the last row of the history as
  the review says while it is completed (`ReviewInv`); a plan for a final review only
  (`PlanInv`, without which `ActionsFitUntilRollback` is not inductive); an old session only of an
  assessment that was submitted. From it, with the lemmas
  about the operators: `LifecycleTypeCorrect`, `SummariesHaveAnswers`, `DraftProgressIsHonest`,
  `AskedIsRequired`, `ReviewProgressHonest`, `ReportsCanBeBuilt`, `RecommendationsAreListedOnce`,
  `ActionsFit`, `SubmittedAnswersNeverChange`.
  `LatestVersionIsTheReview` and `VersionsNeverChange` rest on `AppendVersion`: one more row in front
  of the reversed history adds one version or none, and renumbers none.
  `WorkbookRoundTrip` rests on the layout: each outcome owns the rows strictly between its top row and
  the row below its longest column (`TopRowsAre`: the next outcome begins there), so two mapped
  cells that meet belong to one outcome and one place in it (`CellsAreApart`). A cell then has one
  reader, and what was typed into it is what is read (`ReadBackIs`, `MissingIs`).

Recursion. The models have no RECURSIVE operator; folds and flattened sequences are recursive
functions, which the proofs unfold as a CHOOSE whose witness has to be shown to exist
(`FlattenExists`, `FoldExists`, `VersionsExist`). The induction this needs is over *sets* of numbers
(`SetInduction`, from the library's well-foundedness of `<` and its minimum principle): the
library's induction theorems, which take an operator, cannot be instantiated by the provers.

Assumptions on constants, each evaluated by TLC on the instances:

* `None` is none of the values it stands beside: `NoneAssumption`, `AssessmentAssumption`,
  `RowAssumption`, `ConfirmationAssumption`, `SessionAssumption`, `CommentsAssumption` and the two
  `RecordAssumption`s; `Refused` is no content of a workbook (`RefusedAssumption`);
* read-only requests are requests, each session of `Assessment` has a role, session keys
  are a finite set of numbers and profiles are numbers (so that there is a least one),
  `NotProvided` is a text, an enhanced profile comes with the independent review type among the
  choices;
* `DirectoryAssumption`: the tables at the start keep the constraints of the database (unique
  user names, a profile refers to an account) and the bounds;
* `FrameworkAssumption`, `CodesAssumption`: the YAML file is a tree with no empty node, each
  outcome has statements of "achieved" and "not achieved", and its codes, being keys, do not repeat;
* `LifecycleAssumption`: the choices offered to the actors are ones the forms let pass.

Model-checked only: the liveness properties of Access, `EveryRequestSettles` and
`IdleIsSignedOut`, which need fairness and are out of the prover's reach; and the three runs that
find a counterexample, about which there is nothing to prove. `TypeOK` of Review is proved
for both specifications, `Spec` and `BackOfficeSpec`.

## 5. What is not modelled

* Review: JSON edited by hand by superusers, adding, deleting and reverting reviews in the
  admin site, the System pages outside the review, lost updates of the System itself, e-mails.
* Tip: e-mails, `tip_data` edited by hand by superusers, history restore. The statuses `completed`
  and `cancelled` are declared and set nowhere; `reset_recommendation_action` is
  called nowhere.
* Assessment: several organisations and periods, admin edits, parallel requests of one
  session, and the page a tab shows: answers go to the assessment of the session.
* Directory: the admin pages of organisations, users and profiles (any value may be typed
  there), contact details.
* Periods: one query picks the period from dates, and rows of different periods never meet in
  an operation. What goes wrong at a rollover is a date read twice within a request.
* Notifications: a loop over an external service; nothing stored depends on it.
* References: an arithmetic function of the primary key over numbers out of TLC's reach.
* Data export, analysis and seed commands; wording, layout and styles of pages, PDFs and
  spreadsheets.

## 6. Plan

1. **Done**: Review with its abstract lifecycle, Tip, Assessment, first theorems.
2. **Done**: Directory, Access, and Lifecycle with Framework, Questionnaire, Workbook and
   ReviewReport; the theorems about Access.
3. **Done**: the theorems about the back office, serial saves and requests, Directory, and the
   data of Lifecycle.
4. Theorems left: that `Tip` submitted and read by staff is an implementation of an abstract plan
   (as `ReviewLifecycle` is for Review); that each page of `Elements` has the one before it as
   predecessor, for the pages no property mentions.
5. A rollover of periods beside `Assessment`, if the program comes to read the period more
   than once in a request that writes.
