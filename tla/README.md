# Event roster: specifications

TLA+ models of the Cloudflare Worker in `src/apps/worker` (with the contracts and
domain packages it uses) and of the web application's session client and pages in
`src/apps/web`, the TLC configurations that check them on small instances, and proofs
that TLAPS checks: of every safety property the passing runs check, and of both
refinements.

Contents: 1. the system, 2. the idea of the models, 3. the modules, 4. the runs,
5. fairness, 6. what is proved, 7. what the models say about the code, 8. what is
not modelled, 9. plan.

## 1. The system

One Worker serves a React application and a JSON API over one D1 (SQLite)
database. The Worker keeps nothing in memory between requests, so its state
is the database, and every component of it is a set of handlers over some of the
tables. The browser keeps the rest: the session of a tab, and what each page shows
and waits for. The components, the state they keep and what they do:

| Component | State | Operations | Correct means |
|---|---|---|---|
| Project lifecycle (`services/projects.ts`) | `projects` | create, PATCH, transition, reopen, soft-delete, restore | no lost update; closure and deletion columns consistent; start and end dates in order; revision counts changes |
| Automatic close (`services/project-expiration.ts`, cron in `index.ts`) | `projects` | close on arrival, close after a lost guard, daily run over expired rows | a closure is recorded once and only for an expired row; an expired project does not stay open |
| Project organizations (`services/project-organizations.ts`) | `project_organizations` | link one, link several, exclude, add again | excluded organizations with history stay in the figures |
| Roster (`services/roster.ts`, `packages/domain/src/summary.ts`) | `project_roster_entries`, `project_expected_snapshots` | add, reactivate, cancel; figures per organization | the figures count everybody and add up; what was expected at the start never changes |
| Participants (`services/participants.ts`) | `participants` (shared by all projects) | create with an entry, update with the entry | updates from two projects do not overwrite each other; managers stay in their scope |
| Bulk registration (`services/bulk-participants.ts`) | `participants`, entries | create up to 30 participants at once | a change of the set of names is noticed |
| Excel import (`services/imports.ts`) | `participants`, entries, `import_runs` | resolve rows to participants, upsert | the participants decided on are the ones written |
| Corrections (`services/history-corrections.ts`) | the same tables, of closed projects | add, create, patch, bulk, import, link, exclude | history changes only as corrected; expected counts stay |
| Guarded batches (`db/atomic.ts`, `operation_guards`) | - | `INSERT` of a 0/1 row and a trigger that aborts on 0 | a batch takes effect entirely, on a row that allows it, or not at all |
| Organizations and managers (`services/organizations.ts`) | `organizations`, `user_organizations` | create, edit, deactivate, delete, restore, assign, replace, remove | the leader replaced is the one shown; no operator is assigned; a session has the assignments of now |
| Accounts (`services/admin.ts`) | `users`, `password_credentials` | create, change role or activity, reset password | a change revokes the sessions it must, and is of the row read |
| Sessions (`services/auth.ts`, `middleware/authentication.ts`) | `auth_sessions`, `refresh_tokens` | login, refresh with rotation, logout, password change | a token is used once, reuse revokes the family; a session stands for the password of now |
| Bootstrap and recovery (`services/bootstrap.ts`, `recovery.ts`) | `bootstrap_locks`, `recovery_codes` | one first account, one-time codes | the bootstrap ends once and for all |
| Rate limit (`services/auth.ts`) | `login_attempts` | count a failure, block, clear | the limit holds |
| Web session client (`apps/web/src/lib/api.ts`, `AuthProvider.tsx`) | memory of a tab: session, epoch, running refreshes; the cookie | request with retry after 401, refresh, login, logout, change of password | one session at a time; a late answer does not undo a logout or login |
| Project page (`ProjectDetailPage.tsx` and its panels and dialogs) | the row shown, the dialog, waits, requests under way | open, edit, transition, delete, restore, correct, change roster or organizations | late answers do not show; no wait without a request; the log has no gaps |
| Organization page (`OrganizationDetailPage.tsx`, `OrganizationManagersPanel.tsx`) | the row shown, two locks, the search | rename, (de)activate, delete, restore, change managers, search | the user's own change is shown |
| Import page (`ImportWizard.tsx`) | workbook, sheet, rows, choices, result | choose, validate, tell namesakes apart, commit | what is committed is what was validated |
| Other pages, audit and export reads, HTTP routes, scripts | `audit_logs` (append only) | reads, parsing | - |

How they interact. On the Worker, all through the database. A handler reads rows, checks them,
and submits one D1 batch whose first statement is the guard: it repeats the
conditions on the rows as they are at that moment. D1 runs a batch as one
transaction; between the reads and the batch anything may happen. The project's
`revision` serialises what belongs to a project (the client sends the revision it
has seen, the guard requires it, the batch increments it), `session_version` what
concerns the rights of an account. Not under the revision, and where it gets hard:
participants (shared by projects), organizations and assignments (administered apart),
and time (a project expires without anybody changing it). The cron (`0 15 * * *`, midnight
in Korea) and the requests call the same `closeExpiredProject`, with three
attempts. In the browser, the pages call the API client; it takes the token from the
memory of the tab, and on 401 refreshes with the cookie, once per epoch, before it sends the
request again. Pages stay mounted while their path changes, and protect themselves from late answers by
counters they compare.

Hard behaviours, as `PROJECT.json` lists them under `hazards` with their lines:
values merged from a read that is stale when written; checks made on the read and
not repeated by the guard; several closers of one project; retries with an old
clock; two statements of a batch that must agree; participants moved by another
project; sets of names compared by count and sum; the order of closing, starting,
cancelling and reopening that the figures depend on; logins and refreshes during a change of
password, role or assignments; logout against refreshes under way; answers to
requests of a page that has moved on.

## 2. The idea of the models

One action per handler step. Reads and checks are one or more actions, the batch
is one action (`Commit`), a false guard another (`Fail`). Steps of different
handlers, of the cron and of the rest of the system interleave freely.

- `ProjectLifecycle` splits a handler as finely as the code awaits:
  arrival, the SELECT and the batch of the auto-close, the read of the row, the
  batch, and the auto-close after a lost guard.
- `ProjectRoster` and `BatchRegistration` take the reads and checks of a handler as one
  action, although the code makes several reads. That loses nothing that the
  guards let through: everything that belongs to the project is under its
  revision, which only grows; the client's revision is not ahead of it when the
  handler starts; and a batch takes effect only if it is still the same, hence the
  same during all the reads. `GuardPinsRead`, proved in `ProjectLifecycleProofs`, is that
  argument for the project row. Of a participant the guard compares the revision
  read, or, for a set of names, what is read in one statement. The state of an
  organization, a link and an assignment are asked again in the guard, so an old
  answer can only refuse. What is read once and not guarded is kept in the
  request.
- `Accounts` and `OrganizationLeadership` keep a handler in two steps where what it has read
  is not all asked again, because a bcrypt hash is computed in between or because the
  read is written back; a handler whose guard asks for everything is one step.
- A handler never crashes half way through its effect, because a batch is one transaction.
  It may stop at any point before (`Abort`, `ScheduledAbort`, `Abandon`). `Abandon` is also how a false
  guard ends in `Accounts` and `OrganizationLeadership`.
- Days are numbers (`toKstDate`), time within a day is left out. A handler captures `now`
  once; the model keeps that day in the request while the clock goes on.
- `SessionClient` and the page modules take what JavaScript runs without awaiting the network as one
  step. Requests may be answered in any order, late, or never. The pages' counters, which only grow, become
  flags of the requests ("fresh" in its generation, "owner" while its token is the latest),
  cleared where the code increments the counter; this says the same and keeps the state finite.
- A tab is followed on one page: leaving it unmounts it, and nothing of it stays (`WebPages`).
- Wording, audit rows, names in rosters, roles and grades are left out, except where they
  decide something (names in `BatchRegistration`, names of organizations). Audit rows are written by the
  batch they report, so their atomicity is that of `Commit`; `BeforeRecorded` is about
  what they say, `AuditList` about how they are read.

## 3. The modules

| Module | Models | State | Actions |
|---|---|---|---|
| `ProjectRow` | a row of `projects`, the rules about one row and the rows the batches write | - | - |
| `ProjectLifecycle` | handlers of `projects.ts`, `project-expiration.ts` and the cron | `row` (table `projects`), `request` (locals of running handlers), `due` (rows a scheduled run still has to visit), `today` | `Arrive*` (route and schema), `FindExpired`, `CloseExpired`, `LoseClose` (the loop of `closeExpiredProject`), `Load` (read and checks), `Commit`, `Fail`, `Scheduled*`, `Abort` |
| `ProjectPromise` | what clients are promised: the same operations, each atomic on the current row | `row`, `today` | one per operation |
| `ProjectRoster` | `project-organizations.ts`, `roster.ts`, `participants.ts`, single corrections of `history-corrections.ts`, snapshot and figures; of `organizations.ts` what these see | `project` (with links, snapshot and entries), `participant`, `organization`, `assignment`, `request` | one per handler (its name), `Commit`, `Fail`, `AutoClose`, `SetOrganization`, `SetAssignment` |
| `BatchRegistration` | `bulk-participants.ts`, `imports.ts`, bulk corrections; other handlers by what they do to participants | `project`, `linked`, `usable`, `roster`, `participant`, `request` | `BulkRequest`, `ImportRequest`, `Commit`, `Fail`, and one action per kind of interference |
| `AccountRow` | a row of `users` with its credential, a session with its tokens, and what the batches make of them | - | - |
| `Accounts` | `auth.ts`, `admin.ts`, `recovery.ts`, `bootstrap.ts`, `authentication.ts` | `user`, `session`, `code`, `lock`, `request` | one per handler or per half of it: `Login` and `IssueAuthSuccess`, `Refresh`, `Rotate` and `RevokeSessionFamily`, `UpdateUser` and `CommitUpdate`, ... |
| `TokenChain` | what refresh tokens promise: one usable link, the last | `chain` | `Open`, `Extend`, `Close` |
| `OrganizationLeadership` | `organizations.ts`, with the logins and role changes it meets | `account`, `organization`, `assigned`, `session`, `scope`, `request` | one per handler, two for those that write back what they read |
| `SessionClient` | `api.ts`, `AuthProvider.tsx`, and of the Worker the answers to a tab | Worker: `granted`, `owner`, `last`, `revoked`, ...; tab: `cookie`, `auth`, `shown`, `epoch`, `refreshing`, `login`, `leaving`, `call` | `Serve*` (Worker), `*Sent`, `*Returns`, `*Lost`, and the user's `Request`, `Login`, `Logout`, `ChangePassword` |
| `ProjectPage` | `ProjectDetailPage.tsx` with dialogs, roster and panel as senders of changes | `server`, `tab` (page and requests under way) | the user's, `Serve`, `RefuseClosed`, `Lose`, `Receive` |
| `AuditList` | the log on that page, and its paging | `events`, `list` | `Navigate`, `Reload`, `LoadMoreAudit`, ... |
| `OrganizationPage` | `OrganizationDetailPage.tsx`, `OrganizationManagersPanel.tsx` | `server`, `page` | the user's (with `ResetExistingAssignment`), `Serve`, `Lose`, `ReadReturns`, `ChangeReturns`, `Search*` |
| `ImportWizard` | `ImportWizard.tsx` | `server`, `wizard` | the user's, `ReadFile`, `Serve*`, `Lose`, `Receive` |
| `WebPages` | the pages of `AppShell.tsx`, one of which is mounted | the states of the four and `route` | the actions of the page mounted |
| `FunctionSums` | lemmas: a sum over a finite set, and how one changed point changes it | | |
| `ProjectLifecycleProofs`, `RosterProofs`, `BatchProofs`, `AccountsProofs`, `LeadershipProofs`, `SessionClientProofs`, `PagesProofs` | theorems, the last one about `WebPages` | | |
| `MC...` | constants and symmetry for TLC | | |

How they fit together:

- `ProjectLifecycle` and `ProjectPromise` extend `ProjectRow`, so both speak of the
  same rows; `ProjectLifecycle` has `Promise == INSTANCE ProjectPromise` (the mapping is
  the identity on `row` and `today`; requests are hidden). The content of a project is
  one operation there (`ArriveContent`, `ArriveCorrection`: change something, increment the
  revision), and `ProjectRoster` and `BatchRegistration` are the detail of it, with
  the lifecycle reduced to transitions and `AutoClose`. The state machine of
  a project is therefore the interface between the three: whatever a content handler does,
  it does it to a project that is open and not expired, or closed for a
  correction, and moves the revision by one.
- `Accounts` and `OrganizationLeadership` extend `AccountRow`. Each has the other's effect on its
  rows as an action (`OrganizationsChange`; `UpdateUser`, `Login`), so both can be checked alone.
  `ProjectRoster` has of them the `session_version` of managers, `ProjectLifecycle` the request that is dropped.
- `Accounts` has `Chain == INSTANCE TokenChain WITH chain <- ...`: tokens issued and live of every session.
- `SessionClient` has its own small Worker: sessions, their last grant, and whether they are
  revoked. That a session accepts one refresh token at a time, its last, is what `ChainKept` says of `Accounts`.
- `WebPages` instantiates the four pages and states their promises for whichever is mounted.

Every definition that stands for code is in `map` of `PROJECT.json` with its lines. Some
definitions exist for mutation only, each named after the bug it would be
(`TrustingCloseGuard`, `SnapshotOfLinked`, `OwnsAlways`, ...) and said to be so in a comment.

## 4. The runs

All passing runs are complete explorations of the instance. Deadlock is not
checked: the bounds (`MaxRevision`, `MaxDay`, `MaxVersion`, `MaxEpoch`, `MaxClicks`, ...) end every
behaviour, and where they do not the system may simply stand still because nobody asks for anything.

| Run | Instance | What it shows |
|---|---|---|
| `LifecycleRaces` | 1 project, 2 handlers + cron, 2 days, 2 start and end dates, revisions up to 2 | `GuardPinsRead`: a batch whose guard passes finds the row its handler read, in every column. `DatesInOrder`: two PATCHes cannot store an end before a start. `RevisionCountsChanges` |
| `LifecycleHistory` | 1 project, 1 handler + cron, 2 days, revisions up to 6, clients up to one revision behind | a long life (closing by hand and by date, correcting, deleting, restoring, moving dates, reopening): `ClosureRecorded`, `DeletionOverlay`, `ClosureKept`, `ReopenedUnexpired`; `ExpiredIsClosed` under the fairness of section 5; and `PromiseKept`, the refinement of `ProjectPromise` |
| `RosterLife` | 1 project, 2 organizations, 2 participants, 1 handler, all operations, revisions up to 7 | `EveryoneCounted`, `SummaryAddsUp`, `SnapshotCountsFlags`, `ExpectedFrozen` while organizations are excluded, deactivated and deleted, and the project is closed, corrected and reopened |
| `RosterRaces` | 1 project, 2 organizations, 1 participant whom other projects change too, 2 handlers, a manager whose assignments change | `ReadsPinned`: merged values overwrite nothing although another project changes the participant. `ManagersInScope` |
| `BatchRequests` | 3 participants, 2 names, 2 organizations, all four kinds of request, up to two rows each | `BeforeRecorded`, `CorrectionsUnique`, `CorrectionsChange`, `ChangesNoticed` |
| `Accounts` | the bootstrap account and 2 others, 2 sessions of 2 tokens, 2 handlers, versions up to 2, from an empty database and from one with two operators | `SessionsCurrent`, `BootstrapEnds`, `RotationIsCurrent`, `UpdatePinned`, and `ChainKept`, the refinement of `TokenChain` |
| `SessionTab` | one tab, 2 requests at a time, 3 grants, 2 changes of the epoch, answers may be lost | `OneGrant`, `OwnTokens`, `OldAnswersDropped`; under fairness `LogoutEnds` and `RestoreEnds` |
| `Leadership` | 2 accounts, 1 organization, 1 session, 2 handlers, versions up to 3, with no accounts at first or two managers | `OperatorsUnassigned`, `SessionScope`, `ReplacementApplied` |
| `WebPages` | project page: 2 projects, 3 revisions, 4 clicks, 3 requests; log: 4 events, 3 requests; organization page: 3 versions, 2 requests or searches once the user has acted and the reloads they cause, a field that is empty or has a text; import: 2 sources, 2 projects, 2 requests | `SpinnersEnd`, `AnswersInPlace`, `AuditContiguous`, `OwnChangesShown`, `CommittedAsValidated` |
| `RosterUnlinked`, `BatchExcluded`, `LogoutUndone` | as small as shows it | the three disagreements of section 7 |

Why the bounds are enough to mean something. Two days are a before and an after midnight, and
a handler with the older clock. Revision 2 in `LifecycleRaces` is a handler that reads, another
that changes, and the first that commits, plus the cron; two handlers
are enough since a guard compares with one row and the handler does not know how many
others changed it. Six revisions in `LifecycleHistory` are start, close, delete, restore, new dates,
reopen. Seven revisions in `RosterLife` are
a link, two entries, start, cancel, exclude, close. Three participants are what
an exchange needs: one who leaves, one who comes, one who is created. With one handler in
`RosterLife` and `BatchRequests`, the other actor is the environment
(`AutoClose`, `SetOrganization`, `ChangeLink`, ...), which
acts between the reads and the batch. In `Accounts`, two handlers are a login or refresh and what
crosses it, two tokens the one used and the one it is replaced by, and two versions a change between the
reading and the writing of a handler and one more. The proofs of section 6 do away with these bounds. Two accounts in `Leadership` are the leader and the
candidate, one organization is enough because no rule there speaks of two but the name, which
only refuses. Two requests and three grants in `SessionTab` are two that are answered 401 and share a refresh, and
a login after a logout. Three requests on a page are a change, the reload it causes and one that it
replaces; four clicks are a change, another page, the way back and another change (opening and closing a dialog is not counted). What the bounds exclude is that many rows are
involved in a batch: `BatchSize` 2 where the code allows 30 and 130. A scheduled run of several projects is not run any more
(the rows are independent, and a run that dies or loses one is in `LifecycleHistory`); so the limit of 50 projects per run cannot
bite there, and whether one project is always passed over for others is not answered. In `LifecycleHistory` and `RosterLife`
one handler is under way at a time: of a reopening or of figures with an old read only what the cron and the environment do between
read and batch is run; that other handlers do not matter is what `ReopenedInTime` and `EveryoneIsCounted` prove, for any number of them.

Each property has a mutant in `PROJECT.json`: a change of a mapped definition like a plausible
bug, with which the run finds the property violated.

Two restrictions in `SessionTab`. `crossed` is set when a page sends a request during a logout or a
password change is under way when one begins; what follows then is
the subject of `LogoutUndone`, and `OneGrant`, `OwnTokens` and `OldAnswersDropped` leave it out. `lost` is set when the answer to a refresh
gets lost after the Worker has rotated the token: the tab then presents the old token the next time, and the
session is revoked, which is the design of reuse detection.

`OwnChangesShown` is about changes other than restoring: a restore shows its own answer and reloads
nothing (section 7).

## 5. Fairness

`FairSpec` of `ProjectLifecycle`: requests are under no obligation to
finish. The cron fires daily (`wrangler.jsonc`), so `ScheduledStart`, if there is
always something to close, happens: `WF`. A run may die (`ScheduledAbort`
has no fairness and is always possible), and its rows may be taken by requests, but
not every run dies at the same step: `SF` of the steps of the scheduled handler. Without this
strong fairness every run could die before its first batch, and nothing in the code would
prevent it. `ExpiredIsClosed` is not about when: a handler that
still runs with yesterday's clock may find a project unexpired after midnight.

`FairSpec` of `SessionClient`: the Worker answers, and the tab goes on with what it gets (`WF` of
`Serve*`, `*Returns` and of the steps that follow an answer). Nobody has to click, nothing has to get lost, no
token has to expire. A request that is never answered and never fails does not exist: `fetch` settles.

The pages' waits are stated without fairness, as an invariant: `SpinnersEnd` says of the locks, the row, the lists, the
searches and the transition that what waits has a request under way whose answer, or failure, ends the wait. Of two waits of the project page
it says less: the button of a restore and the candidates of a correction wait for a request *until a reload of the same path moves the
generation*. The code then leaves their flags set with nothing to take them down; the model has a value of its own for that
(`"left"`, `Abandoned`), of which `SpinnersEnd` says nothing, and section 7 has two histories that lead there.

## 6. What is proved

All theorems hold for every value of the constants: any number of projects, handlers, names, dates,
accounts, sessions, and any bounds. The
assumptions are those the modules name (`RowConstants`, `LifecycleConstants`, `RosterConstants`, `BatchConstants`, `RowsExist`, `AccountAssumption`, `LeadershipAssumption`,
`ClientAssumption`, `PagesConstants`): the special values
are none of the ordinary ones, bounds are numbers, participants and organizations are finitely many (they are counted). TLC evaluates them in every run.
Two theorems have a hypothesis of their own, `EveryoneIsCounted` and `SummaryAlwaysAddsUp`, explained below.

**The lifecycle.** `ProjectLifecycleProofs` proves the invariants and action properties of the lifecycle:
`TypeCorrect`, `ReadsPinned`, `ClosuresRecorded`, `DeletionsOverlay`, `DatesStayInOrder`,
`RevisionsCount`, `ClosuresKept`, `ReopenedInTime`, and `HandlersKeepPromise`: every behaviour of the
handlers is one of the atomic specification `ProjectPromise`.

The argument. None of the properties is inductive: `DatesInOrder` is preserved by the batch
of a PATCH only if the merge it carries was made from the row it finds. So `IInv` adds
what is true of handlers between their steps:

- `HandlersLag`: the clock a handler carries is not ahead of the clock, the revision it
  carries is not ahead of the row's;
- `ReadsAge`: the row a handler read has passed its checks; it is at least of the expected
  revision and at most of the row's; and if the revisions are equal, the rows are.

Then the guard (row's revision = expected revision) squeezes the three revisions together, and
the last part of `ReadsAge` gives `row = read`: that is `GuardPinsRead`, and with it the
checks made on the read are checks on the row. `ReadsAge` itself is preserved because
every write moves a revision up by one, which is a lemma about the writes.
`UnwrittenRows` keeps the ids that are not yet used out of it. The refinement follows: a `Commit` is
the atomic operation on the row it finds, at the day the handler carries, `CloseExpired` is
`AutoClose`, and all else is a stutter.

**Rosters and participants.** `RosterProofs` proves `TypeCorrect`, `ReadsArePinned`, `ExpectedStaysFrozen`,
`ManagersStayInScope`, and about the figures `SnapshotCounts`, `EveryoneIsCounted` and `SummaryAlwaysAddsUp`. Here a participant belongs to no project, so that two revisions are squeezed:
`Seen` says of a waiting request that the project is of the revision expected or of a later one, and the participant of the revision read
or of a later one; where the revision is the same, so are the status, the entry and the participant. The rest of `IInv` makes
that hold from step to step: `Formed` (what a request holds of its own, by its kind), `Apart` (nobody else uses the id of a
participant to be created, or the creation would meet a row with the revision of a new one) and `Registered` (an entry has its participant: the handlers that
change an entry never ask). `Kept` is what any step does to one project, participant and slot, and every action is shown to do no more.

- `ReadsPinned` is `Seen` with the guard (`GuardPins`).
- `ExpectedFrozen` follows because the entry a batch writes is made from the entry there is (`Written`), so the flag
  it carries is the current one: for bodies merged from an old read it would not be.
- `ManagersInScope` needs more than the guard, which asks about the entry and the participant before the batch: that a manager's patch stays
  in the organization of the participant as read (`Formed`), and that adding a participant leaves the participant alone.

The figures are sums over organizations of cardinalities of sets of entries. `FunctionSums` says what is needed of sums, without the induction
theorems, which take an operator: a sum of natural numbers is the number of points under the graph of the function (`SumIsPoints`). Counting
points obeys the recursion that defines the sum, and of the subsets on which the two differ a smallest one (`SmallestSubset`)
has none. What is known of cardinalities is then known of sums: disjoint sets add up (`SumSplit`), functions that agree have one
sum (`SumAgrees`), one that is nowhere smaller and has the same sum is the same (`SumGrows`), and counts by organization add up
to the number of those counted, each once, where it is (`CountByPlace`). With these:

- `SnapshotCounts`: `Counted` (the recorded counts sum to the number of flagged entries, and before the start there are neither) is preserved because
  the start writes both from the same rows and no later step changes either (`SameExpected`, as for `ExpectedFrozen`);
- `EveryoneIsCounted`, `SummaryAlwaysAddsUp`: `Settled` says of a project until its first correction that every entry is of the organization of its
  participant and that the project has a row for it (`Placed`), that only pre-registered entries are expected, and that once there are counts
  every active pre-registered entry is (`Sourced`). Then each entry is in the sum with one sign. The hypothesis is one project and `Elsewhere = FALSE`, as in
  the run `RosterLife`: no other project moves its participants. With another project both are false, which is the finding `RosterUnlinked`.

**Batches.** `BatchProofs` proves `TypeCorrect`, `BeforeIsRecorded`, `CorrectionsStayUnique`, `ChangesAreNoticed` and `CorrectionsDoChange` for batches of any size.
Again what a request holds is squeezed (`Seen`: the project, the entries and the participants are of the revision read or of a later one, and if it is the same they are what was read);
a batch additionally acts on a *set* of participants, and the guard of the ordinary form compares only their number and the sum of their
revisions. `CountsSuffice` shows what that is worth: if those who were read are still in the organization, none of them at an earlier revision,
then an equal number means nobody came, and with nobody new an equal sum means that none has moved. The guards of corrections compare the set itself, and
need no such condition: nobody who confirmed nothing creates a namesake.

**Accounts and sessions.** `AccountsProofs` proves `AccountsTyped`, `LoginsAreCurrent`, `BootstrapIsOver`,
`RotationsAreCurrent`, `UpdatesArePinned` and `TokensChain` (the refinement of `TokenChain`).

First every action is reduced to its effect on one account, one session and one handler (`AccountStep`,
`SessionStep`, `RequestStep`, proved once per action in `StepEffects`): an account that changes moves its version and
revokes its sessions; a session that is open keeps what it was opened as, except that its last
token is replaced or all end; a handler stops, reads, or goes on from a lost rotation to a revocation. The inductive invariant `IInv` then has these parts, each with a step lemma
that needs only those effects:

- `Linked`: what sessions and handlers refer to exists;
- `SeenPinned`: the account a handler has read is of the version it has now or of an earlier one, and of
  the same version only if it is the same;
- `SessionsPinned`: likewise for what a session was opened as. It is what `issueAuthSuccess` relies on, without a
  guard: the session it inserts has the version of the account it read, and if that has passed the session is
  never accepted. `SessionsCurrent` follows from it;
- `Rotating`: a session a rotation has found standing still stands, or is revoked; so the guard of the rotation need
  not ask for the account (`RotationIsCurrent`);
- `LastLive`: of the tokens of a session the last alone can be live; with `StepEffects` this is the refinement;
- `Bootstrapping`: until the lock is consumed all others are operators with a temporary password, also those a handler has read;
  afterwards the bootstrap account is inactive.

**Organizations and managers.** `LeadershipProofs` proves `TypeCorrect`, `OperatorsHaveNone`, `OnePrimary`,
`SessionsInScope` and `ReplacementsApplied`. `Kept` says of one step what `StepEffects` says above: an account whose
assignments change moves its version; a session is revoked, stays, or is opened from what a login holds;
a handler ends, goes on, or has just read. Every action is shown to do no more (`NextStep`), and from that
`IInv` follows:

- `OperatorsUnassigned` is inductive by itself: whoever is assigned is a manager in the guard of the same batch;
- `OneLeader`: the guards ask that there is no leader, or for the leader as read, whom the batch replaces. The unique index of the table
  (`apps/worker/migrations/0003_organization_leadership.sql:22`) is left out of the model: the guards alone suffice;
- `LoginsSeen`: a login holds the assignments its account has now, or an older version of the account;
- `SessionsSeen`: likewise for a session that is not revoked; `SessionScope` follows.

`ReplacementApplied` needs `OneLeader`: the handler reads *a* leader (`findPrimaryUserId`), and it is the only one.

**The session client.** `SessionClientProofs` proves `HoldsOneGrant`, `UsesOwnTokens` and `DropsOldAnswers`, for any number of requests, grants and epochs. The
theorems are about `Spec`, so fairness plays no part in them. `IInv` has parts that always hold: every grant the tab holds has been issued (`TypeOK`), and
neither requests nor refreshes are of an epoch to come, nor does a request wait for a refresh whose token was not refused for good (`Grown`). The rest, `Uncrossed`, holds
as long as no page has sent something across a logout (section 4):

- `Phases`: which of login, logout, refresh and requests exclude one another; a tab that is signed in and not leaving has page, memory and cookie of one grant;
- `Refreshes`: there is one refresh at a time, with the cookie there is, for a request that waits or to restore the tab, and only when the
  access token of the cookie's grant is refused for good, or a change of the password waits;
- `Lasts`: the cookie is the last grant of its session unless the answer with that is under way or was lost; so is the token of a request that may still pass;
- `Sessions`: the session shown is none that was left, and while the login page is shown no request of the epoch can bring one back.

Every action is shown to keep each part. The epoch a request carries is compared with the epoch that is, and with
`Refreshes` there is nobody else whose answer could be taken for its own.

**The pages.** `PagesProofs` proves of `WebPages` what the run checks: `SpinnersWaitForAnswers`, `LateAnswersStayOut`, `AuditIsOneRun`, `OwnChangesAppear` and
`ValidatedRowsAreCommitted`, for any number of requests under way. A path mounts one page and the others do not exist, so `IInv` is one invariant per page:

- `DetailInv` (project): requests that are fresh are of the path, and so is the row shown; a correction is of a row shown that is not deleted; a row that loads, a
  transition, a restore and candidates that wait have a request that will settle it; the last two only until the generation moves, so every step that moves it
  is shown to leave no flag waiting. The handlers call one another, so that they are not proved one by one: `Changes` and `Follows` say of two
  pages what sending, disowning, reloading and giving up have in common, both are transitive (`ChangesTwice`, `FollowsTwice`), and each handler is
  a chain of such changes with at most one step that needs more (`Left`: the page without the request whose answer it gets);
- `AuditInv`: the events shown are one run without gaps down to the cursor, and at most one read of the log counts; "more" counts only for the cursor the list still has;
- `OrganizationInv`: of the reads that may still be shown, those sent after the user's last change bring a row at least as new (`Current`), and each lock is held by the request or the reload
  it waits for (`OneLock`, `LockWaits`, `PanelWaits`);
- `WizardInv`: a result is of the rows, the source and the project that are on the page, or of nothing that counts.

The bounds of these modules (`MaxCalls`, `MaxRevision` and the others) appear in no step of the proofs.

**Only model-checked**: liveness (`ExpiredIsClosed`, `LogoutEnds`, `RestoreEnds`), which the prover cannot do under fairness. The three runs that end in a violation
have nothing to prove. Conversely `TypeOK` of `OrganizationLeadership`, of `BatchRegistration` and of `SessionClient` is proved and no longer a run's invariant.

## 7. What the models say about the code

Three runs end in a violation, each against a sentence of the design documents or a comment
(`findings` of `PROJECT.json` has the quotations):

1. `RosterUnlinked`. `updateProjectParticipant` asks for a link only if the new organization
   differs from the *participant's*, and another project may have moved the participant. A later
   update here, of the name say, takes the entry into an organization that this project does
   not have; the figures do not count it.
2. `BatchExcluded`. An import reactivates a cancelled entry in the organization in which it is, although
   the row is about another one and the project has excluded it.
3. `LogoutUndone`. During a logout the page is still mounted. A request it sends then carries no token, is answered 401 and
   refreshes with the cookie, in the epoch of the logout. If the logout request fails, the login page is shown,
   and the refresh, answered later, signs the tab in again.

Remarks that are not runs. On the Worker:

- The ordinary bulk form recognises the set of participants by its size and the sum of its
  revisions. If one leaves and another comes, both may be equal, and a duplicate name is committed that nobody
  confirmed (`docs/superpowers/specs/2026-07-28-bulk-new-participant-registration-design.md:170` promises to cancel).
  `ChangesNoticed` states what the comparison does notice: everything as long
  as those who were read are still there. The corrections compare ids, names and
  revisions, and satisfy the sentence (`CorrectionsUnique`).
- A project that the date closes before it starts, and that is reopened, never gets expected counts:
  everybody attends without being expected or added. `SummaryAddsUp` is about projects
  that have a snapshot.
- A correction that reactivates an entry cancelled before the start keeps its source, so
  the sum of section 4 is not kept by corrections (documented: the source stays).
- `calculateProjectSummary` in `packages/domain` counts as cancelled every cancelled pre-registration, without
  `was_expected_at_start`; the API uses the SQL of `roster.ts`, which has the condition.
- After midnight a handler that began before may still commit to the project whose end date has
  passed: guards compare with the handler's own `now`.
- The audit row of an import names the organization of the file's row as the new one,
  also when the entry stays where it was.
- An account assigned to an organization that is deleted keeps the assignment, cannot be removed from it, and so can
  never be made an operator until the organization is restored.

In the session client:

- A wrong current password is answered 401 like a missing session, so the tab refreshes and sends it a second time.
- The answer to a change of password clears the cookie; if it comes after a logout and a new login, it clears the cookie of the new session.
- A second click on logout, which `ChangePasswordPage.tsx:93` and `BootstrapHandoffPage.tsx:77` do not prevent, starts a second logout. Its end compares no
  epoch, so that it may sign out a login made meanwhile.
- The plan speaks of one shared refresh (`docs/superpowers/plans/2026-07-21-event-roster-pragmatic-workers-mvp.md:772`), the code has one per epoch.
- Two tabs share the cookie and not the refresh: both may present one token, and then one of them has to log in again.

On the pages (each seen while modelling; those the properties would contradict are excluded there by name):

- The answer to a PATCH of a project does not replace the GETs under way; one of them can show the older row after it
  (against `docs/superpowers/specs/2026-07-24-loading-feedback-design.md:195`: an older request must not overwrite the newest view). The PATCH may come
  late itself: its dialog is closed, a transition meets a newer revision and reloads the row, now closed, in the same generation, a correction is started,
  and then the answer shows the older, open row. The flag of the correction stays set; as long as the row is shown as open nothing can be corrected
  (`correctionActive`), and the next load shows the closed row again. `RowInPlace` therefore asks of a correction a row that is shown and not deleted, not one that is closed.
- A change of the roster or a transition that is answered after another reload has begun does not reload the page itself.
- The edit dialog keeps its fields but takes the newest revision when the page reloads in the background, so that saving
  overwrites dates another user has set meanwhile, without a conflict.
- Restoring a deleted project on the page that shows it navigates to the path it is on; nothing reloads.
- `restoring` and `candidatesLoading` are taken down only in the generation they were set in (`ProjectDetailPage.tsx:468`, `:707`), so a reload of the same path
  leaves them set for good, with no request under way: the button goes on saying "복구 중…", the candidates go on loading
  (against `docs/superpowers/specs/2026-07-24-loading-feedback-design.md:66`: `submitting` is the state of a request sent whose answer is awaited).
  Both come true in the model. *Restore*: a change of the roster is sent; somebody closes and deletes the project, and a reload in the same generation
  (`retryProject`, or the one after a conflict) shows it as deleted; restore is clicked; now the answer to the change of the roster comes and reloads the page, in
  a new generation, and the answer to the restore is dropped. *Candidates*: a correction is started and, while the candidates load, the project is
  reopened in the dialog; its answer reloads the page, so that the candidates' answer is dropped; if the reload fails or finds the project
  closed again, the correction goes on, and `retryProject` does not ask for candidates. `SpinnersEnd` speaks of these two
  flags only up to that reload (section 5).
- On the organization page the message that a reload failed also appears when the reload was merely replaced by the panel's; a
  restore shows its own answer and an older reload can overwrite it (`OwnChangesShown` leaves restores out);
  the search field stays enabled while the panel changes something.
- Saving the dialog does not reload the log or the figures.

## 8. What is not modelled, and why

- The rate limit of logins: counters that no other component reads, and a block read before the password
  is verified; how far parallel attempts pass the limit is a figure, which depends on how many run.
- The scope in which managers see closed projects, exports and the participant search: one read each, no state.
- Parsing and exporting workbooks, cursors as text, hashing, signatures, HTML: data, no control. Roles, grades, gender and
  names in rosters decide nothing but what is displayed.
- List pages (`ProjectsPage`, `OrganizationsPage`, `UsersPage`), filters, sorting and paging in `RosterTable`, pickers and
  popovers: one reload, or rows that are already there. Recent organizations in local storage.
- Audit rows the organization page reads beside the row, unless a lock waits for them.
- Several tabs. On the Worker's side two tabs are two handlers with one token, which `Accounts` has.
- Scripts, spikes, deployment: input and output only.
- A second logout while one is under way (`leaving` in `SessionClient` has one; section 7 has the remark).
- The 404 on which the organization page goes back to the list: organizations are deleted by a mark and can be restored, so that of one that is
  displayed no request is answered so; a deletion that is refused is a conflict (`organizations.ts:57`, `:290`).
- The flags by which dialogs prevent a second submission: the model may send again what is under way.
- Displayed names of accounts; `updateUser` writes the one it has read back without moving a version.

## 9. Plan

Done, in this order: `ProjectRow`, `ProjectLifecycle`, `ProjectPromise` and their
proofs (everything else depends on the revision doing what it promises), `ProjectRoster` and its proofs,
`BatchRegistration`, `AccountRow`, `Accounts`, `TokenChain` and their proofs, `SessionClient`,
`OrganizationLeadership` and its proofs, the pages, and the proofs about batches, the figures, the session client and the pages.

Left:

1. Composition: a roster handler as refinement of `ArriveContent`/`Commit` of the lifecycle; `SessionClient` with `Accounts`
   instead of its own small Worker, and two tabs.
2. `HistoryCorrections` and the roster table in more detail, should their state come to decide something.
3. `LoginAttempts` and `ReadScope`, should they ever get state that others depend on.
