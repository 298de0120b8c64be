# A TLA+ model of Birthday-Role

Birthday-Role is a plugin server of RoleLogic. Members of Discord guilds save
their birthday on a web page, admins write a rule for each role ("the birthday is
today", "Leo or Virgo, and at least 18"), and the server keeps the list of users
that RoleLogic grants each role to equal to the members whose birthday satisfies
the rule. Work is done by a durable job queue in Postgres, by any number of
replicas of the server.

The modules here model the queue, the sync engine, the upload of a list, the
editing of rules, who may do and see what, and the date and rule logic that all
this rests on. TLC checks them on small instances; TLAPS proves their main safety
results for every instance.

- [The system](#the-system): its parts, their state, how they interact
- [Modules](#modules): which module models what, and how it corresponds to the code
- [Runs](#runs): what is checked, within which bounds, what it shows
- [Findings](#findings): where the code does not do what it says
- [Fairness](#fairness)
- [Proofs](#proofs)
- [Not modelled](#not-modelled)
- [What could follow](#what-could-follow)

## The system

| Part | State | Operations | What makes it correct |
|---|---|---|---|
| job queue: `migrations/003_jobs.sql`, `services/jobs.rs` | table `jobs`: status, attempts, next_run_at, locked_at, payload | enqueue (three ways), claim_batch, complete, fail_retry, fail_dead, reap_stuck, gc_old | no job is lost, and one worker at a time has a job, until the job's lock expires under it |
| job worker: `tasks/job_worker.rs` | the batch a worker claimed, its position in it, its copy of the shutdown signal, the reap timer | loop: signal? reap? claim, wait, dispatch, write back | what is claimed is settled or comes back; retries end |
| tick and listener: `tasks/tick.rs`, `tasks/job_listener.rs` | a timer; a LISTEN connection | garbage collection and one config_sync per link; waking workers | a link is looked at again and again even when nothing asks for it |
| shutdown, replicas: `tasks/shutdown.rs`, `main.rs` | a broadcast channel, one message for each subscriber | trigger, join the workers, exit | a shutdown ends, and drops no job in flight |
| sync engine: `services/sync.rs` | none of its own: `role_links`, `birthdays`, `role_assignments` (the mirror of RoleLogic's lists), RoleLogic's lists | sync_for_player, sync_for_role_link, drain_to_empty, delete_orphan_role_link | lists converge to what the rules ask for; no failure takes a role away from somebody entitled to it |
| RoleLogic client: `services/rolelogic.rs` | the upload session it has open; upstream, the list of each role link | user_info, add_user, remove_user, and upload_users by one PUT or in chunks | each answer is read as what it means; a list is swapped in whole or not at all |
| Auth Gateway client: `services/auth_gateway.rs` | external: members and their guilds | two lookups | no answer is not the same as an empty answer |
| plugin webhooks: `routes/plugin.rs` | `role_links` | register, delete_config | a link has one row, with the token RoleLogic accepts |
| rule editing: `routes/admin.rs`, `templates/role_config.html` | `rule_tree`, `rule_tree_version`; each tab's tree, version, edits | load, edit, save, refresh on focus | two tabs never overwrite each other unseen; a change is synced |
| verify page: `routes/verify.rs`, `templates/verify.html` | `birthdays` | save, unlink | only real dates; what a member removes has its effect |
| date rules: `services/birthday.rs`, `migrations/005*` | none | validation, the effective date, countdown, ages; the same in SQL | Rust and SQL agree on every day; leap days |
| rules: `services/rule_validator.rs`, `condition_eval.rs`, `rule_sql.rs` | none | parse and normalise a tree, evaluate it for one member, build the WHERE clause for all | both evaluators agree on every tree the validator lets through |
| users page, guild settings: `routes/users.rs`, `routes/admin.rs`, `templates/users.html` | `guild_settings.view_permission` | users_data, set_view_permission | birthdays are shown to whom the setting allows |
| sessions and tokens: `services/rl_token.rs`, `services/session.rs`, `services/auth.rs` | none of its own: JWTs, iframe sessions and cookies, which expire | verify, mint, require_manager, guild_permission | an edit goes back to somebody who managed the server a short while ago |
| Dweeb proxy, health, headers, configuration | | | |

**Interactions.** Request handlers change a table and then enqueue a job, in two
statements. The tick enqueues one config_sync per role link. Workers of all
replicas claim from the one `jobs` table (`FOR UPDATE SKIP LOCKED`) and run
`sync.rs`, which reads the tables and the gateway, calls RoleLogic, and then
updates the mirror. RoleLogic calls back with `register` and `delete_config`.
There is no lock across any two of these: everything a job read may have changed by
the time it acts on it.

**What is hard.** (1) Two workers on one job, one member, or one link: a job's
lock expires by the clock, `jobs` are not unique, and a player_sync and a
config_sync overlap freely. (2) RoleLogic and the mirror are changed one after
the other, and either can fail or be lost. (3) Crashes between any two
statements. (4) A link that is deleted upstream and registered again while jobs and
tabs still hold what they read of the old one. (5) The shutdown signal, which is
a message that can be consumed only once. (6) An upload of many calls, each of
which can be served after the client has given it up. (7) Rights that change
between a check and what it allows. (8) Leap days, ends of years, the width
of integers, NULL. `PROJECT.json` lists each such hazard at its line with the
properties that would notice it going wrong.

## Modules

| Module | Models | Instances |
|---|---|---|
| `JobQueue` | the queue, its workers, the tick's statements, shutdown and restarts | `MCJobQueue` |
| `JobLease` | what the queue promises: a job in progress is leased to one worker at most | refined by `JobQueue` |
| `JobQueueProofs` | the inductive invariant of `JobQueue` and the refinement | |
| `Sync` | both sync procedures step by step, the tables they use, RoleLogic, the gateway, everybody who changes those | `MCSync` |
| `SyncMirror` | `Sync` with a memory of which mirrors are in doubt | `MCSyncMirror` |
| `SyncHistory` | `Sync` with a memory of what was true while a job ran: all along, at some time, and untouched by others | `MCSyncHistory` |
| `SyncProofs` | the types of `Sync`; no job takes a role from its steady members; the mirror is RoleLogic's list where nothing put it in doubt | |
| `SyncHistoryProofs` | no job grants a role or deletes a row without grounds; a job that nothing disturbs does what it is for | |
| `RoleConfig` | dashboard tabs against `role_config_data` and `role_config_save`, with the webhooks | `MCRoleConfig` |
| `RoleConfigProofs` | the optimistic lock; saves are followed by a sync | |
| `ListUpload` | one PUT, or start, chunks, commit and cancel, against the network and RoleLogic | `MCListUpload` |
| `AtomicList` | what an upload promises: the whole list, once, or not at all | refined by `ListUpload` |
| `ListUploadProofs` | the inductive invariant of `ListUpload` and the refinement | |
| `Access` | sessions, tokens and cookies with their clock; the checks of saves, of the setting and of the users page | `MCAccess` |
| `AccessProofs` | where every right to edit or see comes from | |
| `Birthday` | operators: dates, derived columns and facts, in Rust and in SQL | used by `RuleTree` |
| `RuleTree` | operators: validator, Rust evaluator, SQL clause | used by `BirthdayRules` |
| `BirthdayRules` | a member and a rule, saved and followed from day to day | `MCBirthdayRules` |
| `BirthdayProofs` | lemmas about dates: leap years, day numbers, the countdown | |
| `BirthdayRulesProofs` | when the two evaluators agree and when the query fails, on every date and by every rule | |

`PROJECT.json` maps each definition to the lines it translates. Operators whose
comment begins with "Mistake:" are not part of any specification: each is a
plausible bug, and putting it in the place of the definition that follows it
makes a property fail. They show that the properties can notice something.

### JobQueue

One variable per column of `jobs`, but for the payload: what each row will carry, a
link or `NoLink` (player_sync), is the constant `Payload`, since no statement changes it.
An SQL statement is one step, since each is autocommitted. Time
appears as two comparisons, the ones the statements make: `due` (next_run_at has
passed) and `stale` (locked_at is older than STUCK_LOCK_SECS). A worker is a program
counter along `job_worker::run`, the part of its batch not yet settled (`claim`,
with the `attempts` that `RETURNING` gave it) and its unread shutdown message.
What a job does is reduced to its verdict.

Because `complete`, `fail_retry` and `fail_dead` say `WHERE id = $1` and nothing
else, `WriteBack` changes a row whatever its status has become. Because
`ShutdownGuard::is_triggered` is a `try_recv`, reading the signal clears it
(`LoopHead`, `Release`, `StopIdle`). A statement that fails has an action of its
own (`ClaimFails`, `ReleaseFails`, `SettleFails`), one for which
only the answer is lost included. A replica crashes with the batches of its
workers and is started again.

STUCK_LOCK_SECS (30 minutes) can pass while a job is still in its worker's hands
(`HeldLockExpires`, a fault as a crash is one). The comment at `job_worker.rs:19` has it
"comfortably above the longest legitimate sync", but a commit alone may take as long
(`COMMIT_TIMEOUT`, `rolelogic.rs:12`), and a batch of up to eight jobs shares one
locked_at. Such a job can be reaped, run by a second worker, and settled twice, a completed
job being pending again. `lapsed` is the history of it: `NoDoubleProcessing`,
`ClaimsCurrent` and `KeepsLease` promise nothing of a job from when its lock has expired
under a worker, and everything of the others, whose workers reap, claim and settle next to
it. `JobLease` has a step for it, `Lapse`. `InFlightNotDropped`, `AttemptsBounded` and
`EveryJobSettles` speak of the lapsed jobs too.

### Sync, SyncMirror and SyncHistory

One guild with a few links and members. A rule is `"none"` (unconfigured),
`"any"` or `"rule"`, a condition that holds for the members in `matching`; how a
condition is evaluated is the matter of `BirthdayRules`. Each query,
each statement of the mirror's transaction and each HTTP call is a step, and what
it read stays in `work[w]` until it is used. The actions of a player_sync run
concurrently (`buffer_unordered`), so each is a call and then a mirror statement in
any order with the others. The transaction `DELETE; INSERT; COMMIT` keeps its
READ COMMITTED behaviour: rows inserted after the snapshot of the DELETE survive
it, collide with the INSERT's primary key and roll it back (`ConfigDelete`,
`ConfigInsert`, `InsertRows`).

RoleLogic is its accepted token, its list and its enabled flag; `Answer` is
`link_state_error`'s reading of a response: gone, disabled or paused (both are a 403,
told apart by their text), ok.
Failures have kinds so that a run can choose among them: the enqueue after a
handler's write, the gateway, a RoleLogic call that was not applied
(`"upstream"`), one that was applied and not answered (`"lost_answer"`), a
removal held back by RoleLogic (`"held"`), a mirror or orphan statement
(`"lost_write"`), a job that runs again although its worker is alive, because its lock
expired or its verdict was lost (`"rerun"`), a crash. A failing read of the plugin's own
database ends a job as a gateway failure does (`JobError::Retry`), and is not told apart;
that the query of the qualifying members fails for its rule is the matter of `BirthdayRules`.

`Restore` is the recovery procedure of `OPERATIONS.md`: a new database with the
birthdays, everything else registered again.

An upload is one step, as `AtomicList` allows. One thing is lost by that: the write
of an upload whose caller was given an error can reach RoleLogic any time later,
where `Sync`'s `"lost_answer"` applies it before the error is known.

`pending` counts the copies of each job that wait. A claim takes one, unless the job is
to run again (`"rerun"`): then it leaves it there, for another worker to claim at any
time.

`SyncMirror` adds `doubtful`, the links whose mirror may be wrong. A job calls RoleLogic first
and writes the mirror afterwards, and `Owes` says that it is between the two. A
link comes into doubt when its row or RoleLogic's link is a new one, when two jobs owe its
mirror something at once (the race of `Sync_unlink`), or when a failure changes RoleLogic's
list, or ends what a job owes, without the mirror following (a lost answer, a lost write, a crash).
A whole list that is uploaded and recorded (`Renewed`) clears it. `Doubt` reads this off
the two states of each step, so no action of `Sync` is written twice.

`SyncHistory` adds what no table holds. `steady[w][l]` are the members entitled to `l`, by
one and the same rule, at every moment since `w` claimed its job; `SteadyInv` says what
the worker has read and still holds of them. `seen[w]` is who was a member, who had a
birthday saved and matching, and which rules and tokens each link had, at some moment since;
`ReadInv` says that what the worker holds is from there. `calm[w]` are the links whose row,
rule, mirror, upstream state and facts only `w`'s own steps have touched since, none of
which failed, and `exact[w]` those whose mirror was RoleLogic's list at the claim;
`CalmInv` says that what the worker has read of a calm link is as it is now, and what
it has done there is what its job is for.

### RoleConfig

A tab has what it was shown (tree and version), its editor, and a refresh under
way; a save is a request of three statements, UPDATE, SELECT, enqueue, with the
answer on its way back as a fourth step. Trees are model values: the tree that a save
normalises is the same model value as what the user typed (the normalisation is
the matter of `BirthdayRules`). `Unset`, the tree of a fresh link, is never in an editor: it
is presented as `Default` (anyone with a birthday), and therefore dirty from the
start. `knows` and `row` are history: the tree that a tab's version stands for, and
the row that both came from in one SELECT, if they did.

### ListUpload and AtomicList

`upload_users` of several callers, for one link. A request is a step of its own
(`Call`): it lies in `net` until RoleLogic serves it or it is lost, also after its
client has given up on it (`Fail`) or died (`Crash`). `Continue` is the client: what
it does with the Result of each call, the cancel that precedes every error
included. RoleLogic is external: sessions, the list swapped in by a commit, large
removals held, disabled and deleted links, as the client's comments describe them.
`applied` and `trouble` are history.

`AtomicList` has one phase per upload. `ListUpload`'s mapping calls an upload open
while its write can still happen, which may be after `upload_users` has returned an
error.

### Access

One server. A JWT comes from RoleLogic, for a manager or (read-only) for a developer
who looks at a server as somebody else; `role_config_page` turns it into an iframe
session; a save or a change of the setting is made with a session, or with the
cookie, for which the Auth Gateway is asked. The question and what is done with the
answer are two steps, and levels, members and the setting change in between. The
users page asks twice (permission, members) and then reads the rows. `Classify` and
`Status` are `auth.rs` and `error.rs`; `Prompt` is what `users.html` does with a status.

`managerAt`, `edit` and the fields `levels` and `around` of a request are history:
they say when somebody managed the server, and what held at some time during a
request. `SetWithSession` accepts any session of the server, a read-only one
included, as `require_guild_admin` does; no property speaks of who changes the
setting.

### Birthday, RuleTree and BirthdayRules

Dates are records, compared by `DayNumber`, which stands for `NaiveDate` and
Postgres' `date`. `ComputeFacts` and `ComputeDerived` are `services/birthday.rs`;
`TargetExpr` has the functions of migration 005 and the stored columns as
`rule_sql.rs` uses them. What is NULL or None is the empty set, what is there a set
of one. Facts are named by the targets of conditions.

A literal of a condition is a set of values, a text is a model value, and what
trimming, lower-casing, aliases and regexes make of texts is given by constants.
`ParseRuleTree` is the validator (a set of one tree, or the empty set), `Evaluate` is
`condition_eval.rs`, `RuleWhere` is `rule_sql.rs` in three-valued logic, plus
`"error"` for a statement that fails: a list of integers with one beyond int4 (`MaxInt4` is
2^31 - 1 scaled down), or a pattern of `PgBadPatterns`. The validator tries a pattern with
the Rust crate (`BadPatterns` are those it refuses), Postgres gets it as it is: `Matching`
and `PgMatching` are what each makes of it. `"error"` fails the whole WHERE clause: the values
are bound when the statement is planned, as sqlx sends them, and a constant that cannot be
cast or compiled fails it whichever row is looked at.

`BirthdayRules` saves and corrects a birthday, with the year checked in UTC while
the day is the member's own, saves a rule, and lets midnights pass.

## Runs

Runs that pass:

| Run | Properties | Shows |
|---|---|---|
| `JobQueue_lease` | `TypeOK` `InFlightNotDropped` `NoDoubleProcessing` `QueueInv` `AttemptsBounded` `KeepsLease` `EveryJobSettles` | through a crash, a lost write, a lock that expires under a live worker, or a shutdown: the queue implements `JobLease`, but for the very job whose lock expired; no shutdown drops a job in flight; each job ends completed or dead, and only reaps and releases let it exceed max_attempts, once each |
| `Sync_mirror` | `TypeOK` `MirrorExact` `MirrorConverges` `OrphanRemoved` `UpstreamConverges` | two workers racing on one member and one link that is deleted, registered again and restored, with lost answers, lost writes and crashes: the mirror is RoleLogic's list but for a job on its way between the two, until something puts it in doubt; ticks bring the mirror to what the rule asks for, and RoleLogic's list with it if the mirror is not in doubt; the row of a link deleted upstream goes away by itself if it grants to anybody |
| `SyncHistory_steady` | `SteadyInv` `ReadInv` `CalmInv` `SteadyKeepRole` `NoGroundlessGrant` `UndisturbedJobsSettle` `LinksAreNotForgotten` | under every change and every failure, a job takes no role from somebody entitled to it throughout by an unchanged rule, and gives it to nobody who did not satisfy a rule of the link as a member while the job ran; it deletes no row of a link that was merely toggled off; a job that nothing disturbs ends with what the rule asks for |
| `RoleConfig_tabs` | `TypeOK` `LoadedTabsNeverClobber` `ChangesAreSynced` | a save of a freshly loaded tab overwrites only the tree that tab was shown, and unless something fails it is followed by a config_sync |
| `ListUpload_swap` | `TypeOK` `UploadInv` `NoStraySession` `ListsAreSwapped` `UploadsReturn` | lost, late and refused calls and crashes: the list only changes to the whole list of an upload, results are true, no session is left behind by calls that were answered, every upload returns |
| `Access_window` | `TypeOK` `EditsAreGranted` `ListWasAllowed` `SignInOnlyWhenNeeded` | an edit goes back to a manager within the lifetimes of the tokens, through sessions for this person and link; birthdays are shown to whom the setting allowed; an outage of the gateway sends nobody to sign in |
| `BirthdayRules_days` | `TypeOK` `FactsAgree` `QueryAgrees` `CelebratedOnTheDay` `NobodyUntilConfigured` `NumbersFailClosed` `StoredTextsCanMatch` `CountdownExact` `AgesOnTheDay` | leap days, turns of centuries and ends of years under every target with every operator: Rust and SQL know the same; a bulk query fails just when a list has a number beyond int4 or Postgres refuses a pattern, and otherwise both judge the same, if the dialects read the tree's patterns alike on that member |

Runs that find a violation are [findings](#findings).

**Bounds.** Every bound is a constant that a guard reads.

- JobQueue: two workers in two replicas (one for `JobQueue_shutdown`), two jobs of one
  link (so that the tick's check for a pending one matters), batches of two, two attempts,
  one fault, one shutdown. Two of each is where contention, a batch with a rest, and
  "retry or dead" first happen; the fault is a crash, a lost claim, a lost write or a
  lock that expires under a worker, next to any reap, release and restart. Two faults are
  beyond five minutes; the theorems lift the bounds for everything but liveness.
- Sync: one or two members, one link, one or two workers, a limit of one (two in
  `SyncHistory_steady`), one to three changes by the outside world (a link's
  deletion and its creation anew are two of them), one failure, two tokens where links are
  created anew. Links
  share no state but the worker, so one is enough for properties about a link. Ticks and
  retries are not bounded. Between them the runs use every kind of change and of failure.
  `Sync_mirror` has one member, whom a change of the birthday or of the rule puts on the
  list and takes off it; a list cut off at the limit (two members, a limit of one) is in no
  run of liveness, but in the theorems `MirrorIsExact` and `UndisturbedSettle`.
- RoleConfig: two tabs, three trees, two saves, one failure, two registrations (three
  saves without failures or registrations in `RoleConfig_clobber`). The theorem
  covers any number of each.
- ListUpload: two uploads of up to two users, more than one going up in chunks of one.
  Two chunks is where a part of a list could be committed; two uploads is where one
  could meet the other's session. Links are toggled and deleted freely; the network
  holds what was sent. The theorems cover any members, uploads and sizes.
- Access: one person, who may be a manager, a member or a developer from outside, two
  links, one JWT, one page, a clock of four ticks with lifetimes of a tick (zero for
  the JWT, which has the skew on top): every lifetime passes. Persons share nothing
  but the setting, so what a second one does is what `setting` may become. The
  theorems cover any number of each.
- BirthdayRules: seven days around February's end, New Year and mid-year, without a
  year and with 1899, 1904, 1999, 2000 and 2101, from four first days in 1904, 1999,
  2023 and 2099. The birthday may be corrected on the first day (`SaveDays = 1`) and is
  followed for 500 days; a rule is saved on the first day and judged through two
  midnights. Rules: each target with each operator and literals below, among and above the
  members' facts, mistyped, misspelt and capitalised ones; each condition alone, with
  another by AND and by OR, and in trees that are malformed or too large. The theorems
  cover every date and every tree.

Deadlock is checked for JobQueue. The other systems really may stop: a `Sync` with its
bounds used up, tabs that saved what they may, uploads that have all ended, a clock
or a calendar at its end.

`RoleConfig_tabs`, `RoleConfig_clobber` and `Access_window` are reduced
by the symmetry of tabs and of links: no definition tells them apart,
and none of these runs checks liveness.

## Findings

Each is a run that TLC finds violated.

| Run | What happens |
|---|---|
| `JobQueue_shutdown` | the shutdown signal is a message, and the check inside the batch consumes it: that worker releases one job, runs the rest and loops for ever; `main` never joins it |
| `Sync_unlink` | without any failure: two player_sync jobs of a member who saves and unlinks overlap, the calls reach RoleLogic in one order and the mirror in the other. The role stays with a member who removed the birthday; mirror and rule agree, so nothing ever takes it away |
| `RoleConfig_clobber` | the version a save answers with is read after another tab's save, and the tab's next save overwrites that one unseen |
| `Sync_restore` | after the recovery of `OPERATIONS.md` ("restoring `birthdays` + a tick is sufficient to reconverge") the mirror is empty. If nobody qualifies, the target equals it, so no tick sends anything, and whoever RoleLogic gave the role to keeps it |
| `BirthdayRules_evaluators` | "Both must agree" (`condition_eval.rs`), and they "always agree" (`birthday.rs`): not by a pattern that the Rust crate takes and Postgres refuses, as a named group `(?P<n>...)` (the bulk query fails for everybody); not by one that each reads in its own way, as `\b`, a word boundary in Rust and a backspace in Postgres; not by a list with a number beyond int4 (the query fails again). Each of the three alone violates it, and the configuration has all three |

The passing runs say how far each goes. `MirrorConverges` holds under everything
that makes a mirror doubtful, so the database alone always looks right afterwards;
`UpstreamConverges` holds of every link that is not in doubt in the end, and a link is
cleared of doubt by the next whole upload, which comes as soon as the rule asks for anything
but what the mirror has; `Sync_restore` needs an empty target for the same reason.
`LoadedTabsNeverClobber` holds as soon as a tab reloads before it saves again.
`QueryAgrees` says exactly when the two evaluators differ.

The premises of the passing runs are needed. Changing a constant shows what each
keeps out:

- `j \notin lapsed` in `NoDoubleProcessing`: jobs queued behind slow ones go to a second
  worker when 30 minutes pass, and run twice; and `KeepsLease` without `Lapse`: the first
  worker's verdict is then written over the second's.
- `l \notin doubtful` in `UpstreamConverges` and `MirrorExact`: an `add_user` that was applied
  and not answered leaves a role that no later unlink or tick finds, and so does a
  link deleted and created again, which keeps the mirror of its predecessor while RoleLogic's
  list is empty.
- One and the same rule in `SyncHistory_steady`: a member who is entitled by the old rule and
  by the new one is not steady for a job claimed before the save. A config_sync that read the old
  rule and then newer facts can drop such a member (`SteadyKeepRole`); the save's own
  config_sync brings the member back.
- `Limit = 1` in `SyncHistory_steady`: the list is cut off after the members were read in one
  step and judged in a later one. Somebody who has left the server in between, but
  satisfies the rule by then, takes a place on it from a member who was entitled
  throughout (`SteadyKeepRole`). The other properties of that run need no such premise.
- `exact` in `UndisturbedJobsSettle`: the mirror is all a job compares with. A mirror that
  was wrong when the job was claimed, and equals what the rule asks for, sends nothing,
  undisturbed or not.
- `NoStraySession` excepts uploads with a call that got no answer, and a cancel
  that was refused: the start may have been served late, or the cancel not at all.
- `LoadedTabsNeverClobber` speaks of the row that was loaded: versions start at 1
  again with a new row, so a tab of the old link can match and overwrite it.

## Fairness

`JobQueue!Fairness`: each worker goes on (tokio runs ready tasks; each await has a
timeout); the reap statement is executed again and again (strong: `ReapStuck` and
`SkipReap` compete at the same place, and the timer elapses every `reap_every`);
clocks advance (`BecomeDue`, `OrphanLockExpires`); a process whose workers have ended exits,
and the orchestrator starts it again. No fault and no producer is fair, and
neither is a shutdown. `WF(WorkerStep)` does not choose among verdicts.

`Sync!Fairness`: a worker's step ends, the tick comes again, RoleLogic registers
what it created, and a pending job is not overtaken for ever (strong: workers
may be busy, but are idle again and again; `ORDER BY id` makes claiming
first come, first served). Nobody in `World` is fair but `Register`.

`ListUpload!Fairness`: each call of an upload ends, by its answer or by its timeout
(`CHUNK_TIMEOUT`, `COMMIT_TIMEOUT`, 30 s for the others). RoleLogic and the network are
not fair.

The violations of temporal properties (`JobQueue_shutdown`, `Sync_unlink`,
`Sync_restore`) are under
these, so they are not just systems that stop.

## Proofs

`tlapm` proves the eight `*Proofs` modules to the last leaf. Assumptions are the
named `ASSUME`s of the modules (types of the constants; a catalogue of signs has
twelve entries, and the like) and the premises in the table.

| Theorem | Says |
|---|---|
| `JobQueueProofs!QueueInvariant` | `Spec => []QueueInv` |
| `JobQueueProofs!TypeCorrect` | `Spec => []TypeOK` |
| `JobQueueProofs!NothingDropped` | `Spec => []InFlightNotDropped`: without a crash or a lost write, each row in progress is in a worker's batch |
| `JobQueueProofs!SingleProcessing` | `Spec => []NoDoubleProcessing`: no two workers run one job, but for a job whose own lock has expired under a worker |
| `JobQueueProofs!AttemptsLimited` | `Spec => []AttemptsBounded`, also when locks expire under live workers |
| `JobQueueProofs!QueueKeepsLease` | `Spec => KeepsLease`: `JobQueue` implements `JobLease` |
| `SyncProofs!TypeCorrect` | `Spec => []TypeOK`, what each worker holds at each step included |
| `SyncProofs!SteadyMembersHeld` | if nobody is cut off by user_limit, `HSpec => [](TypeOK /\ SteadyInv)` |
| `SyncProofs!SteadyMembersKeepRole` | if nobody is cut off by user_limit, `HSpec => SteadyKeepRole`, for any number of workers at once, any changes and any failures |
| `SyncHistoryProofs!ReadsAreGrounded` | `HSpec => [](TypeOK /\ ReadInv)` |
| `SyncHistoryProofs!GrantsAreGrounded` | `HSpec => NoGroundlessGrant` |
| `SyncHistoryProofs!RowsStay` | `HSpec => LinksAreNotForgotten` |
| `SyncHistoryProofs!CalmJobsAreUpToDate` | `HSpec => [](TypeOK /\ CalmLinks /\ CalmInv)`, where `CalmLinks` types `calm` |
| `SyncHistoryProofs!UndisturbedSettle` | `HSpec => UndisturbedJobsSettle` |
| `SyncProofs!MirrorInvariant` | `MSpec => []MirrorInv` |
| `SyncProofs!MirrorIsExact` | `MSpec => []MirrorExact`, for any number of workers at once, any changes and any failures: no premise |
| `ListUploadProofs!UploadsKeepInv` | `Spec => []UploadInv` |
| `ListUploadProofs!UploadsTypeCorrect` | `Spec => []TypeOK` |
| `ListUploadProofs!UploadsAreAtomic` | `Spec => ListsAreSwapped`: `ListUpload` implements `AtomicList` |
| `ListUploadProofs!NoSessionLeft` | `Spec => []NoStraySession` |
| `RoleConfigProofs!ConfigTypeCorrect` | `Spec => []TypeOK` |
| `RoleConfigProofs!LoadedTabsSafe` | `Spec => LoadedTabsNeverClobber` |
| `RoleConfigProofs!SavesAreSynced` | `Spec => []ChangesAreSynced` |
| `AccessProofs!AccessKeepsInv` | the inductive invariant of `Access` |
| `AccessProofs!AccessTypeCorrect` | `Spec => []TypeOK` |
| `AccessProofs!OnlyGrantedEdits` | `Spec => []EditsAreGranted` |
| `AccessProofs!ListIsGuarded` | `Spec => ListWasAllowed` |
| `AccessProofs!NoFalsePrompt` | `Spec => SignInOnlyWhenNeeded` |
| `BirthdayRulesProofs!RulesKeepInv` | the inductive invariant of `BirthdayRules` |
| `BirthdayRulesProofs!RulesTypeCorrect` | `Spec => []TypeOK` |
| `BirthdayRulesProofs!BothAreToldTheSame` | `Spec => []FactsAgree`, on every day of every year |
| `BirthdayRulesProofs!BothJudgeTheSame` | `Spec => []QueryAgrees`, for every tree and every pair of regex dialects: when the query fails, and that the evaluators agree when it does not and the patterns of the tree are read alike |
| `BirthdayRulesProofs!MissingNumbersGrantNothing` | `Spec => []NumbersFailClosed` |
| `BirthdayRulesProofs!TextsCanMatch` | `Spec => []StoredTextsCanMatch` |
| `BirthdayRulesProofs!NobodyBefore` | `Spec => []NobodyUntilConfigured` |
| `BirthdayRulesProofs!CelebrationsAreOnTheDay` | `Spec => []CelebratedOnTheDay` |
| `BirthdayRulesProofs!CountdownIsExact` | `Spec => CountdownExact` |
| `BirthdayRulesProofs!AgesGoUpOnTheDay` | `Spec => AgesOnTheDay` |

**JobQueue.** None of these is inductive alone. That two workers never run one job needs
that a claimed job's row is in progress, not stale, and claimed for the last time by that
claim (`ClaimsCurrent`, of jobs that have not lapsed), so that neither `claim_batch` nor the reaper touches it; of two
claims of one job, both would be the last (`OneHolder`, from `ClaimsNumbered`: no two
claims of a row have the same number). `ClaimBatch` keeps this because a worker that claims
has nothing left in its batch (`OnlyBatchesHold`). New rows meet no old claim because
ids are handed out once (`FreshIds`).

`AttemptsBounded` is a matter of counting, and holds without any of that. A worker whose
lock expired may put back a row that another worker has put back, or is running; the
reaper and the release look at no attempts. What bounds them is that each return to
pending is paid for: by a reap or a release, which `unjudged` counts, or by the one
claim below max_attempts that its worker then no longer has. `RetriesAccounted` adds
this up, with `MayRetry(j)`, the claims that may still do so, on the side of what
is spent; numbers are distinct (`ClaimsNumbered`), so there are at most
max_attempts - 1 of them. `FewerMayRetry`, `OneLessMayRetry` and `OneMoreMayRetry` say how
each action changes that set.

`InFlightNotDropped` carries its own weight: it is kept without `ClaimsCurrent`,
by looking at the worker whose claim set the row's `attempts`. `QueueInv` is
the conjunction; `TypeStep`, `ControlStep` and `TableStep` show that steps keep its
parts, with one lemma for each action that changes the table. The refinement maps
`owner` to the one worker that holds the job, or to nobody once it has lapsed, and
`LeaseStep` maps each action to `Insert`, `Take`, `Finish`, `Abandon`, `Recover`, `Delete`,
`Lapse` or a stutter; of a step on several rows the lapsed ones stutter.

**RoleConfig.** The lock is safe because the version never goes back while the link
keeps its row, and each version of a row stands for one tree. The invariant
(`LockInv`) says so of everything that carries a version: what tabs were shown
(`ViewsStand`), what refreshes have fetched (`FetchesStand`) and what requests were
sent with (`RequestsStand`) is of an earlier row, or older than the row's version, or
the row's tree. `StandsKept` shows that no step ends that; the rest is where such a
triple comes from.

That saves are synced (`SyncInv`) needs to know where a changed tree is between the
UPDATE and the enqueue: a change nobody has enqueued a job for belongs to a save
that is still on its way there, or something has failed.

**Sync.** What keeps a role is that everything a job acts on was read after it was
claimed. `SteadyInv` says so for each step: the rule a worker has read is the rule
as it is, for a link that still has steady members (a rule that changes or goes away
with its row leaves nobody steady); the members
it fetched and the list it made contain them; a drain is of a link without any; a
player_sync removes nobody of them. Nothing else a worker holds matters, so other
workers, failures and the queue do not come into it: `OthersGoOn` shows that they
leave it alone. `KeepStep` is the property, by the two calls that can take a role away.

What gives a role is the same the other way round, and needs no premise. `ReadInv` follows
each thing a worker holds to a moment since the claim: the rule, the membership it was
told, the birthday it judged by. They may be of different moments, so a member can be
granted a role by a rule and a birthday that never met; `Grounded` says no more than
that, and `GrantStep` is the property, by the two calls that can give a role.
`PlayerReadsGround` and `ConfigReadsGround` have a case for each step. Tokens are followed
in the same way (`PresentedStep`), and `ForgetStep` has the three places where a row is
deleted on what RoleLogic answered.

What a job achieves is said of one that is left alone. `CalmInv` has for each step what
is up to date of a link that nobody else has touched, up to the snapshot of the DELETE; an
action that is no longer to be done has been done, or was not needed. A failure or
another's write ends it, so each step of the job has one outcome (`NoFaultHere`) and
every step that is not the job's leaves all it depends on alone (`StaysUpToDate`).
`PlayerReadsSettle`, `PlayerActionsSettle` and `ConfigSettles` have a case for each step,
with what it leaves behind when the job ends there (`Settled`).

`MirrorInv` says of a link that is not in doubt what is behind `MirrorExact`: at most one
worker owes its mirror anything (`Sure`), and what that worker holds makes up for the
difference (`MakesUp`: the list it uploaded, or its one call, which `Once` says is one). Whoever
owes nothing leaves the difference alone, and a step that ends a debt either
writes the mirror, or disturbs the link. After a whole upload nobody else can owe
anything, or the link stays in doubt.

**ListUpload.** A request can be served long after its client has given up, so the
invariant speaks of the network: a commit under way finds its whole list staged
(`Staging`), because the last chunk was acknowledged before it was sent and a chunk
that was not acknowledged is followed by a cancel only (`Order`, `Bodies`); no write
under way is of an upload that was applied (`Told`). From these each step maps to a step
of `AtomicList` or to a stutter. For `NoStraySession`, `SessionInv` adds that an
upload without trouble has no start under way once its start was answered, and a
closed session once its cancel was.

**Access.** The invariant gives each credential its origin: a JWT that is not
read-only has a holder who managed the server `JwtTtl` before it expires or later, a
session has its JWT, a request its session or the gateway's answer, an edit its
request. `EditsAreGranted` adds the lifetimes up. The two action properties follow from
what a request of the users page remembers at each of its steps.

**Dates and rules.** `BirthdayProofs` has what dates rest on: 28 to 31 days, leap years,
day numbers that go up by one each midnight, 365 or 366 days from a celebration to
the next. `FactsAgree` is proved from it fact by fact: the countdown and the ages that
Rust computes from dates are what the SQL functions compute from day numbers.
`QueryAgrees` then goes target by target and operator by operator: under the
invariant (`RulesInv`: stored columns were derived from a valid birthday, and the
tree is one the validator made) each condition has the same truth value on both
sides, NULL where the fact is missing, and so have groups and trees.

`NumbersFailClosed` follows from how both evaluators take a number that is missing
(`None` and NULL fail every comparison), and `StoredTextsCanMatch` from the catalogues: each
text that `normalize_value` lets through is a sign, a season, a stone or a day that some
birthday has.

Only model-checked: the liveness properties, since TLAPS has no ENABLED and hence no
fairness. `UndisturbedJobsSettle` is the safety half of `MirrorConverges` and
`UpstreamConverges`: what is left to TLC is that some job is undisturbed in the end. Every
invariant and every action property of the runs that pass is a theorem.

## Not modelled

- Previews: the count of linked and matching members, and preview answers that come
  back late. They change no state of the server.
- In the tab: rendering, and the control for the view permission, whose answers may
  come back out of order and leave it showing the older of two choices.
- A shutdown signal between the spawn of the server's task and its subscription
  (`main.rs`): the window is there, but the worker is what `JobQueue` is about.
- Time zones: `normalize_tz` and the two databases of zones, one on each side. A
  time zone is the local date it gives.
- The two regex dialects, which `RuleTree` has as constants (what each refuses and what it
  matches): what a regex means.
- The plan of the bulk query. Postgres is taken to plan it with the values bound, which it does
  for a statement that is prepared and executed once.
- An operator's replay of dead jobs (`OPERATIONS.md`), which is SQL typed by hand.
- The listener's connection: a wake-up may come at any time or not at all (`Wake`),
  and polling makes up for it.
- On the users page: sorting, the limit of rows, and `show_year`, which hides a column.
- `error.rs` beyond the statuses of `Status`: no modelled statement violates a constraint
  that it maps.
- Start-up, configuration, schema, headers, health, logging, the database pool, the Dweeb
  proxy: pure input and output, or nothing that changes over time.

## What could follow

The modules are complete for the code they map. What they leave for stronger results:

- `JobQueue` with `Sync`: `Sync` abstracts the queue to how many copies of each job wait,
  some of which run again; that `JobQueue` implements this abstraction is argued in the
  comment of `Sync`, not checked.
- The late write of an abandoned upload in `Sync`, which `ListUpload` has.
