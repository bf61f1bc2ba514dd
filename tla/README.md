# CheckStation: TLA+ models and proofs

Models of the stateful core of the `attendance-saas` repository (CheckStation), the TLC
configurations that check them on small instances, and TLAPS proofs of their most important
properties. Paths are relative to `src/`; most of them lie under `src/backend/`.

Run, in this directory:

    tlc -config KioskConcurrent.cfg MCKioskAttendance     # model-check one run
    tlapm KioskAttendanceProofs.tla                       # check one module's proofs

## 1. The system

CheckStation is a multi-tenant Django application. A workspace (Organization) has Groups; a Group
has participants (memberships of Members, and group-only participants) and a kiosk at which they
check in, take breaks and check out. Actions become ActionRecords; some trigger emails. A workspace
has a plan, bought at Stripe (or an app store), which limits what it may hold. Request threads,
an outbox worker, webhooks and periodic commands meet in one PostgreSQL database; row locks
(`select_for_update`) and short transactions are the only coordination.

| component | code | state | operations | hard because | what makes it correct |
|---|---|---|---|---|---|
| Attendance rules | `attendance/services.py`, `kiosk_builder/attendance_reset.py` | none: derived from ActionRecords | state of a participant, valid actions, reset boundary (Daily, Rolling, Reset now) | state is recomputed from timestamps over overlapping windows | agrees with the history; windows never reopen; break cap |
| Kiosk perform | `attendance/views.py`, `attendance/services.py` | ActionRecord, outbox row, row locks | perform; owner's archive, restore, deactivate, Reset now | check, stamp, lock, derive and insert are separate steps | two requests never act on one pre-action state |
| After-action email outbox | `groups/email_outbox.py`, `groups/email_sender.py` | GroupEmailOutboxJob, GroupEmailDelivery | enqueue, claim, reclaim, send, record, conclude, retry | workers crash, stall and overlap; SMTP fails half way | ends once, truthfully, without sending twice |
| Stripe Checkout | `billing/checkout_attempts.py` | WorkspaceCheckoutAttempt, Stripe session | claim, resume, create, persist, change plan, complete, reconcile | no lock across Stripe calls; payment at any moment | never two subscriptions, never the wrong plan |
| Provider events, reconciliation | `billing/webhooks.py`, `billing/reconciliation.py` | ProviderEvent, WorkspaceSubscription | claim, dispatch, conclude, reclaim, converge | duplicates, retries, order, crashes, snapshots read before the lock | one dispatcher; the row ends up saying what Stripe says |
| Commercial billing state | `billing/services.py`, `operations.py`, `builtin_trial.py`, `warnings.py` | WorkspaceSubscription, free week, Organization.plan | activate, upgrade, schedule, cancel, resume, grace, expire | time, Stripe, owner and commands act on one row | the plan follows the row; grace and paid periods are honoured |
| Entitlements, plan locks | `organizations/entitlements/`, views of Groups, Members, staff | `plan_unlocked`, `slots_resolved` | capacity check, plan change, repair, slot selection | check-then-write; long sequences of changes | never more usable than the plan allows; repairs settle |
| Workspace lifecycle | `organizations/lifecycle.py`, `accounts/deletion.py` | Organization.status | block, unblock, delete | Stripe is called inside the transaction | a blocked workspace is not charged again |
| Kiosk session lock | `attendance/kiosk_lock*.py`, `kiosk_exit_token.py` | session, cache | lock, exit, re-lock | several tabs and devices | a locked device serves its kiosk only |
| Groups, Members, kiosk builder, reports, import | `groups/`, `members/`, `kiosk_builder/` | rows | CRUD, validation, export | mostly sequential | - |
| Accounts, rate limits, admin, content | `accounts/`, `core/`, `content/`, `contact/` | rows, cache | sign-in, recovery, pages | external identity providers | - |
| Status service | `status/` | SQLite | probe, incidents | flapping | one incident per outage |
| Clients, deployment | `frontend/`, `apps/`, `packages/`, `deploy/` | - | UI over the API | - | the server enforces the rules |

Interactions: *perform* commits the ActionRecord and the outbox row in one transaction
(`maybe_run_after_action`), and the outbox worker takes it from there. A *checkout* leads the owner
to Stripe; Stripe's webhook, or the owner's next request, brings the subscription back into the
billing row, and that sets the plan, which sets the plan locks. The owner's CRUD operations change
rows that *perform* has looked at.

`PROJECT.json` lists every component with its status, the hazards at their lines, and for each
definition the code it stands for.

## 2. Modules

    AttendanceRules <- KioskAttendance <- MCKioskAttendance     BillingRules <- StripeBilling <- MCStripeBilling
    OutboxPromise   <= EmailOutbox     <- MCEmailOutbox         CheckoutAttempts <- MCCheckoutAttempts
                                                                PlanLocks <- MCPlanLocks
    (<- extended by, <= implemented by; each column's component has a ...Proofs module that extends it)

    BillingRulesProofs <- StripeBillingProofs <- StripePeriodProofs <- StripeAgreeProofs

### Attendance

`AttendanceRules` (pure operators) is `compute_current_attendance_state`,
`get_valid_actions_for_state` and the three boundary computations. A history is a set of entries
`[id, action, at]`; "newest" is the order `(performed_at, id)` of `_is_newer`. A day is `DayLength`
ticks and the Daily reset falls at tick `DailyTime` of it; null boundaries are `NoBoundary`. The
Group's settings are CONSTANTS.

`KioskAttendance` is one Group's live kiosk. A request thread goes through the steps of the code:

| action | code |
|---|---|
| `Admit` | `GroupKioskPerformView.post`: unlocked checks on the Group and the participant |
| `Stamp` | the view's `timezone.now()` |
| `LockRow` | `select_for_update` and, for memberships only, the second status check |
| `ReadState` | boundary, state and valid actions from committed records; refusal ends the request |
| `Commit` | insert, outbox row, commit, unlock |
| `Abort` | any error or crash: rollback, unlock |

Between any two of them the owner may archive or restore the Group, deactivate or re-add a
participant (both wait for the row lock, as the UPDATE does), archive or restore the Member (another
row: no wait) or press Reset now, and the clock may advance. `windowOf` and `ownerSteps` are history
variables. `Ids`, `InOrder` and the properties built on them read the history independently, in commit
order, and the timestamp derivation is compared with that reading.

### Email outbox

`EmailOutbox` has the job rows, the delivery rows (`sent`, `failed`, `lastFailure`), the recipients'
mailboxes (`received`) and the memory of each worker process. A pass is `Reclaim`, then `Claim` of up to
`Limit` due jobs with SKIP LOCKED, then per job `NextJob`, `Begin`/`Skip`/`Refuse`, `Send` (the SMTP batch
with any per-recipient outcome), `Record` (one delivery row per step) and `Inspect` (the verdict:
succeeded, permanent failure, retry with back-off, or failed when attempts are used up). `SendRaises` is
the error that `process_outbox_job` catches around all of it, before anything is sent or between two
delivery rows: the worker lives on and the job has an ordinary retry. `Crash` may fall at the same points,
forgets a worker's memory and nothing else. `brokenOff` is a history variable: the jobs an attempt of which
ended, in either way, behind a SENT row and before its last row. `GrowsStale` is the passing of 15 minutes
on a processing job: always possible for a job of a dead worker, and for one in live hands only if the
constant `LiveStalls` is TRUE.

`OutboxPromise` is the abstract specification: per job an outcome (none, open, succeeded, failed)
and a set of confirmed recipients. The refinement mapping is `Outcome` (pending and processing are
both open) with `confirmed <- sent`.

### Stripe Checkout

`CheckoutAttempts` is one workspace. `attempt` holds the database rows, `session` Stripe's sessions
(named after the attempt whose idempotency key made them: Stripe answers the same key with the same
session and refuses other parameters), `handed` the URLs returned together with the plan that was
asked for, `billing` the session whose subscription the workspace follows, and `request` the memory
of each API call. `Start` is the claim and the routing; `Resume`, `Reclaim`, `Create`, `Persist`,
`Change`, `Expire`, `Replace`, `Complete` and `Reconcile` are the stretches between two Stripe calls
or commits; every Stripe call may fail, before or after it took effect. `Pay` and `SessionExpires`
are Stripe's and the owner's; `SessionCompleted` and `SubscriptionChanged` are the webhook's
dispatch, at any time after payment and any number of times. Three history flags say what has
disturbed the simple course: requests overlapped, a session that may be open was given up, a
completed attempt was left without reconciliation.

### Billing

`BillingRules` is `billing/services.py`, `billing/builtin_trial.py` and `billing/reconciliation.py` as
pure transitions of a workspace `[plan, row, trial]`. A transition returns the *set of its outcomes*:
one workspace, or none where the code raises `BillingStateError`, so that an event that fails and an
event that changes nothing are told apart. `Reconcile` follows `reconcile_subscription_snapshot`
branch by branch; `ReconciledInPart` is what a process leaves that dies between the transactions the
reconciliation consists of outside the webhook; `ApplyDueTransitions` and `ExpireDueTrial` are what
the passing of time does when somebody looks.

`StripeBilling` puts them in motion:

| part | actions | code |
|---|---|---|
| Stripe (external) | `Subscribe`, `PeriodEnds`, `RetrySucceeds`, `GivesUp`; each changes a subscription, counts a version and creates the events that report it | how `stripe_provider.py` and `webhooks.py` use it |
| webhook request | `Claim`, `Retrieve`/`RetrieveFails`, `Apply`/`ApplyRolledBack`, `MarkProcessed`/`MarkFailed`, `Crash`, `AnswerInProgress` | `process_provider_event` and what it calls |
| owner's request | `OwnerReads` (unlocked), `OwnerCalls` (Stripe), `OwnerWrites` (under the lock), `OwnerRefused`, `OwnerInterrupted` | `billing/operations.py`, one of eight operations |
| platform | `SendPaymentWarnings`, `ExpireTrial`, `Block`/`BlockFails`, `Unblock`/`UnblockFails` | the daily commands, `organizations/lifecycle.py` |
| time | `Tick` | |

Blocking, unblocking and the event of a blocked workspace call Stripe *inside* their transaction
(`lifecycle.py:199`, `lifecycle.py:218`, `webhooks.py:288`), and the call is a `modify` followed by a
`retrieve` (`stripe_provider.py:460`). `TellsToEnd` and `TellsToGoOn` are the `modify`. In `BlockFails`,
`UnblockFails` and `ApplyRolledBack` Stripe has been told and an error or the end of the process rolls the
local side back: Stripe has changed and reports it, the workspace, its status and the row have not. An
error before the `modify` rolls back everything and is no step, or, for an event, leads back to the
provider's retry.

Events stay due until they are answered: they arrive at least once, in any order, and again after a
crash or an error. An event row that Stripe has finished with is forgotten (`FreeSlot`), so `Events`
bounds only what is under way. `flaws` is a history variable: it names the circumstances under which
the code cannot keep the row and Stripe in agreement and lets a run stop there (`Tolerated` = {}) or
go on.

| flaw | circumstance |
|---|---|
| `overtaken` | a snapshot is applied after a newer one: snapshots carry no version (`reconciliation.py:99`) |
| `late` | a `payment_failed` event is applied after the payment was made (`webhooks.py:395`) |
| `lost` | a worker dies after a repeated delivery was answered with success (`webhooks.py:253`) |
| `torn` | Stripe was told something no later event will put into the row, and the write failed: a request of the owner (`operations.py:531`), or an unblock of a past due workspace (`lifecycle.py:252`) |
| `half` | a reconciliation outside the webhook stopped between lowering the plan and writing the row (`reconciliation.py:253`) |
| `behind` | an owner's request goes by a row that has not the plan, interval and period end of Stripe: it writes a date or a cancellation that Stripe did not answer for (`services.py:406`), or an upgrade takes Stripe back to the row's interval (`operations.py:355`) |
| `refused` | the request to cancel for a blocked workspace failed, before or after Stripe was told; this is only logged (`webhooks.py:288`) |
| `old` | an event of a subscription that has a successor (`reconciliation.py:121`) |

### Plan locks

`PlanLocks` is one workspace's records (Groups, Members, staff accounts). `place` is the category a
record counts in, `unlocked` the set of records whose `plan_unlocked` is true, `resolved` the
`slots_resolved` flags. `ChangePlan` is `apply_effective_plan` with its synchronisation, `SelfHeal` the
repair every page load makes, `Select` the owner's slot selection. A request is two actions, `Check`
(the capacity and lock checks) and `Write`, because the code holds no lock between them; `Write`
saves the lock it read (a whole-row save) or only the status, as the view does. `GiveUp` is an error or
a dead process. `overlapped` says that some request met another change between its two actions,
`touched` that a record changed since the locks were last computed.

## 3. Runs

| run | bounds | checks |
|---|---|---|
| `KioskConcurrent` | 2 threads, 1 member, 1 visitor, 3 records, 3 ticks across the turn of a 2-tick day, 2 owner steps, Daily | `TypeOK`, `SerializedLegality`, `RecordInItsWindow`, `MembershipGate`, `PresenceNeedsCheckIn` |
| `KioskRolling` | 2 threads, 1 member, 4 records, 4 ticks with a duration of 2, 1 owner step, Rolling | `RollingExpiry`, `BreakCapBeforeCheckOut`, `LastRecordShows`, `NotExpiredEarly`, `PresenceNeedsCheckIn` |
| `KioskBreakCap` | 1 thread, 6 records, one day | finding: `BreakCapPerCycle` |
| `OutboxCrash` | 2 workers, 2 jobs, 2 recipients, 2 attempts, 1 crash, no live stalls | `TypeOK`, `OneOwner`, `NeverResend`, `SuccessIsReal`, `AttemptsBounded`, `AuditedUnlessBrokenOff`, `TerminalIsFinal`, `KeepsPromise` (refinement of `OutboxPromise`) |
| `OutboxStall` | 2 workers, 2 jobs, 1 recipient, 1 crash or live stall, fair | `SuccessIsReal`, `EveryJobEnds` |
| `OutboxAudit` | 1 job, an error or a crash | finding: `SuccessIsAudited` |
| `CheckoutFlow` | 2 overlapping requests, 3 attempts, 2 plans | `TypeOK`, `RowsAgreeWithStripe`, `OneSubscriptionUndisturbed`, `HandsWhatWasAskedAlone`, `ConcludedStays` |
| `CheckoutSecond` | the same | finding: `NoSecondCheckout` |
| `BillingFlow` | 1 subscription, 2 workers, 2 events under way, 3 changes at Stripe, 3 ticks, period 2, free week until 2, grace 1, no flaw tolerated | `TypeOK`, `OneDispatcher`, `PlanFollowsRow`, `NothingForgotten`, `EndedAgrees`, `QuietAgrees`, `BlockedEnds`, `GraceHonoured`, `DowngradeAwaitsPeriod` |
| `BillingSchedule` | 1 worker, 4 ticks, `behind` tolerated | finding: `ScheduledForPeriodEnd`, which is `DowngradeAwaitsPeriod` whatever has occurred |
| `PlanLocks` | 2 overlapping requests, 3 Groups (1 Structured), 2 Members, 3 accounts, 5 operations, 1 plan change among 3 plans | `TypeOK`, `RepairHolds`, `WithinPlan`, `OvershootBounded`, `UnselectedStaysLocked` |
| `PlanRepair` | 1 request at a time, 3 Groups, 4 operations | finding: `ResolvedUntilPlanChanges` |

Every bound is a guard with a named constant (`MaxClock`, `MaxRecords`, `MaxOwnerSteps`,
`MaxInterruptions`, `MaxAttempts`, `MaxChanges`, `MaxOperations`, `MaxPlanChanges`) or the size of a
set. They suffice for the cases of interest: two requests of one participant meet in every step with a
third record before or after; the clock crosses a Daily reset and outlives a Rolling window; a job is
retried, crashes and runs out of attempts while a second worker claims and reclaims; a checkout is
replaced, expires, is reclaimed and paid with a third attempt still free; a subscription is bought in
the free week or after it, renewed or not paid, and a third change (a request, a block, a retry, the
end) meets the events of the first two; a category is filled beyond a smaller plan's limit, locked,
selected from and filled again while a second request is between check and write. The catalog of
`MCPlanLocks` has the shape of `_PLAN_CATALOG` (features missing, limits that shrink) with small
numbers; the workspace starts on the largest plan, from which the one plan change leads down.
`BillingFlow` was also run with one worker and 4 changes, and simulated at random, to a depth of 60, with
three events, 6 changes and 6 ticks.

Symmetry is used for workers, jobs, attempts, requests, events, Members and accounts (Groups are
ordered by creation), never in a run with a liveness property. Deadlock is not checked: all these
systems may come to rest (no request, no job, bound reached).

What the passing runs show. *Attendance*: performs are serializable per participant although the state is
derived from timestamps stamped before the lock; a record belongs to the window it was judged by; an
inactive membership gets no record; nobody appears present by the passing of time or by a reset; Rolling
presence lasts for the duration and no longer; the derived state agrees with the last record. *Outbox*: a
job has one owner, a recorded recipient is never sent to again, attempts are bounded and outcomes final as
long as only dead workers' jobs are reclaimed, and a job that succeeds has a row for every recipient unless
an attempt was broken off between rows; even when live workers' jobs are reclaimed, success means a
delivery and every job ends. *Checkout*: rows agree with Stripe and concluded attempts stay so under any
interleaving; with requests one after the other, no open session given up and no reconciliation lost, the
owner cannot pay twice, and a URL always sells the plan that was asked for. *Billing*: an event is
dispatched by one worker at a time; once the free week is over the plan is that of the row; when nothing is
under way and none of the eight flaws has occurred the newest change at Stripe has reached the row, a
subscription that ended at Stripe ends in the row, the row says what Stripe says, and a blocked workspace's
subscription is to end; repeated failures and late answers never move or cut short the grace; a paid
Business plan is not lowered in the middle of a period. *Plan locks*: without overlapping requests no
sequence of operations, plan changes, repairs and selections exceeds the plan; with them, only by as many
records as there are requests at once; one repair settles the locks; what the owner did not select stays
locked.

### Findings

* **KioskBreakCap** - after a check-out, a new check-in of the same window bounds its cycle by the
  *old* check-out: the cycle is empty and `max_breaks` is not enforced.
* **OutboxAudit** - a database error or a crash between two delivery rows leaves only SENT rows; the
  retry takes the job for fully sent and the remaining recipients have neither a SENT nor a FAILED row.
* **CheckoutSecond** - an attempt is committed as completed before its subscription is applied. When
  the application fails, the next request finds neither an active attempt nor a subscription and
  creates a second session for a workspace that has already paid.
* **BillingSchedule** - a change scheduled while a payment is overdue takes its date from a row that a
  past due subscription no longer keeps up to date; the date is already past and the next daily
  command carries the downgrade out in the middle of the paid period.
* **PlanRepair** - DELETE archives a Group without looking at the archived limit; the next page load
  finds the locks inconsistent, locks all archived Groups and asks for a selection, though the plan has
  not changed.

Seen while modelling, outside what the runs state:

* `HandsWhatWasAsked` without the restriction to requests made one after the other does not hold:
  after an expired session the second claim can return another request's attempt for another plan.
* A comment says time is captured after the row lock (`attendance/services.py`); the view captures it
  before, so records of one participant can commit against the order of their timestamps (`InOrder`
  marks the properties that need that order). A job reclaimed from a slow but live worker is sent
  twice.
* In `reconcile_subscription_snapshot` the branches that raise or lower the plan do not look at
  `cancel_at_period_end`: the cancellation is taken over by the next event only (`ReconcileActive`).
* While a subscription is past due its events say nothing about its cancellation, so a request to cancel
  or resume that dies after Stripe was told is not healed until the payment is made.
* While a row awaits a scheduled change, an active snapshot that names neither the row's plan and interval
  nor the awaited ones is ignored (`reconciliation.py:229`): a row that was out of date when the schedule
  was written into it (the flaw `behind`) stays so until the change is due.
* An upgrade asks Stripe for the interval the row has (`operations.py:352`). When a scheduled
  change of interval has begun at Stripe and its event is still on its way, the upgrade takes Stripe back
  to the old interval and the row's own schedule then writes the new one over it: the two disagree until
  the next event of the subscription (`Reverts`).
* An unblock of a past due workspace whose transaction fails behind its call leaves the workspace blocked
  and the row cancelled, while Stripe goes on; no event says so until the payment is made. Without the flaw
  `torn` in `UnblockFails`, `BlockedEnds` is violated there. While the subscription is active the next
  event heals it: it cancels again (`Settle`).
* Unblocking during the free week sets Basic although the week still grants Business (`Unblock`).
* An archived Structured Group is counted but never unlocked: on a plan without Structured Groups the
  locks can then stay inconsistent and every page load repairs them again (`RepairHolds` excludes it).
* A deleted record reappears when an edit that read it before saves the whole row (`Write`).

## 4. Fairness

`EmailOutbox!FairSpec` is the only fair specification: the worker command loops for ever and its
container is restarted (`docker-compose.prod.yml`), so claiming, reclaiming and processing are weakly
fair; time passes, so back-off ends and a job in nobody's hands becomes 15 minutes old. Crashes and
stalls are never fair and are bounded by `MaxInterruptions`: with crashes for ever no outbox could
promise an end. The other specifications state safety. That a delivered event is eventually applied
would need Stripe's retries to go on until they succeed; they end after three days, and an event
answered in progress is not retried at all (`lost`). `QuietAgrees` and `BlockedEnds` say instead what
holds once everything that is under way has ended.

## 5. Proofs

All theorems hold for every value of the constants that satisfies the named assumptions
(`RulesAssumption`, `KioskAssumption`, `OutboxAssumption`, `CheckoutAssumption`, `BillingAssumption`,
`StripeAssumption`, `PlanLocksAssumption`): any number of participants, threads, records, jobs,
workers, attempts, requests, events, subscriptions and plans. TLC checked each inductive invariant's
conjuncts or consequences before they were proved.

`KioskAttendanceProofs` begins with the rules: the newest entry of a finite non-empty history exists (by
a finite-maximum argument); the effective boundary is an integer (`EffectiveBoundaryType`), no earlier
than Reset now, not in the future, and the passing of time only moves it on (`BoundaryMovesOn`; for the
Daily mode this is a fact about remainders, `NextRemainder`). `Presence` says what "checked in" means
without naming the newest records, and `PresenceShrinks` and `PresenceExpires` follow from it.

Its theorems: `TypeCorrect`, `Serialized`, `GateHolds`, `RecordsInWindow`, `PresenceEnds`,
`PresenceIsEarned`, `StaysForTheDuration`, `DerivationReadsLast`, `BreaksAreCapped`.
`SerializedLegality` is not inductive: that a record fits the history before it holds because its
request held the row lock since it read that history. `IInv` adds `LockInv` (a request between lock and
commit holds its lock), `ReadInv` (a locked membership is active; a decided action is valid in the
*current* history) and `TimeInv` (nothing is dated after the present). The lemmas `HistoryPrefix`,
`HistoryOfOthers` say that an insert changes neither earlier histories nor those of other participants.
`WindowInv` adds that Reset now is not in the future and that a decided request's window is one that
existed. The last four theorems compare the derivation with the reading in commit order: `IInv` and
`InOrder` alone imply them. For `BreaksAreCapped` take the last break of the cycle: it was admitted in
a state derived from the records before it, the window held the cycle's check-in and no check-out, so
the state counted every earlier break of the cycle and found fewer than the limit. An earlier check-out
takes this away (`KioskBreakCap`).

`EmailOutboxProofs`: `TypeCorrect`; `SuccessReal` for any setting of `LiveStalls`; and under
`~LiveStalls` `Owned`, `RetriesAreIdempotent`, `OutcomeIsFinal`, `AttemptsAreBounded`,
`AuditedWhole` and `ImplementsPromise` (every behaviour satisfies the safety part of
`OutboxPromise`). The key invariant is ownership: a job in a worker's hands is processing, is not stale
and is in no other hands. From it follow the freshness of the SENT filter, the attempt count carried in
memory, and the finality of outcomes; the refinement combines ownership with `SuccessReal`'s invariant.
Without the assumption these are false: a job taken from a slow worker is sent twice. The audit theorem
adds to ownership that an open job nobody has in hand has no SENT row (`Unsent`) and that rows written
and recipients to do cover all recipients (`InWork`); an attempt broken off behind a SENT row, by an error
or a crash, is what breaks the first, and the theorem is about all other jobs.

`CheckoutAttemptsProofs`: `TypeCorrect`, `RowsAgree`, `ConcludedIsFinal`. `RowsAgreeWithStripe` is not
inductive because rows are marked on answers read steps before; `CarriesPaid` says that a request
carrying the answer "complete" is right, and `SessionStep` that Stripe's sessions, once paid or
expired, stay so. `RowStep` lists every transition a row can make. `HandsWhatWasAskedFor` and
`PaysOnce` are about requests that come one after the other. Neither property is inductive. `Alone`
adds that the request in progress holds the only active attempt and that a session sells what the
attempt whose key created it was claimed for; `OnePays` adds that of the sessions that are or can be
paid there is one, which the request in progress holds (`BusyHolds`), and which its attempt, the
request that is about to reconcile it, or the subscription the workspace follows keeps from being
joined by another (`Covered`). The three history flags are where `Covered` breaks.

`BillingRulesProofs` has one lemma for each transition: from a `Sound` workspace (well typed, and no
date of the row before the end of the free week) every outcome is `Kept`: sound, with the same free
week, and its plan still follows the row once the week is over if it did before. The dates are what
makes this inductive: a scheduled change starts without setting the plan when it names the plan of the
row, which is right only because it cannot be due before the end of the free week is. Later lemmas say
what a transition makes of ended and past due rows (who ends a row, who sets a grace), of plans and
pending changes (`Becomes`: a plan is lowered by an answer or by a date, and a change the row waits for
is kept whole or dropped), and of the agreement with a subscription: when one answer makes the row
match it (`Matches`), for which rows it takes two (`Twice`), and how an answer from before the last
changes fits what the row waits for (`FitsWait`). `Accord(w, t, K, now)` says that a workspace agrees
with a subscription `t` or that the reported events `K` are enough to bring it there.

`StripeBillingProofs` lifts them to the system: `TypeCorrect`, `DispatchedOnce`, `PlanFollows`. `IInv`
says that whatever snapshot a worker or a request carries was an answer of Stripe about a subscription
that ends no sooner than the free week (`Answers`), that each busy worker holds a PROCESSING event
nobody else holds, and that the row is sound and followed unless `half` has occurred. So each
handler, whenever it runs and whatever it read before, only composes transitions that keep it.

Its second half: `AnswersReachTheRow`, `NothingIsForgotten`, `EndsAgree`, `GraceIsHonoured`. These relate
the row to Stripe through events and answers still under way. `FlowInv` says that
while no flaw has occurred the newest change at Stripe has been applied, and has ended the row if it was
the last (`Delivered`), unless an event is *waiting*: one that reports it, that nobody has applied and no
worker carries an older answer to (`Fresh`). Every change makes such an event, and an answer of the
present version is the subscription as it is (`Carries`), so only an application of that answer can use
up the last of them. What else could (an older answer, a late failure, a dead worker whose event was
answered, a write that failed) is one of the flaws. `GraceInv` says that a past due row has its grace,
that a live row is of the newest subscription (`RowIsNewest`) and that an answer in flight that calls a
subscription over is right (`FinalAnswers`).

`StripePeriodProofs`: `DowngradesAwaitPeriod`. What lowers a plan has been set up several steps before: a
date in the row, an answer retrieved, a request that Stripe has granted. `Shapes` lists what one step
makes of a subscription (unmoved, renewed, started, granted to the owner), and `DatesInv` what follows
for dates: in the middle of a period the answers in flight are of this tick, and the plan has only been
raised since they were made. `PeriodInv` adds that the change of plan a row waits for is Stripe's
(`Awaits`): it is scheduled there for the same date, or has been made and nothing in flight is older, or
the owner is about to write what replaces it. A step that leaves the row keeps this because of `Shapes`
(`RestsPeriod`); a step that moves the row only takes over an answer or a date (`MovesPlans`,
`MovesPending`), both of which are Stripe's. `BillingSchedule` shows the flaw `behind` that the proof
needs: there the date is of a period that is over.

`StripeAgreeProofs`: `RowInAccord`, `QuietlyAgrees`, `BlockedWillEnd`. `AnswersReachTheRow` says that the
newest answer is applied, but applying it need not make the row agree: an active answer that raises the
plan leaves the interval and the cancellation to the next event of the same change (`ReconcileActive`). So
the row is followed together with `Left`, the reports nobody has applied yet. `AccordInv` says that while
the newest subscription runs the row is in `Accord` with it given `Left`; that a blocked row that runs on
still has a report to come, which cancels it (`_reassert_block_cancellation`); and that a past due row that
is to end ends at Stripe too, or is due. Each step is one of three kinds: it leaves row and subscription
alone and `Left` does not shrink; it changes the subscription, and reports it with events enough for any
row (`AccordEnough`; the blocks, unblocks and events that fail behind their call are of this kind,
`ToldCovers`); or it moves the row, by a date that is due, by what a request of the owner writes, or by the
answer to an event, which uses up at most one report. The last is the hard one, since the answer may be
older than the subscription. The invariants before it say what it can be: without a flaw only a paid row
has a paid plan and its pending change is an end or a change of plan (`TidyInv`); an answer that is behind
is followed by the reports of what it lacks (`AnswersFit`); what the owner has been answered, and is about
to write, Stripe still has (`OwnerFits`; an unblock that failed behind its call can have undone a
cancellation, though without `torn` none of a past due subscription, whose events would not say so); and
the change a row waits for is the one Stripe has scheduled or made (`WaitFits`). `AgreeInv` is their
conjunction with `FlowInv`, `GraceInv`, `DatesInv` and `PeriodInv`. When everything is quiet `Left` is
empty, and what remains of `Accord` is `QuietAgrees` and, for a blocked workspace, `BlockedEnds`. The proof
is for every period, every number of subscriptions, events and workers, and any set of intervals.

`PlanLocksProofs`: `TypeCorrect`, `OvershootIsBounded`, `StaysWithinPlan`, `RepairsHold`,
`UnselectedIsLocked`. A request between check and write has a *claim* on a place in its category. The
invariant bounds, for each guarded category, what is open and what may come by the limit and the
number of requests; while nothing has overlapped there is at most one claim and the limit still has
room for it. That a synchronisation leaves what the consistency check accepts (`SyncConsistent`) needs
the number of oldest Structured Groups it keeps to be the limit (`OldestFit`, an argument on finite
sets). `UnselectedStaysLocked` needs that a lone request on a locked record cannot pass its check and
that what a request saves is the lock the record still has.

Only model-checked: `EveryJobEnds`, because liveness is out of the prover's reach.

## 6. Abstractions, and what is not modelled

* Time is a counter; time zones and DST are reduced to a day of fixed length.
* A participant is a row; PINs, photos, names, kiosk layout and email text are left out.
* SMTP errors are temporary or permanent, chosen freely per recipient.
* A checkout's identity (plan, interval, market, coupon) is one value in `CheckoutAttempts`, and there a
  snapshot is applied in one step. Idempotency keys do not age. In `StripeBilling` a whole checkout is
  `Subscribe`.
* Assumed of Stripe: a subscription with a schedule attached refuses to be cancelled at the period end,
  resumed or modified; renewals and dunning happen when the period ends; a trial subscription is
  invoiced at its end. Requests, including webhook requests, do not span a tick (a day). Looking up an
  invoice's subscription, when it fails, is always retried: the code consumes such an event if the workspace
  cannot be told from it, and the subscription's own event reports the same change.
* The transactions of a reconciliation outside the webhook are one step (`OwnerWrites`): a process can die
  between them (`half`), but other requests do not come between them. A schedule at Stripe is created
  and set in one step. `request_downgrade_to_plus` (`operations.py:364`) lacks the checks of status and
  cancellation that `request_schedule_billing_change` makes; `schedule` is the latter.
* A FAILED event row is RECEIVED: both are claimed alike. A PROCESSING row is reclaimed only when its
  worker is dead (a request lives for sixty seconds, the claim for fifteen minutes).
* One workspace has one market: currency, customer and price ids are left out, as are previews, the
  customer portal, warning counters, `set_future_paid_intent`, CheckStation accounts, archiving and
  permanent deletion of workspaces. Apple and Google billing follow the same event protocol.
* Plan locks: the limits inside a Group (participants, Classes) and features without a limit are left out.
  Records never share an id; archived Members and inactive accounts are in no category.
* Not modelled: the kiosk session lock, the Kiosk Builder, reports, import, readiness, sign-in, rate
  limits, admin pages, content, the status service, clients and deployment. They hold little state of
  their own, are sequential, or derive and validate within one request and one transaction; the
  interleavings and failures of the system are in the components above. Most of the repository's lines are
  tests, serializers, translations, admin and user interface.

## 7. What would come next

1. `Provider liveness`: under Stripe's retries, a fair webhook and no `lost` event, the row eventually
   agrees with Stripe.
2. The composition of `CheckoutAttempts` with `StripeBilling`: a paid session leads to access.
3. The participant editor, which saves whole membership rows (`groups/serializers.py:864`) beside the
   owner's removal of a membership; the session lock of a kiosk over several tabs
   (`attendance/kiosk_lock.py:45`); incidents of the status service
   (`status/status_service/incidents.py:29`).
4. Proofs: the agreement in steps under way (`AccordInv`) is the safety half of 1; the other half, that
   what is left is applied, is liveness.
