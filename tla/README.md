# Verification of the charging reminders

TLA+ models of the Go backend under `src/backend` and of the web console under
`src/frontend`, the TLC runs that check them on small instances, and theorems
about them that TLAPS proves for every value of their constants.

## 1. The system

One Go process (`cmd/server/main.go`) serves an HTTP API to a web console and
runs two background goroutines over one SQLite database. A user registers with
an invite, links the charging provider by a cookie (found by scanning a QR code,
or derived from stored YYB credentials), lists charging piles ("devices") and
asks to be told when a pile becomes free. The *scheduler* polls the watched
piles, records the transitions of their ports, creates notifications and queues
their pushes; the *dispatcher* sends queued pushes through WxPusher to the
WeChat account the user has bound.

    console --HTTP---> handlers --------+---------------------+
                          |             |                     |
                     refreshMu(user)  wxPusherMu        credentialMu(user)
                          |             |                     |
       scheduler --> refresh of a pile  bindings, sessions   YYB / mocele
          |          (cache, flights)        |
          |               |                  |
          +--recovery--> transitions --> notifications --> outbox --> dispatcher --> WxPusher

The console (Next.js, React) keeps copies of what the backend has: a provider per
kind of data (session, piles, reminders, notices) above the pages, and state of its
own in each page. A page's handler sends a request and goes on when the answer is
there, with the values its closure captured; meanwhile other handlers run, an event
stream brings snapshots and notices, dialogs are put aside and pages unmounted.

    pages, dialogs --handlers--> request() --HTTP--> backend
         |   ^                       |                  |
         |   +------ answers --------+                  |
       providers (auth, dashboard, watch, notices) <----+  event stream (frames, notices)

### Inventory

| component | state | operations | what makes it hard | correct when |
|---|---|---|---|---|
| **Outbox and dispatcher** (`notification_dispatcher.go`, `persistence/wxpusher.go`) | rows of `notification_deliveries`; the row in the dispatcher's hands | enqueue, claim, send, query status, recover stale, recheck, cancel on unbind, cascade | the send and its record are two steps with a crash between them; a timeout hides the outcome; the manual recheck writes the same row | pushed at most once; dropped means not pushed; every row settles |
| **Scheduler and background refresh** (`reminder_scheduler.go`, `background_refresh_service.go`, `watch_service.go`) | `watch_refresh_states`; the coordinator's cache, flights and validations; a mutex per user | cycle, prepare, refresh, opening check, cancel, login | a user waits for another user's request while holding its own mutex; results are shared, credentials are not; rows are saved from copies | no lost mutex; a credential is validated by its owner's request; the quota holds |
| **Pile availability** (`notification_delivery.go`, `persistence/port_history.go`) | transitions, reminders, availability cursor, notifications | record, process, complete, save cursor, recover, opening check | every write is a transaction of its own; the recovery processes the same transitions as a refresh; reminders are read before the mutex | a rise is told, once, to the reminder that waits for it |
| **WxPusher binding** (`wxpusher_binding_service.go`) | `wxpusher_bindings`, `wxpusher_bind_sessions` | create, poll, bind, update, delete | the mutex is not held across provider calls nor by the deletion; whole rows are saved from copies | one owner of a receiver; one open session; bound by an own scan |
| Credential recovery, QR login (`credential_service.go`, `qr_sessions.go`) | YYB binding, owned QR sessions, `bindingBusy` | create, poll, confirm, sync, unbind | network calls under `credentialMu`; rollback of a rejected cookie | one binding change at a time; a failed cookie leaves the old one |
| Login sessions (`auth/session.go`) | memory map over the table | create, get, touch, revoke | the map is reloaded from the table while rows are being deleted | a revoked session stays revoked; at most five |
| Users, invites, settings (`user_service.go`, `invite_service.go`, `manager.go`) | maps saved as a whole | register, authenticate, update, delete | checks and writes in separate critical sections; rollback on a failed save | an enabled administrator remains; no lost update |
| Login guard, captcha, event streams (`auth/guard.go`, `auth/captcha.go`, `api/stream_limits.go`) | counters and windows | allow, lock, record, verify, acquire, release | time windows; missed or doubled releases | limits hold, blocks end |
| History, statistics, announcements, audit | stored events and records | aggregation, paging | arithmetic only | - |
| HTTP layer, parser, crypto, signing, provider clients, scripts | none that outlives a request | - | - | - |
| **Console: session** (`auth-context.tsx`, `auth-form.tsx`, `dashboard-session.tsx`, `app-shell.tsx`) | the user, the form and its captcha, the board's load and stream | sign in, register, who-am-I, navigate, log out, 401 | answers about the session cross each other; a captcha can be tried once | shown as signed in only if so; the stream is of the mounted page |
| **Console: piles** (`dashboard-context.tsx`, `dashboard-workbench.tsx`, `add-pile-dialog.tsx`) | newest snapshot, stamp, stream, selection, one dialog | read, refresh, order, edit, remove, save cookie, frames | answers and frames in any order; dropped frames; a frame closes a dialog | never older; stale piles are marked; own changes appear |
| **Console: reminders and notices** (`watch-context.tsx`, `notification-context.tsx` and their pages) | copies of rows, counts, cursor, filter | load, page, create, extend, cancel, mark, clear, streamed events | a load lands over a change; a count kept by increments | copies and counts are the backend's; no stuck lock |
| **Console: binding and account** (`yyb-binding-flow.tsx`, `wxpusher-channel-card.tsx`, `account-workbench.tsx`, `account-security-panel.tsx`, `usage-guide-dialog.tsx`) | scan flow, channel, connection, devices, preferences | create, check, confirm, poll, bind, change, test, sync, unlink | lost confirmations, polls beside changes, tabs left while waiting | bound means saved; one change at a time; what is shown is stored |
| **Console: administration** (`admin-users-page.tsx`, `admin-system-pages.tsx`, `admin-incident-panel.tsx`, `admin-announcements.tsx`, `announcement-revisions.tsx`) | lists, records, drafts, dialogs | filter, page, edit, reset, delete, save, publish, export | late answers of another address; whole-object saves; other administrators | answers belong to the address; writes are informed |
| **Console: announcements read** (`announcement-strip.tsx`, `announcement-reader.tsx`) | summary, boundary, selected text | refresh, open, check, confirm | edited while read; a throttled refresh; time passes | confirmed means shown; what ended goes away |
| **Console: history, clock** (`device-history-sheet.tsx`, `watch-format.ts`, `notification-time.ts`) | range, port; none | select, retry; windows and estimates | late answers; windows over midnight | history of the selection; formulas agree with a clock |
| Console: unmounted pages, design prototype, generated types, widgets | - | - | - | - |

`PROJECT.json` lists every component with its status, and under `hazards` what
can go wrong in each at the line where it bites; a hazard no property covers says
why.

## 2. Plan

1. `NotificationDelivery` with `DeliveryPromise`: the outbox. *Done, with proofs.*
2. `WatchRefresh`: quota, shared flights, credentials. *Done, with proofs.*
3. `PileAvailability`: from a transition to a notification. *Done, with proofs.*
4. `WxPusherBinding`: receivers and scan sessions. *Done, with proofs.*
5. The web console: `HttpCalls`, then a module per page or provider. *Done.* Composed
   by part in `MCAccountPages` and `MCConsolePages`; `AnnouncementReader` on its own,
   for its fairness. *Done, with proofs* but for what item 7 leaves.
6. Open: the backend's login sessions, users, invites and settings, credential
   recovery, the login guard, captcha and stream counters; composition of the outbox
   with the binding (a row that survives unbinding and is retried to another
   receiver); one console page on top of `WxPusherBinding` instead of a backend of
   its own.
7. Theorems: every safety property that a passing run checks is proved, except
   `PagesTypeOK`, `InboxIsExact` and `EstimatesAreExact` (section 6).

Every module is written to be proved about: parameters are CONSTANTS with named
assumptions, an operation is one action, no operator is RECURSIVE. `MC*` modules
give the constants of the runs and put together what one run checks. Definitions marked `\* faulty` are not part of a
specification: each is the form that a plausible bug would give the definition
after it, and shows that the property it is listed with can fail.

## 3. Modules

### NotificationDelivery, DeliveryPromise

Models `notification_dispatcher.go`, the outbox part of `persistence/wxpusher.go`
and the manual recheck of `wxpusher_binding_service.go`. One action per
transaction or network step of the dispatcher: `StartCycle` (with
`RecoverStale`), `ClaimAccepted`, `QueryStatus`, `SaveConfirm`, `ClaimQueued`,
`Refuse`, `Send`, `SendSucceeds`, `SendFails`, `SaveSend`. The row the goroutine
holds is `mem`, so what it saves can be older than the table; the recheck holds a
copy of its own (`check`). A crash drops both and leaves a request that is on the
wire to the provider, whose actions are `ProviderAccepts`, `ProviderRejects`,
`ProviderSettles` and `Reply`.

* Time is counted in quanta longer than a dispatcher cycle, and timestamps are
  kept relative to the present.
* HTTP 429, 5xx and business rejections mean the message was not taken (the code
  retries them); a timeout, a broken connection or an unreadable answer tells
  nothing.
* `MaxFaults` bounds crashes and repository errors together.
* Not modelled: the pruning of rows older than 90 days; the binding's display
  columns; receivers have no identity here.

`DeliveryPromise` is the outbox as its users see it: a delivery is queued, dropped
unpushed, or pushed once and ended. `ImplementsPromise` maps the statuses of a row
to its phases.

### WatchRefresh

Models the scheduler cycle (`StartCycle`, `LoadTarget`, `PrepareTarget`,
`ApplyJob`), the coordinator (`Enter`, `Lock`, `Fetch`, `Answer`, `Merge`), the
opening check of a reminder (`CreateRule`, `Invalidate`, `ApplyOpening`),
cancellation (`Cancel`), the update of a cookie (`Login`, `LoginAnswer`), and the
environment (`ExpireCookie`, `Switch`, `NewDay`, `Elapse`, `Restart`). A user has
the two threads that compete for the user's `refreshMu`, and a thread keeps the
copy of the row it will save.

* Delays are nondeterministic: a TTL, a backoff or `next_attempt_at` may run out
  at any moment.
* Every user owns every pile. The load and the save of `notify...` and
  `resolveCredentialExpired`, of the reconciliation and of the opening check's row
  are one step each.
* `Switch` stands for the account switch, the reminder setting and the power-off
  window.
* `proven`, `rejected`, `spent` and `forgotten` are history variables for the
  properties.
* Not modelled: the offline streak, reminders outside their active hours,
  retention, deleting a pile, an interactive refresh without a new cookie.

### PileAvailability

Models one user and one pile: `Fetch` and `Record` of a refresh, `Baseline` of an
opening check, then `ReadRules`, `Decide` (takes `notificationMu`, stores the
notification), `Complete`, `SaveCursor`, which the refresh and the recovery both
run; the recovery (`Recover`, `FindEvents`, `TakeSnapshot`), `Reconcile`; the
life of a reminder (`CreateRule`, `EnterOpening`, `AnswerOpening`, `EndRule`);
`Share`, the pile another user's refresh put in the cache, which may be older than
the dashboard; `Flip`, `Tick`, `Crash`.

* The check that the reminder is enabled and the taking of `refreshMu` are one
  step. `MaxEvents` bounds the starts of refreshes, not what a started one does.
* `owed` remembers the reminder a recorded rise must be told to; `late` remembers
  reminders whose notification came when they had ended. `NotifiesOnce` holds
  without a crash and leaves `late` ones out.
* Reachable in the model and stated by no run: a reminder answered by its opening
  check that also notifies; a notification after a cancellation; a second
  reminder that is completed by the notification of the first.
* Not modelled: the power-off window, expiry times, pruning of events, several
  users with a pile of their own.

### WxPusherBinding

Models `CreateWxPusherBindSession` (`CheckCreate`, `CreateQRCode`,
`StoreSession`), `PollWxPusherBindSession` (`LoadSession`, `SaveDelay`,
`QueryScanUID`, `BindWxPusherUID`, `FailSession`), `UpdateWxPusherChannel`
(`LoadBinding`, `SaveBinding`) and `DeleteWxPusherChannel`, by concurrent
requests. `wxPusherMu` is a variable: it is held between a load and the save after
it, not across the provider's calls and not by the deletion. The unique indexes
of the tables are the guards `Unowned` and `NoOther`. A save writes the whole row
that was loaded, so it can reopen a completed session and bring back a deleted
binding.

* A rate limit is a refusal at any time; a poll before `next_poll_at` changes
  nothing and is left out. Repository errors are not modelled; `MaxFaults` bounds
  provider errors and restarts.
* Not modelled: display columns, pruning, deleting a user.

### HttpCalls, and the console's modules

A page of the console is a state machine whose handlers overlap. `HttpCalls` is
what they share: a handler that waits is a record in one of the `Slots`, with the
operation, the values its closure captured (the version, the filter, the item, the
draft) and the answer, `Unanswered` until the backend has served it. Every request
therefore takes three steps: the handler *sends*, a `Serve...` action is the
backend's transaction (modelled from the Go handler it enters), a `Land...` action
is everything after the `await`, up to the next `await` or the end. `Refuse...` is an
error status that changed nothing; `Lose...` is an answer that does not come:
whether or not the backend acted, the handler sees an error. Several handlers of a
page wait at once, served and landed in any order. Renders, effects and cleanups run
with the step that causes them: a component that unmounts marks its calls as *left*
and forgets its state. What a button needs to be pressed is the guard of its action
(`disabled`, a dialog that covers the page, a row that is listed).

| module | models | the backend's side |
|---|---|---|
| `ConsoleSession` | `AuthProvider`, `AuthForm`, `DashboardSession`, `AppShell`, the home and admin routes | sessions and captchas: `ServeSubmit`, `ServeSession`, `ServeCaptcha`, `EndSession` |
| `PileBoard` | `DashboardProvider`, `DashboardWorkbench`, the cookie form | the store's snapshots and a channel of `FramesMax` frames that drops what does not fit |
| `WatchRules` | `WatchProvider`, the page of the reminders, the sheet, the dialog | a table of rules that the scheduler completes too |
| `NotificationInbox` | `NotificationProvider`, the page of the notices | rows with times of occurrence, cursors, streamed events |
| `ScanBinding` | `YybBindingFlow`, `AddPileDialog`, the settings dialog | scan sessions; a confirmation may end after its answer was lost |
| `WxPusherCard` | the channel card with its polls, settings, test | the channel's row and its last test delivery |
| `AccountSettings` | connection, password and devices, alerts, quiet hours, the guide | stored binding, sessions, preferences |
| `AdminUsers` | list, record of a user, dialogs, new users | the accounts by page and filter |
| `AdminSystem` | overview, incidents, operations, settings, invites, audit log | one depot of what the tabs show |
| `AnnouncementDesk` | list and form of announcements | versioned rows that other administrators change |
| `AnnouncementRevisions` | the revisions below the form | versions saved between the count and the page |
| `AnnouncementReader` | strip and reader | texts, reminders, confirmations, time |
| `DeviceHistory` | the sheet of a pile's history | any answer of the range and port asked for |
| `ClockWindows` | `isWithinWindow`, `isQuietHours`, the estimates | a clock that is told only when a window opens and closes |

State that the pages share with nothing else has one backend per module: no module
changes another's. Conventions of the abstraction:

* An identity is a model value and a copy of a row is a small record; texts are
  versions. A bound `...Steps` counts what the user and the world begin; the answers of
  what was begun are never cut off.
* Ghosts name what a property leaves out: `calm`, `synced`, `settled`, `...Sure`
  hold since a load ended that no other change overlapped. Without them the property
  is false, and rightly so: a load that read before a change and landed after it shows
  the older row until the next load.
* A deleted announcement leaves a tombstone in `AnnouncementDesk`: identities are random
  and do not come back. After a failed load of revisions the page before stays below the
  message. The guide of `AccountSettings` covers the rest of the page while it is open
  (`GuideAside`).
* `DeviceHistorySheet` and `WatchManagementSheet` (`surface = "sheet"`) are components
  with tests that no page mounts now; they are modelled because their handlers are
  complete. Left out in mounted pages: the appearance tab, the compact panel and the
  filters of the incidents, the preview of an announcement, search fields, and the
  pop-ups of the browser.
* `PileStates` are the states of a pile that the page tells apart.
* The clock of `PileBoard` is in milliseconds, to which the page cuts the stamps it
  compares (`dashboard-context.tsx:98-106`), and is assumed never to go back. A change
  may come in the millisecond of the one before (`Ticks`): the two snapshots then have
  the same stamp and either replaces the other, so what is shown equals what is stored
  only unless the last two changes are `tied`.
* A removal has two reads. The first is `deletePile`'s own, and only without an open
  stream (op `sync`): when it fails, the dialog shows the error and the selection stays,
  although the pile is gone. The second (op `settle`) is one of a `Promise.allSettled`,
  and the removal ends well without it.
* `WxPusherCard` keeps the flag of the poll (`pollInFlight`) and the poll that closing
  would abort (`pollRef`, the code's `abortRef`). A handler that was told `bound` waits
  for the load of the channel, or not if one is on its way, and its `finally` then
  frees the flag whoever holds it (`EndsHandler`). In the code and in the model this lets
  a second poll start beside another: a code is bound, the binding is removed elsewhere,
  the card shows that and polls a new code, and the handler of the first code ends.
  `strayed` marks it from that moment until no poll waits, and TLC reaches it; `OnePoll`
  leaves out exactly this.
* The lock of the health check of `AdminSystem` is state of the line that two of the tabs
  show (`HealthTabs`). Any other tab unmounts the line, and the way back mounts one that
  is free although the request of the first still waits; the toast of a check that failed
  stays over the tabs and can check again.

`MCAccountPages` and `MCConsolePages` put modules beside each other: a behaviour is
one *part*, and the other parts stay as they were opened. This is a disjoint union
of their behaviours, not a product, and the pages share nothing a product would
add.

## 4. Runs

| run | instance | shows |
|---|---|---|
| `outbox` | one test delivery or one notification, three attempts, lease 2, one fault | pushed at most once, never requeued with a record id, success is genuine and attempts bounded (`RowsAreSound`), a dropped row was never pushed and stays dropped, implements `DeliveryPromise`, always settles |
| `recheck_race` (violation) | one test delivery | the recheck moves a newer state backwards |
| `refresh_shared` | two users, one pile, quota 1, one event; or one user, enabled or paused, with an opening check and an event; symmetric users | validations are the user's own, one request per key and waiters are led (`FlightsAreSound`), the quota is exceeded by no more than the charges of deleted rows |
| `refresh_returns` | two users, one pile, quota 1, no event; or one user with an event or an opening check | every taken `refreshMu` is released |
| `quota_forgotten` (violation) | one user, one opening check, no event | cancelling a reminder forgets its charge |
| `foreign_expiry` (violation) | two users, one event | a waiter is told that its login expired because the leader's did |
| `availability_paid` | one port, two changes, shared pile | an owed rise is told, overtaken or ended |
| `availability_crash` | one port, one change, a second, a crash, shared pile | told before closed, nothing stale, once |
| `lost_rise` (violation) | one port, one change, a crash | a refresh before the first cycle loses the rise |
| `account_pages` | the binding (two users, two receivers, two sessions, two requests, one fault), the card (5 steps, which is two codes, each polled), the scan (8), the settings (3), the reminders (two rules, two piles, 3) and the notices (two rows, pages of one, 3); two slots, symmetric | receivers have one owner; locks and polls of the pages are live; copies, counts and settings are the backend's |
| `console_pages` | the clock (a day of 6 minutes, every window), the session (4), the piles (two, two frames, 3), the users (three, 3), the system's tabs (3), the desk (two announcements, 4), the revisions (pages of one, 4), the history (two ports, two ranges, 3); two slots | formulas agree with a clock; answers belong to what is selected; stale piles are marked, nothing goes back; writes are informed |
| `announcement_reader` | one important announcement that ends, 3 steps, two slots | confirmed means shown; the strip and the reader keep up while no body stalls for ever |

The bounds let the interesting cases happen. *Outbox*: three attempts are the
code's own limit; one fault is enough for a crash at any step, and the lease of
two quanta separates a live claim from a stale one. Deliveries do not touch each
other's rows: `MCOutbox` lets one exist per behaviour. *Refresh*: two users are the
least that can share a flight, and one leads while the other waits; a quota of 1 or 2
is reached within one or two checks; one event is one login, expired cookie, switch,
midnight or restart at any point. `MCRefreshShared` leaves opening checks to a user
on her own, whose charges are what the quota is about; its two bounds say how many
events the two users (`Together`) and the one (`Alone`) meet, fewer where liveness is
checked. *Availability*: a reminder is
served by the first rise; two changes make a rise, a fall between its steps and
another. *Binding*: two users race for a receiver, a second session is open beside a
stale one, two requests are the least that overlap a load and a save. *Console*: two
handlers are the least that overlap, and no property speaks of three; three or more
steps make a request, a second one beside it, and a change from elsewhere between the
transaction and the answer of the first; eight steps of the scan are a code, its
check, a lost confirmation, a new code and an addition. Two rows with pages of one
make a next page; two piles make the first one change; two frames fill the channel and
drop a third. A fault is a provider error or a restart,
and one of them can meet every step of the other handler.

When its turn is on, a part starts in all its initial states, with these exceptions.
The session starts signed in on a page or signed out at a form; the board empty or with
one idle pile, before which another is added elsewhere; the desk at its list with drafts
only or at an announcement of any status. A bound card starts with one event to tell;
a bound account is offered the scan in the settings only; the reminders start on one
pile, and the sheet, which no page mounts, with one of them. What is left out differs
by a name, or is reached within the steps.

`SYMMETRY SlotSymmetry` (`account_pages`): free slots are alike, a handler takes some
free slot, and no property names one; `account_pages` has invariants only.

**Fairness.** `NotificationDelivery`: weak fairness of the dispatcher's steps (its
goroutine loops, every request has a 12-second timeout, repository errors are
counted as faults) and of the restart (systemd), strong fairness of time, which
passes between cycles and so is not enabled continuously.
`WatchRefresh`: weak fairness of each thread's steps and of the handlers that have
started; a provider request always ends because the client has a timeout. No
fairness is assumed of the start of a cycle or of a user. `PileAvailability`: weak
fairness of `Record` and of the processing steps, which are straight-line code;
nothing is assumed of when refreshes and cycles start. `AnnouncementReader`: weak
fairness of its timers (the strip's interval, the minute of its throttle, the reader's
check), which run while the page is looked at; of the return of the network
(`GoOnline`); of a request without headers, which gets them or is given up by the timer
of the client (`AnswerBegins`); and of the handler of a request that failed
(`LandFailure`). The client clears its timer when the headers have come, and the body
behind them has none (`http.ts:118-131`, 148): no fairness says that an answered request
is ever landed. While a body stalls, `operation.current` stays set and the strip asks no
more (`announcement-strip.tsx:34-41`), so `ReaderKeepsUp` has the hypothesis
`NothingHangs`: no body stalls for ever. Nothing is assumed of the user. The other
console modules and `WxPusherBinding` state safety only: a request can wait forever in
them.

**Properties of the console.** The runs check conjunctions, one per question, whose
named parts are in the modules:

| property | parts |
|---|---|
| `PagesTypeOK` | `ScanTypeOK`, `WatchTypeOK`, `InboxTypeOK` |
| `PagesLocksAreLive` | `OnePoll`, `CardLocksAreLive`, `FlowLocksAreLive`, `OneAddition`, `SettingsLocksAreLive`, `OneWatchLoad`, `LocksAreLive`, `InboxSpinnersAreLive` |
| `RulesMatchBackend`, `InboxIsExact` | `BadgeIsExact`, `ListIsExact` |
| `AccountIsCurrent` | `SettingsAreCurrent`, `BindingIsCurrent`, `SessionsAreCurrent`, `GuideIsRead`, `BoundIsSaved`, `ConfirmIsSettled` |
| `ConsoleLocksAreLive` | `BoardLocksAreLive`, `OneChangeOfUser`, `SystemLocksAreLive`, `OneDeskChange` |
| `SessionIsCurrent` | `ConsoleTypeOK`, `FreshChallenge`, `StreamIsOfMountedPage`, `ShownUserIsSignedIn` |
| `BoardIsCurrent`, `SnapshotsOnlyAdvance` | `BoardTypeOK`, `ConnectedIsCurrent`, `BehindIsMarked`; `NeverOlder`, `ChangesAreShown` |
| `AnswersAreOfSelection` | `ListIsOfAddress`, `TemporaryIsValid`, `FormIsOfAddress`, `RevisionsAreOfPage`, `HistoryIsOfSelection` |
| `ShownIsCurrent` | `RecordIsCurrent`, `SelfIsKept`, `ShownIsStored`, `DeskIsCurrent` |
| `WritesAreInformed` | `ShorteningIsConfirmed`, `ChangesWhatWasShown` |
| `WindowsAgree`, `EstimatesAreExact` | `TemporaryEstimateIsExact`, `RecurringEstimateIsExact` |
| `ReaderIsSound`, `ReadBeforeAck`, `ReaderKeepsUp` | `ReaderIsOfSelection`, `AckedIsNotPending`, `AckLockIsLive`; `StripForgets`, `ReaderNotices` |

## 5. Findings

* `recheck_race`: the comment "can never move a newer state backwards" does not
  hold between the reload and the save.
* `quota_forgotten`: the daily quota is summed over rows that cancelling deletes.
* `foreign_expiry`: a waiter inherits the leader's rejected login although its
  comment says that the credential result is not the waiter's.
* `lost_rise`: after a crash a refresh that runs before the first cycle saves the
  idle baseline and so passes over the rise that the recovery should tell.

## 6. Proofs

A proof module `X_proofs` extends the module it is about; `AccountPages_proofs`,
`AdminPages_proofs` and `ConsolePages_proofs` extend the composition of the pages or the
modules of one side of it, and `HttpCalls_proofs` holds the lemmas on requests that all of
them cite. A theorem holds for every value of the constants that
the named ASSUMEs allow; what a bound of a run is (`Events`, `MaxFlips`, `WatchSteps`,
`ReaderSteps`, ...) is any number there. Almost none of the properties is inductive. For
each the strengthened invariant is given here; TLC checks every property on an instance,
and most of the strengthened invariants were checked by it too before they were proved.

| module | theorem | property |
|---|---|---|
| `NotificationDelivery_proofs` | `TypeCorrect`, `PushedAtMostOnce`, `DroppedUnpushed`, `RecordStaysOut` | `TypeOK`, `AtMostOnePush`, `DroppedNeverPushed`, `RecordNeverRequeued` |
| | `RowsStaySound`, `DroppedStays`, `OutboxKeepsPromise` | `RowsAreSound`, `DroppedIsFinal`, `ImplementsPromise` |
| `WatchRefresh_proofs` | `TypeCorrect`, `FlightsStaySound`, `DueChecksStayOwnAlways`, `ValidationStaysOwn`, `QuotaHoldsUpToWhatIsForgotten` | `TypeOK`, `FlightsAreSound`, `DueChecksStayOwn`, `ValidationIsOwn`, `QuotaHoldsUpToForgotten` |
| `PileAvailability_proofs` | `TypeCorrect`, `NoticesStayFresh`, `FirstStaysTold`, `NotifiesOnceAlways` | `TypeOK`, `NoticeIsFresh`, `FirstIsTold`, `NotifiesOnce` |
| `AccountPages_proofs` | of the binding: `TypeCorrect`, `ReceiverHasOneOwner`, `OneSessionIsOpen`, `BoundByScan` | `TypeOK`, `UidIsUnique`, `OneOpenSession`, `BoundByOwnScan` |
| | of the reminders: `CopiesAreTheRows`, `RemindersKeepShape`, `RemindersUnlock` | `RulesMatchBackend`; parts of `PagesTypeOK` and `PagesLocksAreLive` |
| | of all pages: `AccountLocksAreLive`, `AccountStaysCurrent` | `PagesLocksAreLive`, `AccountIsCurrent` |
| `ConsolePages_proofs` | `WindowFormulaIsRight` | `WindowsAgree` |
| | `AnswersBelong`, `ShownStays`, `InformedWrites`, `LocksStayLive` | `AnswersAreOfSelection`, `ShownIsCurrent`, `WritesAreInformed`, `ConsoleLocksAreLive` |
| | `BoardStays`, `SnapshotsAdvance`, `SessionStays` | `BoardIsCurrent`, `SnapshotsOnlyAdvance`, `SessionIsCurrent` |
| `AnnouncementReader_proofs` | `ReaderStaysSound`, `ReadComesFirst` | `ReaderIsSound`, `ReadBeforeAck` |
| `AdminPages_proofs`, `HttpCalls_proofs` | lemmas: the invariants of the administrator's pages; requests | - |

**The outbox: at most one push.** `SafeInv` is inductive. Besides the types it has one part
per place where a row is held. `RowsSafe`: a row that is unsent (absent, queued,
cancelled or suppressed, or failed without a record id) has nothing taken and nothing
on the wire. `SendSafe` and `ConfirmSafe`: what the dispatcher's copy and its position
say of the row, so that a copy saved late cannot put a sent row back. `ChecksSafe`: the
copy of a recheck is never a queued one, since its save writes the whole row. `TypeInv`
also needs `Claimed`: a claimed row has used an attempt, which indexes the table of
backoffs.

**The outbox: what its rows say, and the refinement.** `AttemptsInv` puts the bound of the
attempts on the copies too (the dispatcher's, the rechecks'), which are written back.
`GenuineInv` says of every place that can save "provider succeeded" that the outcome was
a success, and that a settled outcome belongs to the one push there is
(`OutcomeOfPush`), so that a later push cannot take it back: this needs
`AtMostOnePush`. The refinement `Spec => Promise!Spec` is proved from `SafeInv` in three
lemmas: `StepMoves` (what each step does to the status of a row is one of the moves the
promise knows), `StepPushes` (one push more only when a delivery's single request is
accepted, a step that leaves the rows alone), and
`StepKeepsPromise`, which puts them together: every step is a step of `DeliveryPromise`
under the mapping `Phase`, or leaves it as it is. The promise states no liveness, so this
is the whole refinement.

**Refreshes.** `TypeInv` carries `LocksOK`: a user's `refreshMu` is held exactly while one of
her two threads is between its lock and unlock, and so the two exclude each other; all
that follows rests on it. *Flights* (`FlightInv`): a thread that waits or leads does so
under the key of its own pile, shared or its user's own (`KeysAreOwn`); without it a
waiter's key could be that of a flight closed for another pile. That `Shared` is no user's id
is an assumption of the module, for a key of a pile must differ from that of a user. *Validation* (`ValidInv`): a login that waits for
its answer has dropped the checks of the old cookie (`LoginClears`), so that the new
cookie starts undisproved. *Quota* (`QuotaInv`): `Accounted`, every scheduled request of
the day is charged to a row or its charge was lost with one, is not enough, because the
cycle saves rows from copies. `CycleAlone` (while a cycle prepares its targets no job of
the last one runs) gives `PrepCovers`: the copy that is saved lacks none of the stored
charges. The operators `Charged` and `Charges` sum the charges as the size of a set of
pairs, so that a sum over a row that is written, removed or reset is a fact about
cardinalities (`FiniteSetTheorems`) rather than an induction.

**Availability.** `FreshInv`: reminders are created in order (`RulesInOrder`), the pile a
goroutine decides about is not older than the reminder it decides for (`CoversPile`), the
first reminder is closed, or about to be, only when something was stored
(`FirstHasNote`), and a notification names a transition of the log (`EventsKnown`).
`FirstIsTold` follows because no reminder is older than the first. `OnceInv` adds
`NotifiedEnds`: without a crash, a reminder that was told is ended, or a goroutine that
holds `notificationMu` is about to end it; `LockOK` of `TypeInv` then excludes a second
one.

**Binding.** `IInv`: `Carries` says what a request holds between its steps (a new session
that nobody else has, an existing session, a receiver that scanned one of its user's
codes). It is needed because a save writes what was loaded before: that a revived binding
is still the user's own follows from the request's copy, and `Kept` (the owner of a
session is fixed, a code is scanned once) carries that copy over the steps of others.

**Reminders of the console.** `WatchInv`: `RulesMatchBackend` speaks only of moments when
nothing is on its way, so the invariant says what holds in between. `AloneIsExact`: a load
that overlapped no change is the only request, and what it has read is still stored.
`AheadByOne`: while the copies are in step at most one change waits, and the rows are the
copies with that change, as far as it was served (`AheadBy`, by cases of the operation and
its answer). The locks need `OneOnPage`, the one confirmation and the one change of the
page.

**Announcements read.** `ReaderInv`: what every request on its way knows (`CallIsSound`). A
read is of the selection; a summary that is answered shows nothing as pending that was
told on the screen, and one that is not answered will not, because what was told is
confirmed (`ToldIsConfirmed`) and the refresh after a confirmation replaces those that
were on their way; a confirmation is of a text that was seen and, as long as the
selection is the same, of the one that is shown. `ReadComesFirst` follows: the backend
takes a confirmation only of the version it carries, and that was seen. `OneConfirms`
says of the lock that it is held exactly while one confirmation of the open reader waits.

**Requests.** `HttpCalls_proofs` says once what posting, answering, crossing and ending a
request does to the slots. On this rest three invariants that most pages share. `Held`: a
lock is up exactly while one request of its kind waits (`WaitingPosted`, `WaitingEnded`).
`Shaped`: a request has the fields its kind needs. `Known`: of the requests that replace
what is stored or shown, one that is alone is the only one; a load that was alone has
brought what is stored; and while the page is sure and none of them waits, it shows what
is stored (`KnownPosted`, `KnownEnded`, `KnownTold`, `KnownCrossed`). "Alone" is
the ghost that makes the property inductive: without it nothing relates an answer that was
read before a change to the change.

**The account's pages.** `AccountInv` puts together the invariants of the parts. *Card*
(`CardInv`): `Held` for each lock, `Known` for the channel, and `PollFits`: the poll that
would be aborted is one that waits, the flag is never up without it, and unless one
`strayed` every poll is that one, with the flag up, the dialog open and its code waiting to be
scanned. No guard of `Poll` says so; it holds because whatever closes the dialog or ends
the code aborts (`CardStopped`), and a handler that frees the flag late marks the poll it
frees (`PollsLand`). *Settings* (`SettingsInv`): the same for the connection
and for the devices, each with its own writers, since a tab that is left drops the
requests of one panel and not of the other; `DialogPlaced` says that a dialog of the
connection is open only on its tab, `GuideKept` that a required guide which was not read to
its end is open. *Scan* (`ScanInv`):
`FlowFits` says that the operation a flow names is of its kind and of the code it shows;
`ScanCall` that a request which was told "saved" is of a session that is saved or gone for
good (`SavedOnce`), and the account then bound; `NewCodes` that a code which was created
and not shown yet is neither the one that is shown nor one whose confirmation ended unheard,
which `ConfirmIsSettled` needs because a flow that starts anew forgets its error.
The backend moves sessions forward only (`Later`), requests only fade (`Fades`). *Inbox*
(`InboxInv`): only what its spinners need. The clearing of the resolved notices holds the
lock of the header over two requests, so that the load that follows is counted with it
(`OfHeader`).

**The session.** `SessionInv`: no two captchas on their way are of one image, and none is
of the image that is shown or that a request has submitted (`ImagesFit`); a submission and
the new image after it are one chain at a time, and an image that was tried is on its way
out (`ChainFit`); a session that was made is the cookie of no other request
(`SessionsFit`); the stream belongs to a board that was authorized, and its loader is a
request of that board (`LoaderFit`); and who is shown, or about to be, is who the cookie
names unless answers about the session crossed (`IdentityFit`).

**The piles.** `StreamInv`: what is shown and what the frames on their way carry are
not of the future, and one of the present millisecond is the present unless that
millisecond saw two changes (`IsSnap`); as long as the stream is open and dropped nothing the newest of them is the
present. `CallsInv` says of the answers that they are snapshots too, and of the read
behind a change that it is not older than the change; `RemovalInv` that a removal which
skipped its first read had an open stream. `LockInv` says of
every flag and dialog which request it waits for. `SnapshotsAdvance` is an action property:
it follows from the invariant, step by step, by the comparison of stamps; a removal may
end by a read that failed only where its stream had broken or its frame is still to come.

**Administration.** `UsersInv`, `SystemInv`, `DeskInv`, `RevisionsInv` and `HistoryInv`
each say of a request which address, filter or range it was sent for, and that a request
for another one is not heard any more (`LoadIsOfAddress`, `IsOfTab`, `IsHeard`,
`ControllerOK`); what is shown then belongs to the address because only what is heard is
shown. `DeskInv` and `UsersInv` also relate copies and rows: a copy is of a version the row
had (`IsCopy`), and a temporary password that no request of an earlier visit overlapped is
the one that signs in the user (`UsersTemporaryInv`). `SystemSureInv` is `Known` for the
tabs of the system, whose loads disturb each other as well.

**The composition.** The properties of the two composed runs are conjunctions over parts.
For the console, where the variables of the parts do not meet, `StepOfOnePage` says that a
step of the composition is one of a page which the others do not notice, so that
`PagesInv`, the conjunction, is inductive because each part is; for the account each part
is claimed of its own behaviours only (`AccountInv`).

**Clock.** `WindowFormulaIsRight`: a clock that is told only when a window opens and closes
agrees with the console's formula, over midnight too. `WindowsAgree` speaks of the time
after a day of walking and is not inductive; `WalkInv` is: what the clock calls open the
formula calls open, and what the formula calls open the clock does too, unless the window
opened before the walk began and the walk is younger than a day (`OpenSinceYesterday`).

**Assumptions.** The named ASSUMEs of the modules (`DeliveryAssumption`,
`RefreshAssumption`, `AvailabilityAssumption`, `BindingAssumption`, `SlotsAssumption`,
`WatchAssumption`, `ReaderAssumption`, `DayAssumption`, `CardAssumption`,
`ScanAssumption`, `InboxAssumption`, `SettingsAssumption`, `ConsoleAssumption`,
`BoardAssumption`, `UsersAssumption`, `SystemAssumption`, `DeskAssumption`,
`RevisionAssumption`, `HistoryAssumption`); TLC evaluates them in the runs. Those of the
console say of `None` that it is no rule, row, slot, port or number, as `null` is none;
the others bound numbers and call sets finite.

**What proof attempts found.** `AnnouncementDesk` used the identity of a deleted
announcement again, so that a late answer could pass for one of the new row; the backend
draws identities at random (`persistence/announcements.go:50-55`), and the model keeps
tombstones now. The first form of
`TemporaryIsValid` was false from five steps on, beyond the bound of the run; it now leaves
out a password that a request of an earlier visit overlapped (`temporary.alone`). `ShorteningIsConfirmed` was weaker than what the dialog
promises and was strengthened.

**Form of the modules.** Some definitions are written for the provers, with the same
behaviours: a call of a page is a record written out or merged by `With` (`HttpCalls`), where `@@`
could merge it, a table that grows is a function over the larger
domain, the charges of a user are a set, and the new transitions of a snapshot are one
sequence (`PileAvailability`).

**Only model-checked.** The liveness properties `EveryDeliverySettles`,
`EveryRefreshReturns`, `OwedIsPaid` and `ReaderKeepsUp` (TLAPS 1.4.5 has no ENABLED and no
fairness reasoning); `EstimatesAreExact`, whose number of checks is a sum over the walk;
`InboxIsExact` and the part `InboxTypeOK` of `PagesTypeOK`: the table of the notices is cut
and filtered by `SelectSeq`, and what `SelectSeq` returns needs an induction over the
sequence. Of the other two parts of `PagesTypeOK`, `WatchTypeOK` is proved
(`RemindersKeepShape`) and `ScanTypeOK` is left to TLC. The four findings are runs that TLC
refutes. Out of the prover's reach in
general: liveness, ENABLED, induction over data and RECURSIVE operators; no module
declares a RECURSIVE operator.

## 7. Not modelled

*Backend.* Credential recovery and QR login, login sessions, users, invites and
settings, the guards and streams (section 2): the console's modules have only what
its pages see of them. Hazards known there and covered by no run: a revoked session is
reloaded from its row while the rows are being deleted, and a logout ignores the error
of the deletion; an invite is checked in another critical section than its use is
counted in; the upgrade of a password hash at login; two administrators who disable
each other; the rollback of settings and of a rejected cookie; the failure window and
the block of a login; the two counters of streams. History, statistics and audit are
arithmetic and single transactions, shown better by their tests. The HTTP layer, the
parsers, encryption, signing and the clients of the providers keep no state beyond a
request.

*Console.* The design prototype (`app/prototype`) runs on made-up data. The earlier
pages `admin-users.tsx`, `admin-user-detail-sheet.tsx`, `admin-settings.tsx`,
`admin-operations.tsx`, `pile-card.tsx`, the sheet of `notification-center.tsx` and
parts of `yyb-login-dialog.tsx` are mounted by nothing but their tests. Generated
types, widgets, themes, charts and wording have no state of the program. What the
mounted pages leave out is said in section 3.

Behaviour seen while modelling that no property speaks of: the home page asks who is
signed in without handling an error (`app/page.tsx:19`); a streamed notice that was
resolved can still raise an alert of the browser; `loadMore` is not checked against the
version of the load (a page of an older list can be appended, which `calm` excludes);
an event stream that was refused for good is not opened again; a required guide that
is dismissed stays unread until the next visit; a mutation that succeeded is shown as
failed when the read after it fails (a removal too, while the stream is not open); editing a pile sends the order it was loaded with;
overlapping changes of a preference are stored in the order the backend gets them.
