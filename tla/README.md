# TizimERP: a TLA+ model of the stamp ledger, the cash float, the Face-ID pipeline and the web client

TizimERP rewards drivers for visits. A Face-ID terminal at a gate recognises a driver, a *pechat*
(stamp) worth money is added to his ledger, and he spends the ledger as cash (paid out of an
operator's drawer) or as goods. A relay agent next to the terminals carries their events to the
server and writes the faces of new drivers to them. Staff and drivers use a web front end.

This directory models the parts of the program whose correctness depends on interleaving, order,
time and failure, checks them with TLC on small instances and proves the safety properties
of those runs for every size with TLAPS. Paths below are relative to `src/`.

    tlc -config MC_OperatorCash.cfg MC_OperatorCash     # one of the runs of section 4
    tlapm RelayAgent_proofs.tla                         # one of the proofs of section 6

## 1. Inventory

### 1.1 Parts with hard behaviour

| Part | State | Operations | Why it is hard | What makes it correct |
|---|---|---|---|---|
| **Operator cash** `backend/src/operator-cash` | append-only signed entries per operator, balance = SUM; advisory lock per operator | `deposit`, `endShift`, `debitForDriverCashOut` | check-then-insert under READ COMMITTED, a handover takes two locks, transactions time out | no negative balance; what was checked stays true until commit; no entry lost; handover moves what was confirmed; each request is one atomic step and ends |
| **Ledger** `backend/src/ledger`, stock in `products` | append-only transactions, redemption mark of each stamp, stock | `issueCashAdvance`, `exchangeGoods`, `manualAdjustment`, `redeemStamps`, `redeemAllStamps`, `resetAllDriversStamps` | reads before the transaction, two requests on one stamp, a drawer debited in the same transaction, a loop that goes on past failures | a stamp is redeemed once and oldest first; rows, marks, drawer and stock tell the same story; a reset accounts for every stamp |
| **Recognition** `backend/src/webhooks` | events, STAMP rows, registrations | `ingestFaceMatch`, `resolveDriverByEmployeeNo`, `claimPendingPairing` | one glance comes by two paths and again by retry; duplicate search and driver resolution run outside the lock | stamps of a driver are a guard apart; an event is stamped once; the stamp goes to who looked; nothing is lost |
| **Agent: stamp path** `relay-agent/acs-events.js` | `acs-state.json`, `acs-outbox.json`, memory | `pollNewFaceEvents`, `enqueueEvents`, `flushOutbox` | crash between and within file writes, a window and a page that may be too short, lost answers, a bounded queue | custody of every event kept; none missed; debounce holds across restarts |
| **Agent: main loop** `relay-agent/index.js`, `faceid-schedule.js`, server side `backend/src/agent` | timers and counters in memory, registrations on the server | `pollOnce`, `enrollOnDevice`, `resetStuckEnrollmentQueue`, `shouldPollStamp`, `ack` | two users of a terminal that takes one call at a time, retries with cool-down and give-up, clearing by several agents, lost acks | calls are apart; a driver listed as enrolled is on the terminal; no job waits for ever |
| **Drivers and enrolment** `backend/src/drivers`, `backend/src/agent`, `backend/src/devices` | drivers, registrations, pairing windows, agent keys | `create`, `update`, `updatePhoto`, `requeueEnrollment`, `startDevicePairing`, `setManualFaceMapping`, `unlinkDevice`, `setStatus`, `softDelete`, `verifyDriverOtp`, `ack`, `resetEnrollmentBacklog`, `claimPendingPairing` | check-then-write without locks, most without transactions; the agent's reports come at any time | one driver per Person ID and device, one pairing per device, a deletion is not undone and a block only by those who may, SYNCED means the photo that was queued |
| **Sessions** `backend/src/auth`, `frontend/src/lib` | refresh tokens; the pair stored in the browser, one refresh per tab | logins, `refresh`, `logout`, `changeStaffPassword`; the interceptor, the guard of the pages | find, revoke and issue are separate statements; tabs share a storage, not a refresh | one live token per login; a password change ends the other sessions; a logout is not undone; no call waits for ever |
| **Pages** `frontend/src/app`, `frontend/src/components` | what a page has loaded, its flags, its open calls | loads, polls, forms and buttons of each page | answers in any order, calls given up that the server still carries out, two calls behind one button | a form adds once; a quiet page shows what the server has; no button stays disabled |
| **Ads** `backend/src/ads`, `frontend/src/components/ads` | ads, slides, recorded dismissals; the popup and the banner in the app | `create`, `update`, `deactivate`, `addSlide`, `getActiveForDriver`, `respond` | reads before writes; an answer older than the dismissal | a window has an end after its start; slides keep their order; what was dismissed or switched off stays so; everyone sees what is due |

### 1.2 Parts without behaviour of that kind

Users, devices and products are created by single inserts and updates; feedback and the audit log
are inserts; visits and analytics are read-only queries; the webhook parser, JPEG preparation,
multipart framing and digest authentication are sequential conversions; guards, roles and
configuration are stateless. What the *pages* of these parts do is in `Console`. `PROJECT.json` lists
each part with the reason. The append-only triggers of `20260815190000_db_append_only_security` are
the shape of the models: ledger rows and cash entries are only ever added.

### 1.3 How the parts interact

    browser: Sessions (tokens), Console (pages), InAppAds (popup, banner)
       |  requests = the arrivals of the modules below
       v
    Enrollment (drivers, registrations, keys)                Ledger --debit--> OperatorCash
       ^  claims of unknown faces      ^ jobs, acks             ^ STAMP rows
       |                               |                        |
    Recognition <--webhook-- terminal --+-- AgentLoop           |
       |  ^                     | log                           |
       |  +--post, retries-- StampOutbox                        |
       +--------------------------------------------------------+

Everything on the server shares one PostgreSQL database; Prisma transactions run in READ COMMITTED.
The ledger, the cash float and the stamps are ordered by advisory locks (one per operator, one per
driver) and row locks; drivers, registrations, sessions and ads are not ordered by anything. The
agent, the browser and the server share nothing but HTTP requests. `Ledger` includes the cash float
through the abstract module `CashFloat`, which `OperatorCash` is proved to implement: the debit of a
ledger request is a step of the same float. A registration appears in three modules, each with what
its readers need: `AgentLoop` (one terminal, retries and waits in full), `Recognition` (which ID
belongs to whom; the other writers as single steps) and `Enrollment` (all writers, statement by
statement).

## 2. Modules

| Module | Models |
|---|---|
| `CashFloat` | abstract: a sum per operator, changed by atomic steps that never take more than is there, and the totals paid in and out |
| `OperatorCash`, `OperatorCash_proofs` | the cash requests, statement by statement; implements `CashFloat` |
| `Ledger`, `Ledger_proofs` | the ledger requests, statement by statement; its debits are steps of `CashFloat` |
| `Recognition`, `Recognition_proofs` | a glance's way from the two reports to a STAMP row, with staff operations in between |
| `StampOutbox` | the agent's stamp path: poll, state file, outbox, post |
| `AgentLoop` | the agent's loop: enrolment jobs and stamp polls on one terminal, with the server's queue |
| `RelayAgent_proofs` | proofs about these two halves of the agent |
| `Enrollment`, `Enrollment_proofs` | drivers and their registrations, statement by statement, and the agent's reports about them |
| `Sessions`, `Sessions_proofs` | the sessions of an account: the server's statements and the tabs of a browser |
| `Console`, `Console_proofs` | the pages of the front end: one record per page, one set of rules for all |
| `InAppAds`, `InAppAds_proofs` | the staff's edits of ads and slides, and what a driver's app shows |
| `MC_*` | small instances |

Definitions whose names end in `_Something` with the comment "Mutant" are plausible bugs of the
definition before the underscore (a dropped guard, a forgotten reset); no specification uses them.
They show that a property depends on the code: put in place of the original, TLC finds the
property violated.

### 2.1 OperatorCash

A request is `step[r]`, the next statement it executes, with its private view: what it read
(`seen`) and what it has inserted but not committed (`wrote`). `Lock` and `LockSecond` are
`pg_advisory_xact_lock`; `Expire` is Prisma's transaction timeout or a lost connection at any
statement; `End` drops locks and view. The entries of an operator are abstracted to their sum,
because the code never reads anything else of them. The abstract float also counts what was paid in
and out: a handover that lost or invented money would be no step of it.

### 2.2 Ledger

A driver's rows are kept as one sum per transaction type, his stamps one by one. An UPDATE visits
its rows one after the other (`MarkStamp`), waits for a row another transaction has marked and
looks at it again, as PostgreSQL does under READ COMMITTED. Statements that touch nothing shared
(inserting the row, the audit entry) belong to the neighbouring step. `redeemAllStamps` counts
before its transaction opens (`CountStamps`); `resetAllDriversStamps` runs one transaction per
driver and continues after a failure. Its list leaves out the drivers who are deleted (`Resettable`),
as the comment at `ledger.service.ts:462` says. `SoftDelete` leaves the ledger as it is, so the
stamps a driver had when he was deleted stay outstanding: no reset redeems them and none reports them,
and `ResetCovers` speaks of the stamps of drivers who were not deleted when the reset began. One who
is deleted while the loop runs is refused like a blocked driver and named among the failed.
The rest of the cash float's users appear as the atomic
steps `DepositCash` and `HandOverCash` of `CashFloat`. The rows of an
`id IN (...)` update are visited in the order of the stamps, the same for every request: what
PostgreSQL does here, whether it finds them by the index or in the table, but does not promise;
`NoWaitCycle` rests on it, and its mutant shows the deadlock without it.

### 2.3 Recognition

A report (webhook or agent) is a request of up to nine statements. `Logged` is what the search for the
dedupe key may find; it runs before the lock and is not repeated under it. The search sees the last 400
events of seven days of the device: `Recede` puts the event of a glance out of its reach, at any time,
and `Overlooked` lets a search miss what has receded (it may also still find it: a newer event with the
same key can be within reach). `createdAt` is the time of the INSERT, so a row may carry an
earlier time than its commit, by `Life` at most: Prisma ends an interactive transaction after its
timeout (5 s unless set), and a commit that was begun is taken to end within it. Nothing bounds a
request otherwise: the 30 s after which the agent gives up are the client's. `Rollback`, `Abort` and
`LogError` are the catch block and a dying process.

Whoever else writes a registration or a driver's status is a single step here: `StartPairing`,
`Queue` (the upsert of a new enrolment, which forgets the Person ID), `Map` (the Person ID the staff
types), `Ack` (the agent or a push has written the photo: the Person ID is the driver's id), `Unlink`,
`SoftDelete`, `SetStatus`. `Linked` is what all links have in common. Four history variables record
what the properties name as exceptions: `forgotten` (out of the search's reach), `late` (came to the
guard more than the guard, less `Life`, after its search), `crossed` (a Person ID of a terminal that
was linked to someone else than its face) and `borrowed` (looked up in another terminal's
registrations). The STAMP row and the PROCESSED event of one commit are one entry of `stamps`.

### 2.4 StampOutbox

An event is its serial number. `Poll` is `pollNewFaceEvents` up to and including `saveState`;
`Enqueue` and `Post` follow. The two files survive a crash, `fresh` does not; `CrashSavingState`
and `CrashSavingOutbox` are a death inside `writeFileSync`, after which `readJson` returns the
fallback. A poll the terminal does not answer changes nothing, and skips queueing and posting too.
The page holds the oldest events of the window (what the terminal does, not the code). What is read,
unread and kept are sets of serials, which are also the order of the events, so the rows of a page are
put at the end of the queue `InOrder`. Left out:
events without a serial number use a time key instead; `seenKeys` is cut to 1500 above 2000 and
`lastPersonAt` older than an hour is dropped, both far beyond one window.

### 2.5 AgentLoop

The program counter is the place in the loop; dates are ages and waits, cut off where the code can
no longer tell the difference, so that the clock needs no bound. Time passes while the terminal is
called and while the loop sleeps; what a request to the server takes is counted to the sleep. A
registration is `pending`, `failed`, `synced`, `denied` (FAILED, with the face id of an earlier
success: a give-up that follows a lost success answer) or `removed`; one that is created again
after a removal is another member of `Jobs`. Jobs are those of drivers who are not blocked
(`listPending` hides the others). The drivers that `resetEnrollmentBacklog` deletes and that `ack`
activates are in `Enrollment`. `Result` is what `pollOnce` returns and `main` keeps of it. A
self-update (looked for every 90 s, `index.js:556`) is `Crash` and `Restart`. A process that starts has
forgotten when the terminal was last called; the history (`calledFor`, `sinceCall`) has not, and
`restarted` says that the agent was stopped since. A call the process did not live to end may have
reached the terminal or not (`CutShort`).

### 2.6 Enrollment

A request of the staff, a report of the agent (`ack`) or a claim of the recognition service is a record in
`request`: its place (`at`), what it is about and what it has read so far. Each `await` of the code that
reads or writes shared rows is a step, the driver, the devices with an agent and the chosen devices being
three queries of `enrollOnDevices` and its callers; the transactions of `softDelete` and
`resetEnrollmentBacklog` are one step each. Rows are addressed by driver and device where the code upserts,
and by id where it updates or deletes (`Same`): an update of a row that is gone fails, an update of a row
that was queued again hits its new life. `Direct` are the devices the server can call itself. A photo is its
number; one that `POST /drivers/:id/enroll` brings along is stored nowhere (`Uploaded`): the server pushes
it where it can, and an agent that finds the job writes the stored one. A login code (`verifyDriverOtp`) is
right or wrong; what matters here is that it reads the driver as PENDING and opens his account two
statements later. The agent's download of the photo and its write to the terminal are one step; its retries
and waits are in `AgentLoop`. Properties that the missing locks spoil are stated with the overlap that is
their only exception (`met`, `caught`, `overtaken`): they say that *nothing else* breaks them. `overtaken`
are the registrations queued again while a job, a claim or a push of their earlier life was under way, those
whose push came after the row was gone, and those for which an agent wrote the stored photo in place of the
uploaded one; of drivers who were deleted under somebody's hands (`caught`) nothing is promised.

### 2.7 Sessions

A pair of tokens is its number; `Root` is the login it descends from. The server's `refresh`, `logout`,
`changeStaffPassword` and logins are their statements. A tab starts one refresh at a time
(`refreshPromise`), calls wait for it and are repeated once (`again`); the storage is shared by the tabs.
`login()` of the browser tries the staff's door, then the driver's. A call the browser gives up on was
either not received or worked off. A 401 of a wrong password starts a refresh like any other, because the
interceptor does not tell them apart. `LoginClash` and `NextClash`: a refresh token is signed over the
account and the second it is issued in, nothing else, and its hash is unique, so the second of two pairs
that an account gets within one second is not stored and the request fails - in `refresh` after the old
token was revoked. Left out: the login with a one-time code (its write of the status is in `Enrollment`),
and the deactivation of a user (`refresh` does not look at `isActive`; `staffLogin` does).

### 2.8 Console

Nearly all pages are built alike: `load()` fills a list, a button sends a call, sets a flag that disables
it, and takes the answer by patching a row, removing it, loading again, or leaving. So a page is a *record*
(`Page`, `Op`) that says which of these its code does, and one set of actions serves all of them; `map`
gives the lines of each page with its record. Each record is a translation of its page's handlers: whether
the flag holds one row or a set of rows or does not exist, whether it is released before or after the
following load, how many calls a form makes, whether an error loads too. What a page shows of a row is the
set of changes it has seen, which is all that `QuietIsFresh` needs. A call that was given up (45 s) or whose
page was left may still be carried out (`orphan`). `hands` is `endShift`, which the server accepts if the
till holds the sum that was confirmed: `Cash` counts what came in and went out since the last handover,
every deposit and every payment being one unit, so that different histories may come to the same sum. `part`
is the answer to a saved Telegram name, which lacks the driver's devices (`links`) and takes them off the
page (`ShowPart`); the answers to an edit and to a new photo have them. The agent's card of the device page
has one flag for its buttons; a download changes nothing and ends, for the page, like a call that was
refused.

### 2.9 InAppAds

`update` and `addSlide` are a read with the checks and a write; the write gives *all* of the window
and, of the other fields, what the request gave. `getActiveForDriver` is two statements (`ReadAds`,
`ReadDismissals`), the popup's X closes at once and its request may be lost. One page stands for the
popup and the banner, which ask independently and never meet. The audience is a bucket per ad and
driver, any function of them instead of the hash. Uploading, replacing and serving pictures is left out.

## 3. Fairness

No liveness property assumes more than the code's scheduling gives:

* `OperatorCash`, `Ledger`, `Recognition`: a request that has begun executes its next statement
  (WF), and a lock that is free again and again is granted (SF: PostgreSQL serves lock waiters in
  turn). Arrivals, timeouts, crashes and staff have no fairness. `Recognition` also assumes that
  the agent posts an event it holds again and again (SF of `AgentPost`): its loop retries for ever.
  `Delivered` is conditional on staff who do not delete registrations for ever.
* `StampOutbox`: the loop goes on and a crashed agent is restarted (WF: `start.cmd`); of the posts
  made again and again, some batch is ingested and its answer arrives (SF). Without that last
  assumption nothing can leave the queue; with it, the fairness of `Poll` is the one that matters,
  because the queue is only posted after the terminal has answered.
* `AgentLoop`: every wait of a round ends (WF; all its HTTP calls have time limits), time passes
  while the loop sleeps (WF), and among endlessly many calls some succeed (SF of taking a job, of
  asking for and performing a clear, of the failure report).
* `Sessions`: each call and each refresh goes on (WF of `Proceed`, `ProceedRefresh`): the server works
  on what it has received, and both of the browser's clients have a timeout, so `Lost` is among the
  ways to go on. No click, no expiry is assumed.
* `Console`: each open call goes on (WF of `Proceed`, with giving up among its ways) and `setInterval`
  of a page that polls fires (WF of `Poll`).
* `InAppAds`: a driver keeps opening the app, which asks, shows and closes what it shows (WF of each),
  and a dismissal that is not lost is recorded (WF of `Record`). Clock and staff have no fairness.

## 4. Runs

| Run | Instance | Shows |
|---|---|---|
| `cash` | 2 operators, 2 requests, sums 0-2, at most 2 paid in; fair | `BooksSound`: no negative balance, a checked balance stays current; handovers move what was confirmed; `ImplementsCashFloat`; every request ends |
| `ledger_spend` | 1 driver, 2 stamps, 2 drawers, 1 product with 2 items, 2 requests, sums and quantities 1 (redeem all: up to 2), at most 2 paid in; redeem, redeem all, advance, goods, adjust, hand over, block, withdraw the product; `OneTrade` | nothing is redeemed twice or out of order; points and stock agree with the rows; no circle of waiting; every sum the ledger records leaves a drawer in one step of the float |
| `ledger_reset` | 2 drivers with a stamp each, one of whom may be deleted at any time, 2 requests, reset and redeem; fair | a reset accounts for every stamp outstanding when it began, but for drivers deleted by then; every request is answered |
| `recognition_gates` | 2 drivers, 2 terminals that number faces on their own, 2 reports at once, guard 1, clock to 2, and one of: 1 webhook, 1 failure, events out of reach, a photo queued for one registration (`OneDisturbance`) | `MinGap`, one stamp per dedupe key, the stamp is the right driver's, each with its exceptions |
| `recognition_pairing` | 1 driver who is paired, queued, acknowledged, mapped, unlinked, blocked, deleted meanwhile; 2 reports, 1 failure; fair | what the agent holds reaches the log |
| `recognition_lost` | 1 driver, 1 glance, 1 failure | **violated**: section 5 |
| `outbox` | 3 events of 2 persons, window, debounce 1, page, queue and batch 2, 1 crash, clock to 2; fair | `ReadOnce` (kept once, a debounce apart, none missed), `Custody`, `Emptied` |
| `loop` | 2 jobs, large queue 2, settle time 2, back-offs 1, 1 crash, requeue or clear by others; fair | `Apart`, `SyncedIsWritten`; every pending job is written, given up or cleared |
| `enrollment` | 2 drivers, 1 terminal with an own Person ID, 2 requests at a time, 3 in all, out of fourteen operations, and the agent; 2 photos and an uploaded one, window and grace 1 (`OnlyRelated`, `UsedForReset`) | one pairing and one owner of a Person ID per terminal, deletions and blocks hold, SYNCED is current, each but for what it names |
| `sessions` | 2 tabs, 2 calls, 2 clicks, 2 expiries, 1 lost message; fair | one live token per login; password change and logout end what they should; no call hangs |
| `console` | each of the 15 pages with 2 rows, 2 open calls, 2 clicks, 1 foreign change, 1 call given up; fair | forms add once, a counted till is handed over once unless it was filled again, quiet pages are fresh, the choice shown is the choice made, buttons return, polls recover |
| `ads` | up to 3 ads (2 looked at), 2 slides, 1 driver, 2 requests, 3 clicks, 1 failure; fair | windows, slide order, dismissals, switching off; everyone sees what is due |

**Why the bounds are enough.** All races of the server are between two requests that meet on one
row or lock: two requests show them, and a third one meets the same two. Two operators are needed for
a deadlock of handovers, two stamps for an order among stamps, two drivers for a reset that fails in
the middle and for a Person ID with two owners. Requests end and begin again without a bound in `cash`
and `ledger_*`, so long histories are covered, until a counter that only grows (`MaxDeposited`,
`MaxAdjusted`) stops them; in `recognition_*` webhooks, failures and the clock are counted, in
`enrollment` the requests (three: two that overlap and one before, or after, that makes the state they
meet in), in `sessions`, `console` and `ads` the clicks. In `outbox` three events overflow both the
page and the queue, and a crash may strike at every statement; a second crash meets the state the
first one left, which is one of the states a poll starts from. In `loop` two jobs reach the clearing
by size, while one runs through retries; `MaxEvents` bounds crashes, requeues and clears by others
together. In `ads` three ads overflow the newest two, as more than 60 do in the code. Waits are scaled:
in the code the settle time is 3 s, the cool-down 120 s, the window 60 s, the age limit 20 min, the
retry limit 5, the pairing window minutes. The theorems of section 6 hold for all their values.

`ledger_spend` is cut by the constraint `OneTrade`: cash paid in, goods sold and manual adjustments
live in three different tables (`operatorCashEntry`, `product`, a row type of its own), no step reads
two of them, and a history is followed further only while it has touched one of the three. Requests
of all kinds are still under way at the same time, and stamps are redeemed in all three.

`recognition_gates` is cut by `OneDisturbance` in the same way: a history is followed further only while
one registration at most differs from what it was, and only one of a webhook call, a failure, an
event out of reach and a change of the registry has happened. Each of them is checked against two
overlapping reports with retries and lost answers; two of them in one history are left to the
theorems, which have no such bound.

`console` has a till with one amount in it at first, so that a deposit of a colleague after a handover
makes the same sum again: two clicks, one call given up and that one foreign change reach the second
handover of one count. The larger instances have 1.5 million (`enrollment`), 0.9 million
(`console`) and 0.65 million (`sessions`) distinct states.

`enrollment` is cut by two bounds. `OnlyRelated`: two requests are under way together if they are about
one driver, if both read the phone numbers (`create`, `update`), if both read the windows and Person
IDs of the terminal (pairing, mapping, claim), or if one of them is a reset of the backlog or a report
that has not found its driver yet; other pairs about different drivers read nothing that the other
writes, and are left to the theorems. `UsedForReset`: whether a driver has been used is read by the reset
of the backlog alone, and he is first used while one is under way. Every pair of
statements that write what the other reads still meets.

`CHECK_DEADLOCK FALSE` stands in the cfgs of `recognition_gates` and `_lost` (clock and reports are
bounded), `enrollment` and `sessions` (the requests and clicks run out) and `console` (a page is left,
or rests when the clicks are used up). In all the others a state without a successor is an error.

`StampedOncePerKey` needs no relation between the constants: a post that comes to the guard so long after
its search that a stamp made since may have left the guard's window is `late`, and named as an
exception. With the guard's 60 s and the transaction's 5 s that takes 55 s between the two.
`MinGap` does not depend on any of this. `ReadOnce` is stated for state files a crash has not cut short, and
for polls that come within the window.

## 5. Where the program differs from what is written about it

Checked, by a run whose counterexample shows the path:

* **A stamp may be lost** (`recognition_lost`, `NoneLost`). The ERROR event of a failed transaction
  carries the dedupe key; the agent's retry is answered "Duplicate event ignored" and dropped from
  the outbox. `relay-agent/README.md:12-13` says that no stamp is lost.

Met while modelling; the models contain the path, no run is spent on it:

* A glance may be stamped twice: the guard compares arrival times, and the webhook's events carry no
  dedupe key; a glance the webhook reported at once and the agent delivers after the guard is stamped
  again. `docs/HIMOYA.md:102` lists two stamps for one glance as excluded. The same happens to an event of
the agent whose first report is no longer among the last 400 events of seven days of its device when it
is posted again (`forgotten`), or whose post is slow (`late`).
* A failing job stops the stamp polls: while all pending jobs cool down (120 s after each of up to
  five failures) stamps are not polled, and the next poll reads only the last 60 s. The header of
  `faceid-schedule.js` says a driver stuck in the queue must not block the stamps of the others.
* A job queued again may be cleared untried: the upsert (`drivers.service.ts:371`) keeps the
  registration's `createdAt`, which the agent takes for the time in the queue: a driver registered more
  than 20 minutes ago is "stuck" at once, and the queue of every terminal is emptied.
  `index.js:585-594` wants neither.
* `manualAdjustment` inserts rows for BLOCKED drivers, and the other ledger operations check the
  status before their transaction opens; `prisma/schema.prisma:40` says of BLOCKED "frozen — no new
  transactions allowed". Recognition checks the status before its transaction, too.
* `recentPersonStamp` (`recognition.service.ts:226`) compares raw Person IDs of any terminal and any
  driver, so a driver may be refused a stamp because of another one's number; the comments at :202
  and :373 speak of "the same person/driver" and of Person IDs that are local to a terminal. The
  fallback at :349-361 may credit an unlinked local number to a driver who has it elsewhere.
* A claim of a pairing never compares the event's time with the start of the pairing
  (`recognition.service.ts:378-388`); `drivers.service.ts:610` says "Only faces seen AFTER Ulash
  starts may claim this driver".
* The check whether a Person ID is taken and the link (`:391`, `:408`) are separate statements, and
  an expired pairing stays claimable for 90 s while `startDevicePairing` no longer counts it: one
  Person ID may end with two drivers of one terminal (comment at :374), and not the first unknown
  face but the last one wins (comment at :316). `LinkedOnce` and `OnePairing` name the overlap.
* A crash between `saveState` (`acs-events.js:341`) and `enqueueEvents`, or within `saveOutbox`,
  loses events: `Custody` names these cases as its exceptions.
* A registration queued again keeps its id: the report about the *earlier* photo, or the claim of an
  earlier window, marks the new job done, and a push of the earlier photo that arrives late replaces the
  newer one (`overtaken` in `Enrollment`). `cancelDevicePairing` deletes by
  id what a claim may have turned into a link since it looked.
* A block is lifted not only by `setStatus`: a mapping, a claim, a push or a login code whose request
  read the driver as PENDING before he was blocked writes ACTIVE afterwards (`auth.service.ts:139-144`
  for the code, by id and without a second look).
* The agent's two kinds of call are a settle time apart only while the agent runs: it starts with both
  touches at 0 (`index.js:416-417`) and restarts itself whenever new files are found, so the first call of
  a process may come right after the last one of its predecessor.
* `refresh` is not atomic: two tabs that present one token get two live successors (`twice`); a login
  checked before a change of the password may issue after it (`escaped`), although
  `auth.service.ts:178` wants the other sessions to log in again. Two pairs of one account within one
  second are refused by the unique `tokenHash`: the second tab's refresh, or a login right after another,
  fails (`NextClash`, `LoginClash`), a refresh after its old token was revoked, which signs the tab out.
* A form whose answer was lost, or whose second call failed, stays open, and sending it again deposits,
  pays out or creates a second time (`torn` in `Console`). `endShift` compares the sum with the till, not
  with what was counted: a call that was given up, and repeated, is accepted again when the till has come
  to the same sum meanwhile, and hands over money that nobody counted for it.
* Saving the Telegram name answers with the driver without his devices (`drivers.service.ts:854-867`), and
  the page takes that answer for the driver (`drivers/[id]/page.tsx:158-161`): his devices are gone from
  the page until it loads again.
* A dismissal whose request fails lets the popup come back at the next visit; the comment at
  `driver-ad-popup.tsx:29` says it won't return. An edit of a title writes both dates as it read them
  and so puts back a window that was changed meanwhile. Two uploads that overlap may take one place among
  the slides. Of the ads that run, the newest 60 are taken *before* the audience is looked at, so an ad
  with an audience may hide an older one from drivers who do not belong to it.
* `POST /drivers/:id/enroll` accepts an uploaded photo and does not store it. It queues a job for it, but
  an agent downloads the stored photo, writes that one, and the registration is SYNCED. Like a mapping and
  a pairing it does not refuse a deleted driver: his face is queued, and pushed where the server
  can, without a stored photo for the agent.

## 6. Proofs

All for every value of the constants, from the named assumptions of each module only; TLC evaluates
those assumptions in the runs.

* **`OperatorCash_proofs`**: `TypeCorrect`, `BooksAlwaysSound`, `HandoverConfirmed`, `Refinement`
  (every behaviour of the requests is one of `CashFloat`, totals included: no handover loses or makes
  money). `NonNegative` is not inductive: a commit subtracts what was checked earlier. `IInv` adds that
  a request past its locks holds them (`LocksHeld`), that what it has written is what its step says
  (`EntriesMatchStep`), that its job passed the checks of its arrival (`JobsSound`), and that the
  balance it checked is still the committed one (`CheckedBalanceIsCurrent`). The lock keys may
  collide: nothing assumes that `hashtext` is injective.
* **`Recognition_proofs`**: `TypeCorrect`, `StampsApart` (`MinGap`), `StampedOncePerDriverHolds`,
  `RightDriverHolds`, `StampedOncePerKeyHolds`. `IInv` = types, who is in the
  transaction holds the driver's lock (`HoldsLock`), and who has passed the guard sees no stamp of
  the driver within it (`PastGuard`): the guard under the lock is enough although the driver was
  resolved, and the duplicate looked for, without it. That one event gives a driver one stamp rests on
  `DedupeInv`: a stamp of the event at hand that the search had in reach and did not find was committed
  after the search (`Overlapped`), a commit is `Life` after its INSERT at most (`Timely`), so who is not
  `late` at the guard finds that stamp there (`FirstOfDriver`). That the stamp is the right driver's
  rests on `LookerInv`: whatever Person ID the registry has for a driver is his face on that terminal, or
  recorded as `crossed` (`RegistrySound`), and what a request has found stays right when the row it
  found it by changes under its hands (`OfLooker`). Every writer of the registrations is among the steps,
  in any number and any order, and nothing is assumed of the registry, not even of the first state: a
  link to the wrong driver, by the staff or by a claim, and the fallback to another terminal's numbers
  (section 5) are the two ways to misattribute a stamp, and the theorem says that there is no third.
  `StampedOncePerKeyHolds` puts the two together.
* **`RelayAgent_proofs`**, the loop: `TypeCorrect` in four parts (rows, place, counts, timers);
  `CallsApart` from `Settled`: what the loop watches is never older than the call itself, and permission
  taken before the queue was read still holds when a job is taken - while the agent runs; calls before
  and after a restart are the exception the property names (`restarted`); `EnrolledWasWritten` from the fact
  that an acknowledged job is on the terminal. The stamp path: `StampTypeCorrect` with
  `EventsReadOnce` and `EventsInCustody`. That every finite set of serials can be put `InOrder` is
  proved from a least bound that would be a counterexample. `ReadOnce` needs `Watched`: as long as the
  state file is whole, what was kept is marked as read and its person's debounce began no earlier, and
  no date lies in the future. `Custody` needs `AnsweredHas`: once a post is answered, the server has
  the whole batch, and the batch is still the front of the queue, whose length is what the code drops.
* **`InAppAds_proofs`**: `WindowAlwaysSound`, `SlidesKeepOrder`, `DismissalsStay`, `OffStaysOff`.
  `IInv == StaffInv /\ PageInv`: a request in hand carries a window that ends after it begins (so it
  does not matter against which row it was checked), and its slide's place is after all slides it saw;
  a page knows only what was recorded, found only ads that exist, and its answer holds no ad it knew to
  be dismissed. The place after the last slide is a maximum, a `CHOOSE`: `LargestMember` shows that a
  non-empty bounded set of integers has one, from the library's theorem that the strict subsets of
  finite sets are well-founded, which needs no induction over an operator.
* **`Ledger_proofs`**: every property of `ledger_spend` and `ledger_reset` but the liveness: `TypeCorrect`,
  `RedeemedOnceHolds`, `OldestFirstHolds`, `NoWaitCycleHolds`, `ResetCoversHolds`, `BooksAgreeHolds` and
  `Refinement`. `IInv == TypeOK /\ JobsSound /\ ViewsSound /\ ChecksSound`: a request is at a statement of
  its own operation, has locked and not yet redeemed every stamp it has marked, and what it checked of a
  drawer or product row it still holds locked. On top of it stand `Ordered` (what a request has picked is
  closed towards older stamps), `HoldsSound` (what a request holds is older, or of an earlier kind, than
  what it waits for, so of all who wait in a circle one would hold less than itself), and `CoversSound` with
  `ListDone` (what a reset still owes is redeemed, failed or on its list, also when its driver is deleted
  meanwhile). Points, goods and cash are sums over sets; that the library's fold is a sum at all, and that
  it adds over disjoint sets, are two lemmas, proved from a smallest subset that would be a counterexample
  (`WFMin`), which needs no induction over an operator.
* **`Enrollment_proofs`**: `OnePairingHolds`, `LinkedOnceHolds`, `GoneIsGoneHolds`, `SyncedIsCurrentHolds`,
  `BlockHoldsAlways`, `TypeCorrect`. `IInv` has four parts. `TypeInv`: a request is at a place of its
  operation and about rows that exist (ids of registrations are never given twice). `LinkInv`: outside `met`
  there is one request between check and write per device, and what it has checked is still so. `GoneInv`:
  who refused deleted drivers, or read PENDING, deals with a driver who is not deleted, or one of `caught`.
  `PhotoInv`: whoever may yet answer for a row (job in hand, report, push, claim) has written the photo
  asked for or a newer one, or none was asked for, or the row is among the exceptions. The steps are grouped
  by what they leave alone (`Reads`, `WritesDriver`, `ChangesRow`, `UpsertUnasked`, `DeletesDrivers`).
* **`Sessions_proofs`**: `OneLiveHolds`, `PasswordEndsHolds`, `LoggedOutHolds`. `IInv` = types and
  `OneInv` (of a login nobody else is replacing a token, and the token being replaced is the last live
  one), `PasswordInv` (who is about to issue has compared the password of now, or the change has still
  to revoke), `BrowserInv` (the storage has the live token of its login, or a refresh is about to store
  it; a login not yet stored is known to nobody) and `OutSound` (after a logout no refresh is left, and
  the call that tells the server carries the live token).

* **`Console_proofs`**: `PagesTyped`, `ButtonsAlwaysReturn`, `ChosenIsShown`, `FormsAddOnce`,
  `QuietPagesFresh`. The records of the 15 pages are looked up once (`EveryPageSound`: what adds is a form,
  who waits loads, a page that polls or chooses is not left, and so on); the rest knows no more of them, so
  a page that keeps these rules is covered as well. The invariants: each row that a flag holds has a live
  call of that button, and a page that was left has none (`Held`, `Gone`), which gives the buttons; a call
  belongs to the choice or its answer is ignored, and what is shown belongs to the choice or its load is on
  the way (`KeyKnown`, `KeyComes`), which gives the choice; a form has one live call at most (`Alone`),
  which is about what the form holds now (`Drafts`), and of a form that is not torn the server has noted
  each call once and none that is still to be carried out (`AddsOnce`), which gives `Once`, with `Counted`
  for the end of a shift: there is money in a till that is handed over, and none is left, so that between
  two handovers it was filled (`Refilled`). `QuietIsFresh` follows from `Accounted`: every change is shown,
  or among the named exceptions, or a call is on its way that will bring it: a load that sees it, the write
  that made it, or the next call of the same form. The only assumption beyond types and numbers is that
  `"none"` is no choice.

The theorems have no hypotheses but the assumptions on the constants, and no exceptions but those the
properties name.

**Model-checked only**: the properties under fairness (`RequestsEnd`, `Delivered`, `Emptied`,
`QueueMoves`, `CallsEnd`, `PollRecovers`, `EachSeen`), since liveness and ENABLED are out of the
prover's reach. Every other property of the passing runs is a theorem.

## 7. Not modelled

* The table of the one-time codes (attempts, expiry, consumption) and the session a code opens: what
  `verifyDriverOtp` does to the driver's status is in `Enrollment`, with a code that is right or wrong.
  Rate limits and guards are stateless.
* The reports of Analytics and the listings: read-only SQL. They read without a common snapshot, and no
  document promises one. (The default month is computed in UTC and days in UTC+5; the page always sends
  its month, so the default is never used from it.)
* Terminal I/O (ISAPI, digest, multipart, JPEG preparation): a call succeeds, fails or is lost.
* The agent's self-update beyond its restart.
* The audit rows: a reset that dies in the middle (`ledger.service.ts:501`) leaves some drivers reset
  and no `ALL_STAMPS_RESET` row; the model has the crash, not the row.

## 8. Plan

Done: cash float with its abstraction; ledger on top of the float; recognition; the agent's two
halves; enrolment statement by statement; sessions; pages; ads: all with proofs of their safety
properties.

Next, most important first:

1. `Recognition` and `Enrollment` composed: claims against unlinking and re-pairing in one module,
   with `Enrollment`'s statements for those that are single steps in `Recognition`.
2. The table of one-time codes, with attempts and expiry, and the deactivation of a user during a
   session.
3. The reports of Analytics as functions of the rows, compared with what the ledger says.
