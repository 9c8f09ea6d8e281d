# Formal model of the booking service

TLA+ modules, TLC model-checking runs and TLAPS proofs for the booking service in `apps/api`
(NestJS, Prisma on PostgreSQL, Microsoft Graph, Zoom) and the public pages in `apps/web`.
Line numbers refer to the source at the commit this directory was written for; `PROJECT.json`
maps every definition to the lines it models.

    tlc -config bookings_conc.cfg MCBookings      # one run
    tlapm BookingLocks_proofs.tla                 # the proofs of one module

## 1. Inventory

### Components

| component | state it keeps | operations | module |
|---|---|---|---|
| Booking lifecycle (`services/booking.service.ts`, `public.controller.ts`, `services/expiry.worker.ts`) | tables `bookings`, `holds`, `idempotency_keys` | `createHold(Public)`, `sendVerification`, `confirmBooking`, `confirmBookingById`, `cancelBooking`, `rescheduleBooking`, `expireHolds` (cron) | `Bookings` |
| Graph reconciliation (`services/graph-reconciliation.service.ts`) | writes `bookings` | `handleWebhookJob`: event deleted, event updated | `Bookings`, `Calendar`, `Availability` |
| Webhook intake and jobs (`webhooks.controller.ts`, `services/webhook.worker.ts`, `queue/*`) | table `webhook_jobs`, the queue (in memory or Service Bus) | `graphWebhook`, `enqueueDueJobs` (timer), `runDequeueLoop`, `processItem` | `WebhookJobs` |
| Compensation jobs (`services/compensation.worker.ts`) | table `compensation_jobs` | `tick`, `processJob`, `retryOrFail` | `CompensationJobs` |
| Graph subscriptions (`services/graph-subscription.worker.ts`, `cli/create_graph_subscriptions.ts`) | table `graph_subscriptions`, the subscriptions at Graph | `syncSubscriptions`: create, renew; which notices the controller accepts | `GraphSubscriptions` |
| Calendar and mail side effects (`booking.service.ts`, `clients/graph.client.ts`) | `graph_events`, the flags `customer_*_required`, the events at Graph | post-confirm event creation, patch after a reschedule, reinvite, confirmation mail and its resend | `Calendar` |
| Availability (`booking.service.ts`) | `availabilityCache` in memory, 45 s | `getAvailability`, invalidation by hold, cancel, reschedule, expiry | `Availability` |
| Salesperson assignment | `rr_cursor` of the tenant | round robin in `createHold` | `Availability` |
| Public rate limiter (`middleware/public-rate-limit.ts`) | a bucket per kind and client, in memory | count and refuse | `RateLimit` |
| Web pages (`apps/web`) | date, slots and fetches of the picker; posts under way; what the page shows | fetch slots, select, hold, verify | `SlotPicker`, `BookingSite` |
| Internal API, health, config, mail templates, scripts | none that another part reads | - | - |

### How they interact

- Requests, the cron and webhook jobs share the PostgreSQL tables. They are kept apart by two
  advisory locks (`rr:<tenant>` for holds; the booking id for confirm, confirm-by-id and
  reschedule), by two unique indexes (active slot; Idempotency-Key), by row locks inside a
  transaction - and otherwise by nothing: `sendVerification`, `cancelBooking`, the "Hold
  expired" branches and the webhook reconciler update by id what they read earlier.
- A confirm triggers, after its commit, the creation of the Graph event; Graph sends notices back
  for the subscriptions the subscription worker keeps, the controller makes jobs of them, the
  webhook worker turns them into changes of the booking.
- Every change of a slot has to invalidate the availability cache of its day.
- The web server calls the API for the customer, holds first and verification second, with
  Idempotency-Keys made of the request and the minute; the rate limiter stands before both.

### What is hard here

A step that reads, awaits and writes by id; two confirms, two holds, a confirm and the cron at
once; a client that repeats a request; a hold taken over by another customer while links to the
former one are in mailboxes; three different clocks for one hold (`expires_at_utc`, the token's
`exp`, `created_at` + 15 min); queues that deliver twice or lose everything in a crash; jobs
whose worker dies, or that two processes select; subscriptions renewed by overlapping runs with
lost answers; answers that come after the customer has changed the date; a form posted twice,
or again after an error. The list with lines is `hazards` in `PROJECT.json`.

### What makes each component correct

- Booking: one confirmation per booking, one booking per Idempotency-Key, a valid hold stays
  with who has it, a confirmed booking carries neither a hold nor a usable link, no token
  outlives its hold, an open booking has its hold row and is sooner or later settled, no two
  confirmed bookings of one salesperson overlap, confirmed bookings are only ever canceled.
- Webhooks: done means the change was applied; every job is in the end done or given up after
  `MAX_ATTEMPTS`; finished jobs are not started again.
- Compensation: one process at a time runs a job, every run is counted once, done needs the
  meeting gone, and every job ends unless its worker died.
- Subscriptions: the stored subscription is live at Graph; a change becomes one job, and none made
  while the stored subscription was live is lost; everybody has a live subscription again in the end.
- Calendar: flags and calendar agree with the booking once everything is quiet; a canceled booking
  leaves no event; no customer of a confirmed booking without a mail or a flag.
- Availability: a cached answer does not offer a time whose occupation has been announced;
  simultaneous holds take turns.
- Site: the limiter's windows hold; the slots shown are those of the date shown; "verification
  sent" is only shown if a verification was recorded for that very hold.

Where the code does not keep one of these, a run of section 4 shows how, or section 6 tells it.

## 2. Plan

The order was: the booking table first, then the jobs that feed it, the cache in front of it, the
calendar behind it, and the outer parts (compensation, subscriptions, site). All of these are done.
The parts left over are listed under *Not modelled*. Every safety and action property of a passing
run is also a theorem (section 5). Wanted next: a composition of `GraphSubscriptions`, `WebhookJobs`
and `Calendar`, from the change in the calendar to the change of the booking; today the three meet
only at their interfaces.

## 3. Modules and the code

A handler is cut into actions at its awaits on a commit, on Graph or on the mail sender; a Prisma
transaction that takes a lock is two actions, what it reads behind the lock and what it commits,
with the lock held between them. Each module keeps a record per process (`req`, `worker`, `sync`,
`post`): `pc` names the next action, the other fields are the local variables used after an await.
`Start` begins handlers, `Continue` takes their next steps.

| module | what it is | state and where it is in the code |
|---|---|---|
| `Bookings` | holds, verification, confirm, cancel, reschedule, the cron, webhook changes | `booking` with its hold row, public token and jti; idempotency keys; clock. One row per booking |
| `BookingRaces` | `Bookings` with the bookings that requests raced on (`raced`), and what holds of all others | `raced` is history: a request wrote the status or hold of a booking while another was between its read and its write of it, or a cancel was sent again with its key |
| `BookingLifecycle` | abstract: a booking is free, open, confirmed; it is held for a request until some time, and until then for no other; only an open one is confirmed; only a lapsed one expires; of a contested one nothing is promised | refined by `BookingRaces` (`KeepsPromises`) |
| `WebhookJobs` | from `graphWebhook` to the end of `processItem` | `webhook_jobs` rows, the queue, each worker's variables |
| `CompensationJobs` | the tick of `CompensationWorker`: select a batch, claim, delete the meeting, mark done or count the failure | `compensation_jobs` rows, each process's batch and job, the meetings gone at Zoom |
| `RetriedJobs` | abstract: a job waits, runs, has its effect, succeeds or fails; `MAX_ATTEMPTS` failures give it up | refined by `CompensationJobs` (`KeepsPromise`) |
| `GraphSubscriptions` | `syncSubscriptions`, time, and what the controller makes of the notices | `graph_subscriptions` rows, the subscriptions at Graph with what is left of them, runs, notices, jobs |
| `Availability` | `getAvailability`, `invalidateAvailabilityCacheForStart`, round robin | what the booking table is worth to a reader per salesperson and interval, `availabilityCache`, `rr_cursor` |
| `Calendar` | post-confirm, mail, cancel, reschedule, reinvite, reconciler; any request or job may break off after any step (`StopShort`, `JobStops`), and errors that are only logged are steps (`MailLost`) | status, start and the two flags of a booking, `graph_events`, the calendar at Graph, reports on their way |
| `CalendarRaces` | `Calendar` with the bookings that two requests raced on, and what holds of all others | `raced` is history: a request took a step at a booking another was at |
| `RateLimit` | `createPublicRateLimiter` | the bucket of each kind that the site's customers share, the clock |
| `SlotPicker` | `PublicBookingEnhancer`: change of date, fetches, abort, selection | React state and refs per customer, fetches under way |
| `BookingSite` | the form's route (`book/route.ts`) and the older page (`[tenantSlug]/book/page.tsx`) on top of the two above and of an API with one step per request | booking per slot, keys seen, mails, posts under way, what each page shows |
| `MC*` | constants and symmetry for TLC | - |
| `*_proofs` | theorems | - |

Interaction between modules: `Availability` and `Calendar` take the booking table as far as they
need it (`Occupancy`; open, confirmed, canceled) and allow every change of it that `Bookings`
allows; who may make a change and when is the matter of `Bookings`. `WebhookJobs` decides when a
job's handler runs, `Calendar` and `Bookings` what it does; `GraphSubscriptions` decides which
notices become jobs. `BookingSite` composes limiter and picker with the web server's two calls, and
keeps of `Bookings` what one request at a time does to one slot.

Variables marked *history* (`raced`, `told`, `failed`, `missed`, `halted`, `unposted`, `announced`,
`last`, `runs`, `abandoned`, `passed`, `covered`, `asked`) record what happened for a property to speak of; no guard reads them.
Definitions marked `mutant` are plausible bugs, used only to see that each property can be broken;
those marked `bound` keep an instance finite.

## 4. Runs

| run | instance | what it shows |
|---|---|---|
| `bookings_conc` | two requests at once, two rows, two overlapping slots | the advisory locks do their work, also for a request that took its time before it waited: one confirm takes effect, one booking per Idempotency-Key, a valid hold is not handed on before its verification is asked for, a confirmed booking has neither hold nor jti |
| `bookings_races` | two requests at once, one row, a hold that lapses and changes hands, a cancel key used again, under fairness | only a race takes the hold row of an open booking; until there is one, `BookingLifecycle` is implemented; no confirm token that is accepted, and no mailed one, outlasts the hold it would confirm by more than is stated; every open booking that has its hold row is settled |
| `webhooks` | one worker, the queue in memory, two faults (crash or failing statement), under fairness | done means applied; `MAX_ATTEMPTS` tries, no fewer before giving up and no more but for faults; finished stays finished; every job finishes unless a crash left it behind |
| `compensation` | two processes, three jobs, one fault, under fairness | one runner per job, every run counted once, `RetriedJobs` implemented, every job settled or stranded by a fault |
| `subscriptions` | two overlapping runs, one person, two changes to one event, one fault | the stored subscription is live within the margin; a change is neither lost nor stored twice |
| `availability` | two salespersons, two activities, two overlapping intervals | only readers that had read the bookings before a change and cached after it offer the time (for 45 s) on the day a booking begins; simultaneous holds take turns |
| `calendar` | one booking, two requests at once that may break off anywhere, worker and salesperson at any moment | without a race or a break: agreement of calendar and booking or a flag, no orphan event, no customer left without mail or flag |
| `site` | two customers, one on each page, two posts under way, two dates, one fault | at most two windows' worth of requests per window; the slots shown are the date's; "sent" means a verification recorded for that very hold |
| `bookings_overlap` | one request at a time | **violation**: two overlapping confirmed bookings of one salesperson |
| `bookings_lost` | two requests at once | **violation**: a confirmed booking goes back to `pending_verify` or `expired` |
| `calendar_rebooked` | one request at a time | **violation**: the next customer of a canceled booking has no calendar event |
| `subscription_lapse` | two people, one mailbox inactive for a while, under fairness | **violation**: somebody stays without a live subscription for ever |

The four violations are the `findings` of `PROJECT.json`, each with the line of the document it
disagrees with. Every property of a passing run has a mutant there: a definition changed the way
a plausible bug would change it, with which TLC finds the property violated.

### Bounds

- `Bookings`: `Row`, `Proc`, `MaxTime` (no `Tick` beyond it), `LastHold` (no hold after it, so
  that the last one can still lapse within `MaxTime`), `HoldTTL` and `ConfirmWindow` of one or two
  ticks. Two rows are needed for an overlap, two processes for every race listed under hazards (all
  are between two handlers), and time for a hold to lapse, be taken over and lapse again.
  `Customer` is one: two holds differ by their keys. `Key` is the keys that are used twice and
  `Repeated` the endpoints they are used at: one key, at the cancel, in `bookings_races`, as a cancel
  sent again still deletes a hold; elsewhere a key seen before makes no change that a request without
  it could not make. `ConfirmWindow` is below `HoldTTL` there, as 15 minutes are below the
  defaults of 20 and 30; in `bookings_conc` they are equal. A request to hold a slot waits for the tenant lock for a tick at most (`Tick`): Prisma ends an
  interactive transaction, its wait included, after 5 s, and a tick of the clock is minutes.
- `WebhookJobs`: `MaxCopies` of an id in the queue (the controller's and the timer's),
  `MaxFaults` crashes and failures. Jobs share nothing, so one job is enough. One worker is what the
  queue in memory has (`runDequeueLoop` is started once); what two do is told in section 6.
- `CompensationJobs`: three jobs and batches of two, so that a batch is smaller than what is due;
  two processes are enough for a stale batch; two attempts, so that a job is retried and given up.
- `GraphSubscriptions`: times are what is left, in intervals of the timer. `THRESHOLD` = 5 is the
  least for which one fault is within the margin (`faults + 2 * LAG + 1 < THRESHOLD`), so the
  bound of `StoredIsLive` is met exactly. With `THRESHOLD` = 4 the same fault breaks the property:
  the margin is tight. `DURATION` = 6 with `LAG` = 1 satisfies `THRESHOLD + LAG <= DURATION`, as the
  service's 30 minutes and 48 hours do by far: a row just renewed is not due again before its run
  ends. `MaxOpen` bounds the changes whose notices are under way together.
- `Availability`: `MaxRows` = 2 bookings, a day whose business hours hold one slot, and a second
  interval that overlaps it and ends after the hours. Entries grow old at any moment, so there is no
  clock to bound. Answers for a single salesperson take the same path as those for all and are left
  out of the instance (`Asked`).
- `Calendar`: no bound: reports are a set, and the state is finite. Two requests are enough for every
  race between two handlers; three times are enough for the booking, the calendar and a request in
  flight to hold three different ones.
- `site`: `Post` requests under way (alike, hence the symmetry), `Picks` changes of date per page
  and none after `LastPick` (a late answer needs two changes; later ones find nothing new).
  `BUCKET` = 1 and `HOLD_TTL` = 4 with `LAG` = 1 satisfy `2 * BUCKET + LAG < HOLD_TTL`, as one
  minute, twenty minutes and any request under eighteen minutes do; the clock runs for a hold to lapse
  and its slot to be held again. Two requests per window, with two customers, exceed the limit.

### Fairness

- `Bookings!Fairness`: time passes and handlers that have begun go on (weak fairness); the cron,
  which runs every minute, looks for lapsed holds again and again (strong fairness of its first
  step, since it needs a moment when one of the instance's processes is not at another handler). Nothing
  forces a customer to do anything.
- `WebhookJobs!FairSpec`: the timer, the controller's enqueue, the clock and a worker in the
  middle of a job go on (weak fairness); a claimed id gets into the queue, and one in the queue is
  in the end taken (strong fairness: the bound `MaxCopies`, and a worker busy with another id, may
  disable either for a while; both queues are first in, first out). `onModuleInit` starts both
  loops and nothing stops them but the end of the process.
- `CompensationJobs!FairSpec`: the interval of each process keeps firing, a tick that has begun goes
  on, and `next_run_at` is reached. Crashes and failures are never forced.
- `GraphSubscriptions!FairSpec`: the timer fires in every interval, the loop runs on, and time
  passes. Nothing makes a mailbox work again; the property assumes it.

## 5. Proofs

Proved for all values of the constants that meet each module's `ConstantsOK` (`SiteOK`, `LimitsOK`
and `SlotsOK` for the site), with no further assumption unless the theorem names it.

- `Bookings_proofs`: `TypeInvariant`. `TypeOK` is inductive as it stands: one lemma per action,
  over lemmas about the record updates that the actions share.
- `BookingLocks_proofs`: `ConfirmedOnce`, `OneHoldPerKey`, `HoldsAreKept`. None is inductive. The
  strengthening says what a request in the middle of a transaction knows: at most
  one process is between the read and the write of a lock (booking or tenant), and what that process
  read is still so - the booking it is about to confirm is not confirmed, the row it takes over is
  not an unverified hold that is still valid, its key is still free. The time it compares with was taken
  before the wait for the lock, so it lies in the past, which is the harmless direction: a hold that had
  lapsed then has lapsed now. Every other action which could make the read stale needs the lock; a
  frame lemma disposes of those that touch neither.
- `Bookings_proofs` also: `ConfirmedStaysSettled`. A confirm writes the status, the jti and the
  deletion of the hold in one commit; the others, which write by id, write all the columns the
  invariant relates, or only ones that weaken its premise.
- `Bookings_proofs`, of `BookingRaces` and with no assumption on how requests interleave:
  `OnlyRacesLoseHolds`, `TokenNeedsHold`, `MailWithinHold` and the refinement `ImplementsLifecycle`.
  The eight steps that rest on what was read before (`Relies`: the commits of hold, both confirms, the
  mail and "Hold expired", the cancel's deletion of the hold, the two writes of the cron) are right as
  long as nobody wrote the booking in between; if somebody did, or a cancel was sent again with its
  key, the booking is `raced` from then on, and the theorems say what is promised of it still and
  what of every other. Two invariants carry them. `Clocks` holds of all bookings, raced on or not: a hold
  was set for `HoldTTL` from its request, which came a tick at most before the commit that stamped
  `created_at`, so that no hold made later is much shorter and no token outlasts it by more than that tick.
  `RowsSeq` is about the others: an open one has its hold row (`HasHold`), and what every request under
  way read of it before its commit still stands (`FlightInv`), so that each commit is one step of
  `BookingLifecycle` or none.
- `WebhookJobs_proofs`: `TypeInvariant`; `DoneOnlyIfApplied`, inductive together with what a worker
  past its handler knows; and, for any number of workers, assuming that no two are at one job
  (`OneAtATime`; the run's one worker satisfies it: `OneWorker`), `FailedOnlyAfterMax` and
  `TriesCapped`: the attempts a worker read are still those of the row when it writes, and a job in
  `processing` with nobody at it has been paid for by a fault (`Tries`). `FinishedForGood`, on
  the same assumption: a worker in the middle of a job is in the middle of an unfinished one
  (`Unfinished`), and another one writes another row.
- `CompensationJobs_proofs`: `TypeInvariant`, `ExclusiveRuns`, `EachRunCounted`, and the refinement
  `ImplementsRetriedJobs`. The claiming update tests the status, so whoever runs a job found it
  pending and is alone; from that, what it read of the row still stands (`RunOK`), every run ends
  in one count, and each step of the worker is a step of `RetriedJobs` or none.
- `GraphSubscriptions_proofs`: `TypeInvariant`, `OneJobPerChange`, `NoNoticeMissed`. The argument
  is identity: a subscription never changes its person, a row never its id, and a job exists
  only for the subscription that the row of its person names (`FlowOK`). `LiveWithinMargin`, for any number
  of people: one run begins in each interval and serves everybody, so a person whose row is below the
  threshold has lost every run since (`Margin`), each in an interval of its own; the lost runs that
  still matter number at most the faults, by their distinct ages (`FewMissed`); and a row says at most
  `LAG` more than Graph has (`LagOK`). It needs `THRESHOLD + LAG <= DURATION` (section 4).
- `Availability_proofs`: `TypeInvariant`; `OffersKnown`, in any time zones; and `TakesTurns`. The keys
  dropped for a booking are those of the day on which it begins where its salesperson is, and
  `OnlyLateReadersOffer` speaks of the answers for that day (`HidesThatDay`). It needs what a reader between its read and its fill
  knows: unless it is late, every announced booking that hides a slot was there when it read
  (`ReadersKnow`). Most steps are `Quiet` - nothing new in the cache, nothing more announced -
  and keep both at once. `RoundRobin` needs three facts: the cursor stands behind the last one
  (`CursorBehind`), the tenant lock admits one hold (`OneHolder`), and that one skipped all
  between the cursor and its choice (`InTurn`); then one round of the modulus (`OneRound`) ends
  at the last one only after all the others.
- `Calendar_proofs`: `TypeInvariant`; and, of `CalendarRaces` and with no assumption on how requests
  interleave, `CalendarAgrees`, `CanceledIsGone` and `ToldOrOwed`. The three speak of bookings that no
  two requests raced on, at moments when nothing is in flight; the
  invariant (`OneInv`, for each booking and whoever may be at it) says what is owed at any other moment and by whom: a mail
  by the request that will send or flag it (`ToldInv`), an event by the request that created it
  (`EventInv`) or is to delete it (`GoneInv`), a new time by the request that will patch or flag it,
  by a report still to be handled or by the job that read the event before it moved (`TimesInv`) - or
  by nobody, if a request or job broke off (`halted`, `missed`) or an error was only logged (`unposted`).
  It holds because what a request has read of its booking stays true to its end (`ReadInv`) unless
  another gets in, which makes the booking `raced`; a request leaves alone what the invariant says of
  any other booking (`ContinueElsewhere`, `StartElsewhere`).
- `BookingSite_proofs`: `TypeInvariant`, `PickedSlots`, `SentIsTakenUp`, `LimitPerWindow`. For the picker: only the
  last fetch is current, and the picker is loading until it is answered. For "sent": a key names
  the minute in which it was made, a key seen implies a verification recorded (`asked`) for the hold of that minute, and a
  hold outlives its minute, a request and another minute, so that the next hold of the slot has
  keys of its own. For the limiter: what was let through is remembered as a set of time and place in
  its bucket, the places of one bucket are different and at most the limit, and when a bucket opens
  all that is still within the window is of one former bucket.

Only model-checked: liveness (`EventuallySettled`, `FinishedOrForgotten`, `SettledOrStranded`,
`ValidAgain`), as fairness and ENABLED are outside the prover.

## 6. What else the models show

Behaviour of the code beyond the findings, for which no document says what should happen:

- *Bookings.* A valid hold can change hands once its verification has been asked for: `sendVerification`
  reads the booking, a report of a deleted event cancels it, a POST /holds reads the canceled row and is
  about to take it over, the verification is written by id and makes it `pending_verify` again, its hold
  still valid, and the takeover, which writes by id too, overwrites customer and key. `NoHoldStolen`
  therefore speaks of holds whose verification was not asked for. The jti of a verification link is always
  `verify-<booking id>` (`booking.service.ts:1398`): when another customer takes the booking over and
  asks for a mail, the former customer's link, while its own `exp` lasts, is accepted again. The
  `expired` status written inside the confirm transaction is rolled back by the exception that follows.
  With `HOLD_TTL_MINUTES` below 15, confirm-by-id accepts a hold that has lapsed: `TokenNeedsHold`
  then says by how much. A booking left without its hold row by a race of `sendVerification` with the cron
  stays `pending_verify` until the slot is held again. A reschedule looks at one of the bookings that
  overlap the new time: a confirmed one may hide behind a lapsed hold. Paths that find a hold expired
  leave its row to the cron. A cancel sent again with its key deletes the hold row of the booking whatever
  its status is by then (1818): that of another customer, if one has taken the booking over, and the cron,
  which selects by that row, never expires it.
- *WebhookJobs.* With the queue in memory, a job whose worker dies in `processing` is never run again:
  the timer selects `pending` rows only (`webhook.worker.ts:113`), and the queue is gone. Service Bus
  delivers the message again, as it is completed after the handler (`servicebus.queue.ts:60`).
  Two workers may both start one job (`webhook.worker.ts:183`): attempts
  are then counted twice, a finished job may be put back, and `FailedAfterMax`, `AttemptsCapped` and
  `FinishedStays` fail.
- *CompensationJobs.* Nothing resets a job left in `processing` by a crash. A failed job is pending
  again at once, and a second process that selected it before the failure runs it without waiting
  for `next_run_at`: the claim tests only the status. Nothing in the repository inserts such a job,
  and Zoom's `deleteMeeting` exists only in the mock client.
- *GraphSubscriptions.* Notices that Graph sends between the creation of a subscription and the
  insert of its row are answered 202 and dropped. Notices without an id count as repeats of any
  earlier one about the same event, for ever. Overlapping renewals may leave a row that expires later
  than what Graph has. An inactive mailbox ends the run for everybody after it (the finding).
- *Availability.* Confirm and the reconciler drop no key, so a booking moved by the salesperson is
  offered at its new time for up to 45 s. The union answer's key is dropped for the day in the
  salesperson's zone; where that is another day than the tenant's, the tenant's answer stays. Only the
  key of the day on which a booking starts is dropped. `OnlyLateReadersOffer` speaks of the answers for
  that day only, so neither case is among what it excludes. A booking outside business hours hides no slot through the buffer.
- *Calendar.* Of a booking that two requests raced on, the three properties of run `calendar` promise
  nothing: a reschedule that read it before post-confirm stored the event does not patch it (a cancel does
  not delete it, so that the event of a canceled booking stays although every call to Graph worked), and
  a resend may write its flag after the booking has changed hands.
  If the server stops between the commit of a cancel (`booking.service.ts:1841`) and the deletion of the
  event, or between that of a reschedule (2045) and the patch, a repeat returns early (1802, 1945) and
  nothing makes up for it. An error
  that post-confirm throws before it tries the mail (its reads at 374 and 380, the links at 1521) is only
  logged (1756), and so is a failing write of the flag (1563): the booking is confirmed, its customer has
  neither mail nor flag, and a repeated confirm returns early (`MailLost`, `unposted`). A report of a deletion
  that arrives late cancels the booking of the next customer. A job given up leaves the disagreement
  unflagged; so does a report that arrives before the event's id is stored (`missed`).
- *Site.* "Sent" means recorded, not sent: `sendVerification` answers it with no mail at all when Graph is
  off, the tenant has no Microsoft 365 id or the link cannot be built (1419-1448), and otherwise before the
  mail has left (1454-1477); as the key is recorded first, a repeat of the request sends none either.
  The proxy routes call the API without `x-forwarded-for`, so all customers of the site share
  one bucket (`public-rate-limit.ts:20`); a refusal (429) is shown as "unknown" (`errors.ts:145-152`).
  After a
  lost answer the older page tells the customer to try again (`book/page.tsx:145`), but its keys are
  random, so the retry meets the customer's own hold; the form's retry works within the same minute.
  The older page keeps the former slots on display while new ones load. In `reschedule/page.tsx:82-94`
  the redirect after a success is thrown inside the `try`, so that it is shown as a failed request.

## 7. Not modelled

- Pages for confirm, cancel and reschedule: one call each and no state of their own. The form
  without JavaScript: what it posts is what the picker posts. Rendering, texts and layout.
- Internal API (listing, links, attendance, settings): reads, and appends to `tracking_events`.
- Zoom meetings other than their deletion (nothing in the code creates one); audit and tracking rows,
  mail texts (nothing reads them back); customers' names; the token and address caches of the Graph
  client.
- The exact outcome of `Overlap` for arbitrary times (intervals in `Availability`, a relation in
  `Bookings`). Failing database statements and crashes in `Bookings` and
  `Availability`: a handler that ends early there has done what its steps so far did. `Calendar`,
  `WebhookJobs`, `CompensationJobs` and `GraphSubscriptions` have both, and `BookingSite` has them as a
  request that fails.
- Bootstrap, health, scripts and documents, which have no state that another part reads.
