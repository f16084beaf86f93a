# Verification of the crowdfunding backend

TLA+ models of the NestJS backend under `src/src` (Prisma/PostgreSQL, Redis,
Bull, Stripe), TLC configurations that check them on small instances, and TLAPS
proofs of their main invariants for every value of the constants. File and line
references below are to the repository; `PROJECT.json` maps every definition to
the lines it models.

## 1. The system

One Node process answers HTTP requests and runs one Bull worker. Handlers do not
share memory; they share the database, Redis and Stripe. Every `await` lets
other handlers run, no handler opens a database transaction that spans two
awaits, and none takes a lock. So the interesting behaviours are those of
handlers interleaved at their awaits, of handlers that stop half way (a rejected
await, a dead process), and of Stripe and Bull doing things again.

| Component | State | Operations | Hard behaviour | What makes it correct |
|---|---|---|---|---|
| Payments (`stripe/`) | Stripe intents, transfers and customers; `campaign_donations`; `users.stripeCustomerId`; the reward queue | create an intent, webhook, split with an organization, get or make a customer | Stripe repeats events, delivers late; five awaits per delivery; transfers nobody awaits; crash between insert and enqueue; events that fail every time; two first payments | a donation is a payment; a 200 means the work is done; the two parts of a split add up; who has paid gets no second customer |
| Gift cards (`gift-cards/`, `donations/`) | `gift_cards` | buy, redeem by transfer, use in a payment | redemption does not look at earlier use; repeated events reconnect the card | the card shows whether and how it was used |
| Collaborations (`collaborations/`) | `collaborations` | launch, change reward, accept, (cancel: read only) | read at intent and again at webhook; accept checks a bank status it read earlier | split only what the platform holds; accept only organizations that can be paid |
| Connect accounts (`stripe/`) | `bank_accounts`, `organization_bank_accounts`, Stripe accounts | create and link accounts, `account.updated` | account made on Stripe before the row exists; events overtake the request that made the account; two members at once | a row belongs to its owner and shows what Stripe said of that account |
| Organizations (`organizations/`) | `organizations`, `users.organizationId` | create, join, update (nobody leaves) | create is two writes; membership changes while another request uses it | whoever acts for an organization acts for the one they read |
| Challenge reward worker (`webhooks/donations/`) | Bull queue, `community_challenges_participants`, mails, notifications | one job per donation | two runs for one donor; stalled jobs run twice; one attempt only | rewards are earned, marked only after the mail, not sent by later runs |
| Community challenges (`community_challenges/`) | `community_challenges`, participants | create, update, join, report, admin verdict, progress | donor, admin and worker write the same row | completed means rewarded; progress agrees with the worker |
| Campaigns (`campaigns/`) | `campaigns`, images, caches | create, update, admin update, pages | images deleted before uploads; three separate reads make one page; cached lists | a page adds up, an open challenge is not missed |
| Favourites (`user-favourite-campaigns/`) | `user_favourite_campaigns`, Redis | add, remove, list | cache filled with what was read before a change | answers are stale by a bounded time only |
| Notifications, scam reports (`notifications/`, `scam-reports/`) | `notifications`, `scam_reports` | status change, scam alert, update, read | check-then-create; status and notification in two writes | alerted once; told only what happened |
| Users and identity (`users/`) | `users`, tax receipts | profile, identity documents, receipts | admin verdict races a new submission; receipt check-then-create | one receipt per year; verified means looked at |
| Authentication (`auth/`) | `users.refreshToken` | sign in, sign up, refresh | concurrent sign-ins and refreshes overwrite one stored token, which nobody compares | a user who signed in can sign in again and refresh |
| Campaign updates, storage, PDF (`campaign-updates/`, `storage/`, `common/utils/`) | `campaign_updates`, objects in Supabase | upload, post, render | uploads fail between writes | rows name stored files |
| Reference data, comments, email, OpenAI | – | read or single insert | – | – |

Calls between components: the Stripe webhook (`stripe.controller.ts:118-192`)
calls campaigns (`createDonation`), gift cards (`create`), its own service
(`transferDonation`) and the Bull queue; the worker reads challenges and
donations and calls email and notifications; `transferDonation` reads
collaborations and bank accounts; the transfers it makes come back as webhook
events. `DonationWebhookController` and `webhooks/payments` are not registered
in `AppModule`, and no job of the queue `donation` is ever produced.

## 2. Modules

| Module | Models | Composed with |
|---|---|---|
| `Tables` | database tables as partial functions: insert/update (`Put`), delete (`Drop`), fresh ids (`NewKey`) | everything |
| `Payments` | intents, the webhook handler await by await, gift cards, the split, owners and their bank accounts, Stripe's retries, crashes | implements `DonationLedger` |
| `DonationLedger` | abstract: payments are entered as donations, never without payment, and settled only when entered | – |
| `ChallengeRewards` | challenges, participants, Bull's queue and the worker await by await | implements `RewardBook` |
| `RewardBook` | abstract: who rewards a participation has found it open, gives after the mail and tells after giving; nothing is taken back | – |
| `DonationToReward` | the webhook that stores donations and queues jobs, and the worker that counts and runs them, in one process | instantiates `Payments` and `ChallengeRewards`, implements both |
| `ConnectAccounts` | Connect accounts, `account.updated`, membership, acceptance of collaborations | shares collaborations with `Payments` (composition planned) |
| `Favourites` | the table, the Redis copy, finds and creates await by await | – |
| `Submissions` | every handler that uploads files and then writes a row that names them; verdicts on identities | – |
| `Notices` | verdicts and whom they are told to, scam alerts, the hook of campaign updates | – |
| `TaxReceipts` | the yearly receipt: find, read, upload, create | – |
| `CampaignPages` | a campaign's page, the lists of campaigns, the challenge shown with each, three kinds of cache entries | – |
| `Users` | sessions (the stored refresh token) and Stripe customers, both read before they are written | – |
| `MC*` | small instances: model values, symmetry and scenes | – |
| `PaymentsProofs`, `ChallengeRewardsProofs`, `ConnectAccountsProofs`, `SubmissionsProofs`, `NoticesProofs` | proofs about the module of that name | – |
| `DonationToRewardProofs` | proofs about the composition | instantiates the proofs of its components |
| `UsersProofs` | proofs about `Users`, and at its end about `TaxReceipts` (`R!`), which `UsersService` serves too | instantiates it, with its own `request` |
| `CampaignPagesProofs` | proofs about `CampaignPages`, and at its end about `Favourites` (`F!`) | instantiates it, with its own `request` |

In the modules of requests a **request** is a row of `request` with a `pc` that
names the await that comes next. `RequestFails` is an await that throws or the
death of the process: the writes already made stay. In `CampaignPages` and
`Users` a request's id is used once and its row stays, as the record of its
answer; in the others the id is free again when it ends, so these models run
without end.

### Payments

A **delivery** is one POST of Stripe's webhook. Its `pc` names the await that
comes next (`received`, `split`, `enqueue`, `answer`), so each action is one
await with everything that follows it up to the next one: `StoreDonation` is
`createDonation` (one nested write: the row and the gift card's foreign key),
`SplitDonation` is the two unawaited `transfers.create` of `transferDonation`
(they go to `outbox`), `EnqueueReward` is `queue.add`, `Answer` is the 200.
`HandlerFails` is an await that throws, before or after its effect (the action
that has the effect may have happened or not when it fires); `Crash` ends every
running delivery and may lose any transfer still on its way. Stripe is external:
`event[o]` is `due` until a delivery is under way, `acked` once one was answered
with 200, and due again when a delivery fails; `Redeliver` is an event Stripe
sends although it need not (at-least-once delivery, or a handler slower than
Stripe's timeout). `HandlerThrows` is what fails with every delivery: a gift card
or receiver to connect that no row has (`Unknown`: the ids are the client's, and
nobody looks them up), or a split while the campaign's owner has no bank account,
which may come about because an update of a campaign makes its sender the owner
(`ChangeOwner`). Stripe gives an event up after `MaxTries` deliveries.

The metadata of intents and transfers is the row `object[o]`. A `value` is what
moves, in sen; the amount in the metadata is the same in ringgit, and
`parseInt` keeps its whole part (`WholeRinggit`), since nothing makes a client
send a whole number. A reward `r` stands for the fraction `r / Whole`, and may be
negative or exceed one, since nothing checks it. A share is kept in `1 / Whole`
sen, without rounding: Stripe makes only transfers of a whole, positive number of
sen (`CanMove`). The code multiplies floats; for values below 2^51 / `Whole` sen
a product that is not whole never becomes so, and one that is whole may miss it
and be refused, which `TransferRefused` covers.

### ChallengeRewards

A **run** is one execution of the Bull processor for a job. `ReadParticipants` is
the query at processor:43-66 with the challenges' terms, `CountDonations` takes
the next participation in any order, `SendEmail`, `MarkRewarded` and `Notify` are
the three awaits that follow. Bull is external: `Stall` is a lock that ran out,
which happens to a dead worker's job and may happen to a slow one's; the job is
then run again (`maxStalledCount`, default 1) while the first run may go on.
`EmailService.sendEmail` is a stub whose `emailId` is the empty string; its calls
are recorded in `mail`. The donor and the admin write the same rows in
between (`UpdateParticipant`, `AdminRewards`, `AdminRejects`,
`UpdateChallenge`); the
admin's notification is an await of its own (`AdminNotifies`,
`AdminNotificationFails`, pending in `granting`). A challenge's amount and number
may be null: without a number every comparison holds, without an amount the query
throws (`CountThrows`).

`RewardBook` is what is left of this for a participant, without donations,
terms, jobs, stalls and crashes. `BookOf` maps a participation to its standing
(a `rewardEmailId` that was stored: given, a reward of the admin's: granted),
and what a worker took are the participations that its run found open when it
read (`TakenUp`). A run reads once and acts later, so two runs that found one
participation open may both mail it: the book allows that, as the code does,
but no run that reads after a reward was given or granted mails it again.

### DonationToReward

`P` is `Payments` and `R` is `ChallengeRewards`. The table of donations is that
of `P`; `R` sees it as `CountedDonations`, what the worker's queries select, with
the whole ringgit of the payment, the category of the campaign and the time it
was stored. The queue is that of
`R`; `P` sees its keys. `StoreDonation` and `EnqueueReward` are steps of both
components, `Crash` ends deliveries and runs alike (one process), and every
other step is a step of one component that leaves the other's variables alone
(`OfPayments`, `OfRewards`). Each component counts its failures.

### ConnectAccounts

`CreateConnectAccount` and `CreateOrganizationAccount` are `accounts.create` of
Stripe with the metadata `{userId, organizationId?}`; `SaveBankAccount` is the
insert that follows (`stripe.controller.ts:86`), `SaveOrganizationAccount` the
upsert (`stripe.service.ts:189`), which keeps an existing row's status and
changes its id. `StripeSays` is what Stripe once sent of an account; since it
promises no order and no single delivery, the handlers
(`OrganizationAccountUpdated`, `UserAccountUpdated`) take any element of `said`
at any time. The first finds the row by the organization, the second by the
account. `AskToAccept` reads membership and bank status, `AcceptCollaboration`
is the update that follows. `CreateOrganization` is two writes: the
organization, and the connection of *some* organization of its founder
(`createdOrganization[0]`).

### Favourites

`Look`, `Query`, `Fill` and `Answer` are the awaits of `findAllByUserId`,
`Insert` and `Invalidate` those of `create`; `remove` has one. `Expire` is Redis
dropping a list, because of its time to live or an eviction. `was` and `added`
are history variables: the lists a user has had, and the favourites whose create
has been answered.

### Submissions

A request holds the files still to upload and the URLs so far. `Ask*` are the
handlers up to their first upload (for `AskToUpdate` this includes the deletion
of images the client no longer lists), `Upload` and `UploadFails` are
`StorageService.uploadFile`, and `CreateCampaign`, `UpdateCampaign`,
`SignFundraiser`, `SubmitIdentity`, `CreateReport`, `CreatePost`,
`UpdatePicture` write the row. A path is a folder, an owner where the folder has
one, and a name: uploads with one path replace each other. What an object
contains is not modelled. `Verdict` is the part of `adminUpdateCampaign` that
judges the identity of a campaign's owner.

### Notices

`AdminUpdateCampaign` sets the status and starts `createCampaignStatusChanged-
Notification` (`FindOwner`, `TellOwner`, `FindInterested`, `TellInterested`); its
errors are swallowed by `catch (e) {}`, which `failed` remembers. `interested` is
who prefers the campaigns' category, which `updateProfile` changes at any time
(`ChangePreference`). `CheckAlert`, `FindGifts`
and `Alert` are `createScamNotification`. `CallHook`, `FindReceivers`,
`TellReceiver`, `TellReceiverFails` and `FinishLoop` are the controller's hook for a
new campaign update, which Supabase calls once or never. Notifications are a bag
since their ids do not matter and duplicates do.

### CampaignPages

The page (`findOne`) reads the top donations, then the recent ones, then the
campaign with all its donations, then the challenge to show, then writes the
page to the cache, which no request reads: the lookup is commented out
(`campaigns.controller.ts:168-174`). The lists (`findAll`,
`findUserInterestedCampaigns`, `findCloseToTargetCampaigns`) read campaigns in
one query and then go through them. `LookUp`, `Find` and `Keep` are the awaits
of `_findFirstMatchedCommunityChallenge`: the cache entry of a *category*, the
query, the fill, which happens only when there is a challenge. `Expire` drops any
entry at any time. `before` and `offered` are history: the donations stored, and
the challenges open to the campaign's, when a page was asked for. `createdAt` is
a moment that several donations may share; which of them a list takes is left
open (`FirstsBy`).

### Users

`CreateUser`, `ReadUser` and `SaveToken` are the awaits of sign-up, sign-in and
refresh, `LookForCustomer`, `MakeCustomer`, `KeepCustomer` and `CreateIntent`
those of a payment. A token is whom it was signed for and by which request, a
customer whom Stripe made it for and by which request. `held` and `paid` are
history: the refresh tokens (or null) a user was answered, and who was answered
a payment. The guards of `AskRefresh` and `AskPay` are the code's
`RefreshTokenGuard` and `AccessTokenGuard`: a token that was signed for the user.

### TaxReceipts

`LookForReceipt`, `ReadDonations`, `UploadReceipt` and `CreateReceipt` are the
four awaits of `findUserDonationReceipt`. A user's donations are the sequence of
their years; `Latest` is the query's `take: 3`. The year of a request is optional
(`None`): then any receipt of the user will do.

## 3. Runs

One run per component, one for the composition, and one for each place where the
code contradicts its own comments. Questions that share an instance share a run,
so that they are also asked of each other's interleavings.

| Run | Question | Bounds and why they are enough |
|---|---|---|
| `PaymentsSafety` | retries, repeats and failures of the webhook; cards bought, redeemed twice or named by a payment; splits; refinement of `DonationLedger` | scene "cards": 2 intents, 1 transfer, 2 cards, 3 donations, 4 deliveries, 1 fault, 1 repeat: a failing and a repeated delivery of one payment while another is handled, and every pair of uses of one card, among them ids that no card has. Scene "split": one payment, 2 deliveries of it, and a collaboration launched, changed and cancelled around the awaits, with both transfers of a split, and an owner who changes and may open an account late. Payments are of 10.50, so that ringgit are cut off, and rewards of 7/20, which leaves half a sen, 1/2 and 3/2. 1.2 million states |
| `PaymentsReward` | finding, see section 6 | one payment |
| `RewardSafety` | who is mailed; is completed the same as rewarded; do late runs mail again; refinement of `RewardBook`, which is the order of reading, mail, mark and notification | scene "terms": 2 jobs of one donor in 2 overlapping runs; two donations at any time, or one bigger one before the first of 2 moments ends: the admin changes one into the other under a run, and donations come after the expiry. Scene "faults": one job that fails, crashes and stalls at any await, its second run, and terms that lack an amount or a number. 0.5 million states |
| `DonationRewarded` | are rewards backed by payments; is every payment recorded that can be, and everyone rewarded who completes a challenge by paying | scene "repeat": two payments, or one delivered twice, and a challenge of two donations. Scene "fail": one payment, a failure or crash at any await of webhook and worker, a stall, 3 runs (first, after a stall, and one to spare), and donor and admin who go on. Scene "split": a payment that is split, of a campaign whose owner changes and may have no account. Scene "card": a payment with a card bought before, or with an id no card has, both up to the third delivery and Stripe's giving up. Payments are of 1.50. No symmetry, as liveness needs; 82 thousand states |
| `AccountsSafety` | do rows name their owners and show reported statuses, are links for stored accounts, whom do collaborations go to | 2 users, 1 organization, 2 accounts, 2 requests: a second account of one owner, an event that overtakes the request that made the account, a founder who joins an organization while another uses it |
| `AccountsAccepted` | finding, see section 6 | 2 members, 2 accounts |
| `FavouritesCache` | whose lists are cached, what can hide a new favourite, do lists become right | 2 users, 1 campaign, 3 requests: an old find, a create and a later find; no symmetry, as liveness needs |
| `SubmissionsFiles` | campaigns, identities, reports, posts and pictures under failing uploads and verdicts | 1 user, 1 campaign, 2 image rows, 2 requests of any two forms, names that collide |
| `NoticesTold` | are verdicts told while owners change, donors alerted, and told of updates once | 2 users whose preferences change, 2 gifts, of one user or of both, 1 campaign update, 2 requests, 2 verdicts or alerts. 3 million states |
| `ReceiptsYear` | what a receipt lists when it is asked for twice at once, with or without a year, while donations come in; when does it settle | 5 donations in 2 years (more than the 3 that are read), 2 rows, 2 requests |
| `PagesShown` | do the queries of a page agree; is an open challenge missed | scene "donations": 1 request of any kind and 3 donations of 2 amounts at 2 moments, so that two are of one moment, with lists of 2, so that a donation is pushed out of them between the reads. Scene "challenges": 2 requests and a challenge for all, for another category or of photos that is changed and over, and failures; requests meet in the caches. Cache entries expire in both |
| `UsersSessions` | does a session last, do customers stop being made | 2 users, 4 requests: a sign-up, two that overlap, and one that comes after |

A **scene** is a small instance with a constraint of its own on the states; the MC
module chooses one in the initial state and keeps it, so that one run covers
cases that would be out of reach together.

In `Payments`, `ChallengeRewards`, `CampaignPages` and `Users` ids (rows,
deliveries, runs, requests) are used once, so the sets of ids bound the
behaviours; `MaxFaults`, `MaxDuplicates`, `MaxStalls` and `MaxTime` bound the
rest, `MaxTries` bounds Stripe's patience (it exceeds what faults and repeats can
use up, which is assumed, so that only what fails each time is given up), and
`OneFault` allows a behaviour of `DonationRewarded` one failing step. In the other
modules rows and requests come from finite sets (`HasRoom`), and `MaxAsked`,
`MaxImages`, `LastYear` and `MaxDonations` bound what is counted. `CHECK_DEADLOCK
FALSE` is set because a system that has used up its ids, with every request
answered, has nothing left to do. Symmetry (of users) is used in the `Accounts`
runs, in `UsersSessions` and in `NoticesTold` only: no user is named by the model,
so permuting them maps behaviours to behaviours. A member who changes between
*two* organizations is beyond the instance of `AccountsSafety`; the theorems
`OwnersNamed` and `AcceptedAble` cover it.

**Fairness.** `DonationToReward!Fairness`: Stripe delivers an event that is due
(it retries for days), Node continues a handler or run whose await settled, Bull
starts a waiting job and its stalled check finds a job nobody works on. A slow
run's job *may* stall but need not. Nothing is assumed of donors, admins,
failures, refused transfers or crashes. `Favourites!Fairness`: Node continues
requests, and Redis expires keys (every `cacheService.set` of a list has a time
to live). Nobody has to ask for anything, and `CacheCatchesUp` is about users who
have stopped changing their favourites.

`PaymentIsRecorded` and `PaidIsRewarded` rest on ids that never run out within
the bounds: the deliveries are as many as the fault or the repeat can use up,
plus one. `PaymentIsRecorded` is about payments that Stripe starts to report while
the card they name exists, if any, and whose campaign's owner has a bank account
from then on: without, the handler throws each time. `PaidIsRewarded` grants that
a failed job (it has one attempt), and a payment that Stripe gave up, end in no
reward.

## 4. Proofs

See the module headers for the arguments; in short:

* `PaymentsProofs`. The inductive invariant `IInv` adds to the types that every
  delivery is of an event Stripe reported, that a delivery's donation belongs to
  its object, and `DoneSoFar`: what a delivery at each `pc` has already done.
  Without the last, nothing says at `Answer` that the donation and its job
  exist, so `AcknowledgedIsRecorded` is not inductive on its own. `Grows` (rows
  are never removed and never change the fields that matter) carries the facts
  about other deliveries over a step. `DuplicatesNeedDeliveries` rests on an
  injection from donations to the deliveries that stored them, and on
  `DeliveriesAreFinite`, itself an invariant.
* `CardsShowTheirUse` and `SplitsConserve`, in the same module, need more.
  `CardInv` adds that payments name cards that exist or that never will; storing a
  donation moves the card it names, which another payment may have used, to it.
  `SplitInv` adds that no two deliveries stored one donation, that nothing was
  asked for a donation whose delivery still is at `split`, that each part is on
  its way or made but not both, and `CutOnce`: both parts of a donation were cut
  with one reward, whatever becomes of the collaboration between. So the shares
  add up to `Whole` times the payment, and two shares that could be made, being
  whole sen, to the payment.
* `Refinement` maps each action to a step of the ledger or a stutter.
* `ChallengeRewardsProofs`. `IInv` says which facts hold at each `pc` of a run
  (mailed before `update`, marked before `notify`), that runs and jobs have
  donations, and that marks are never taken back, which the order properties
  rest on. `RewardsAreEarned` is proved from `EarnedSoFar`: who is about to be
  mailed has fulfilled the terms the run has read, and what was fulfilled once
  stays so, because donations only come in (`FulfilledGrows`, which counts).
  `BookRefinement` maps each action to a step of `RewardBook` or a stutter. It
  rests on both invariants and on `UnreadKnowsNothing`: a run that has not read
  yet has no participants, so that reading is the one step that takes them up.
  `CountDonations` is a stutter: what a run took up is what it read, not what it
  decides to mail.
* `ConnectAccountsProofs`. `RowsNameTheirOwners` is not inductive: the row that
  `SaveBankAccount` writes is right only because the request still holds the
  account it made, for the user it made it for. `IInv` adds `RequestsKnow`, what a
  request at each `pc` has found out, and `AbleRowsWereAble`: a row that shows
  `able` does so for *some* account of its organization. The stronger claim, for
  the account it names, is false (run `AccountsAccepted`), and `AcceptedWasAble`
  is what remains true of an acceptance. `Grows` (accounts are never changed,
  words never taken back) carries all of it over the steps of others.
  `LinksAreStored` looks at two states: who has a link got it in a step that
  stored the account or found it stored, and rows stay.
* `DonationToRewardProofs`. Every step of the composition is a step of `Payments`
  or leaves its variables alone (`StepOfPayments`: the worker never adds or takes
  away a job), and the same of `ChallengeRewards` (`StepOfRewards`). The second
  needs an invariant: what the webhook stores is a donation of a user, an amount
  and a campaign only because the objects of payments and gift cards say so
  (`Payable`), which rests on the invariant of `Payments`; the amounts of
  `ChallengeRewards` are the ringgit that are left of those of `Payments`. So the
  theorems of both components hold of the composition; `PaymentsAndRewardsHold`
  draws every safety property of both, and `LedgerAndBookAreKept` both
  refinements: the one process keeps `DonationLedger` and `RewardBook` at once.
  `RewardsHavePayments` adds what neither component can say: from a mailed reward
  to the donations that were counted for it, and by an injection from those to the
  deliveries that stored them.
* `UsersProofs`. `SessionsLast` and `NewCustomersStop` speak
  of requests. They follow from what the rows hold: a token since the first
  session was answered (`SessionsAreStored`), a customer, and one's own, since the
  first payment was about to be (`CustomersAreStored`). `FirstPaymentsMake` says
  that customers are made by requests that were first payments when they were
  asked for, and `UserKnows` what a request at each `pc` has found out.
* `TaxReceipts`, in `UsersProofs`. `ReceiptsAreOfTheYear` follows from
  `FilesListTheYear` (a stored document lists what one query gave of its year),
  `RowsHaveFiles` (a row is written after its document) and `Found`, what a request
  read: since donations keep their places in the sequence, what a query once gave
  stays what it once gave. `ReceiptsDoSettle` looks at one step: only a request
  that is past its first query writes (`SettledStays`).
* `SubmissionsProofs`. That rows name stored files rests on `RequestsFit`: the
  files a request is done with are in storage, whatever other requests upload, and
  storage only grows. `VerdictsStand` is inductive as it is: the write that names
  new evidence is the one that puts the user under review.
* `NoticesProofs`. Each property relates tables to what some request has read
  before others changed them. `VerdictRight`, `AlertRight` and `HookRight` say what
  of it still holds at each `pc`: an owner was told before the interested are; who
  was a donor when an alert was asked for is among the gifts that were read;
  nobody still left in the loop of a hook has been told. They survive the
  steps of others because nothing relevant is taken back (`Further`) and no two
  requests handle hooks of one update (`OneHook`, with `NewsByHook`: nobody is
  told before the hook was called). `MoveRight` puts this together once, so that
  each action is proved for its own request only.
* `CampaignPagesProofs`. What an answered page shows was read at three moments.
  `HasTop`, `HasRecent`, `HasAll` and `HasChallenge` say what of it stays true:
  donations only come in and keep their amounts and moments, and of the challenges
  offered when the page was asked for only those that still are count. What a
  list of `Take` rows leaves out of a finite set is no bigger, or no newer, than
  what it holds (`FirstsMissLater`), whichever of the equal ones it took.
* `Favourites`, in `CampaignPagesProofs`. The invariant is `TypeOK`,
  `ListsAreTheUsers` and `PresentIsPast` (the list a user has now is one the user
  has had), without which a query could put any list into the cache.
  `OnlyAnOldReadHidesAFavourite` is proved of every step from `TypeOK` alone.

The inductive invariants were checked by TLC on the instances of the runs before
they were proved. Each file of proofs `EXTENDS` one model; a second model in it is
an instance whose operators carry the prefix given above, and its theorems state,
for example, `F!Spec => []F!ListsAreTheUsers`.

Assumptions used: the named `ASSUME`s of the modules (null is no row, no number,
no year and no status, an id that was made up is of no row, ids of intents and
transfers differ, amounts are naturals, rewards are integers over a positive
`Whole`, Stripe tries more often than faults and repeats can make it, the terms
of a challenge are a row and null is none, lists take at least one, bounds are
naturals). TLC evaluates each of them. The theorems about instances name theirs
as hypotheses (`R!BoundsAssumption`). No set of
ids is assumed to be finite: where something is counted, that the table is
finite is part of the invariant.

## 5. Only model-checked, and not modelled

Every invariant and every action property of the passing runs is proved, for
any values of the constants that satisfy the assumptions, and so are the
refinements of `DonationLedger` and `RewardBook`, which hold of the components
and of their composition. `RewardsInOrder` is proved without a run of its own:
the refinement that `RewardSafety` checks says more. Only model-checked: liveness
(`PaymentIsRecorded`, `PaidIsRewarded`, `CacheCatchesUp`), which is out of TLAPS's
reach, and the two violations of section 6, which are counterexamples and need
no proof.

Not modelled: the caches of profiles and user lists, onboarding and profiles but
for the preferences (single updates of a row), the read flag of notifications,
the notice of a donation (no job for it is ever produced), the resolution of a
report, the draw of an invitation code (the table's unique index decides), the
expiry of tokens, and the list of successful campaigns (one query).
`AuthService.deleteAll` has no effect: the preference row that every sign-up
stores refuses it. Reference data, comments and OpenAI have no state worth
relating; guards, pipes, filters and modules are wiring. The two unregistered
webhook controllers never run. Contents of files, texts of notices and the
layout of the PDF are abstracted.

## 6. Findings

Two runs state what a comment of the code says and find it violated;
`PROJECT.json` quotes the lines.

| Run | Violated | What the code does |
|---|---|---|
| `PaymentsReward` | `RewardGoesToOrganization` | the transfer commented "To organization" goes to the fundraiser's account |
| `AccountsAccepted` | `AcceptedAccountWasAble` | two accounts of one organization: the row holds the id of one and the status of the other |

Other outcomes that a reader of the code may not expect, and that the checked
properties are stated so as to allow:

* The intent and the webhook look for a collaboration at different times
  (`stripe.controller.ts:345` and `:170`), so a payment that went to the
  fundraiser in full is split again by a collaboration that came in between.
* A donor's progress counts donations since they joined, not since the challenge
  started (`community_challenges.service.ts:443-447`), and of any category; the
  worker, which is what `ChallengeRewards` models, counts neither way.
* A find that read before an insert fills the cache after its invalidation
  (`user-favourite-campaigns.service.ts:47`, `:90`).
  `OnlyAnOldReadHidesAFavourite` says that nothing else can hide a favourite,
  and `CacheCatchesUp` that it does not stay hidden.
* An update of a campaign deletes images before it uploads the new ones
  (`campaigns.controller.ts:237-271`), so a failing upload can leave it without any.
* Two scam alerts of one campaign can both find none before them
  (`notifications.service.ts:210-238`), and donors are alerted twice.
* Donors who give between the query and the insert of an alert get none
  (`notifications.service.ts:225-238`), and a later alert of the campaign is not
  made.
* The check whether a user donated in a year reads the latest three donations of
  all years (`users.service.ts:155`, `:217-227`), so a fourth donation hides the
  first, and a receipt can list fewer than the year has or be refused. Of two
  requests at once the later upload wins, also if it read earlier and lists
  fewer, and a receipt made during the year is never made again.
  `ReceiptsListTheYear` says that a receipt lists what there was at *one* moment.
* Asked without a year, a user gets any receipt there is
  (`users.service.ts:195-199`: an undefined year is no condition).
* A payment whose gift card id is of no row (`stripe.controller.ts:339` takes it
  from the client), or a gift card for a receiver that does not exist, fails with
  every delivery: the money has moved and no row is ever written.
* A split for a campaign whose owner has no bank account (`stripe.service.ts:295`;
  `campaigns.controller.ts:334` makes whoever updates a campaign its owner) fails
  with every delivery, too, and each delivery stores another donation first, without
  a reward job.
* A payment that is delivered again is not only stored but also split again
  (`stripe.controller.ts:174`): `SplitConservesDonation` counts per donation, so a
  payment of two donations may be transferred twice.
* `parseInt` drops the sen of a payment (`stripe.controller.ts:130`, `:149`): a
  donor who pays 10.50 has a donation of 10, and a gift card bought for 10.50
  moves 10 when it is redeemed. `EveryDonationIsPaidFor` allows less than one
  ringgit.
* A reward that leaves a fraction of a sen, or lies outside 0..1, makes Stripe
  refuse one or both transfers (`stripe.service.ts:293`, `:305`), and nobody
  learns of it; with a reward above one the only transfer that is made exceeds the
  payment.
* A challenge of donations without an amount makes every job of its participants
  fail, with the participations that come after
  (`donation-webhook.processor.ts:71-88`); one without a number rewards at the
  first job of any donor who takes part.
* The worker rewards by the terms it read at its start, which the admin may have
  changed since. An admin who sends an empty reward id closes a participation to the
  worker without completing it, and one whose notification fails is told that the
  update did.
* A payment that is delivered twice is stored twice, and both donations count for
  a challenge. `RewardsAreBacked` says how far that goes: a reward has as many
  deliveries behind it as it asks for donations.
* Sign-in answers the refresh token that was stored before, not the one it has
  just signed and stored, and null after a sign-up that failed half way
  (`auth.service.ts:58`: the row is spread over the tokens). Refresh never compares
  the token shown with the stored one (`:87`), so both of them work.
* Two first payments of a user at once make two customers; the later update stays
  (`stripe.service.ts:374`, `:387`).
* A challenge without target categories is shown with every campaign
  (`campaigns.service.ts:619`), but no donation ever counts for it: the worker asks
  for a category in the empty list.
* A page is written to the cache for half an hour and never read from it
  (`campaigns.controller.ts:168-178`: the lookup is commented out).
* The list of users is cached without a time to live of its own, under a key that
  leaves out the email asked for (`users.service.ts:313-341`).

## 7. Plan

Next, in this order:

1. `CollaborationLife`: `Payments` and `ConnectAccounts` share `collaboration`:
   a split only for an organization that could be paid. Both are proved, so what
   is needed is a step of each in terms of the other, as in `DonationToReward`.
2. An abstract specification of a cache, of which `Favourites` and the entries of
   `CampaignPages` are implementations: an answer is what the table held at some
   moment of the request, or what the cache held.
3. The cache of profiles with `Users`.
