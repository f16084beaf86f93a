--------------------------- MODULE DonationToReward ---------------------------
(***************************************************************************)
(* From the payment to the reward: Payments and ChallengeRewards composed. *)
(* They share the table campaign_donations, which the webhook fills and    *)
(* the worker counts, the queue donation-challenge-reward, which the       *)
(* webhook fills and Bull empties, and the Node process: a crash ends      *)
(* webhook deliveries and worker runs alike.                               *)
(*                                                                         *)
(* Storing a donation and adding its job are steps of both components;     *)
(* every other step is a step of one and leaves the other alone.           *)
(***************************************************************************)
EXTENDS Integers, FiniteSets, Tables

CONSTANTS
    User, Campaign, Fundraiser, Intent, Transfer, Donation, GiftCard, Delivery,
    Amount, Whole, Reward, None, Unknown, MaxFaults, MaxDuplicates, MaxTries,
    Challenge, Category, Run, Terms, MaxTime, MaxStalls,
    CategoryOf      \* the category of each campaign

ASSUME CategoryAssumption == CategoryOf \in [Campaign -> Category]

VARIABLES
    object, event, delivery, outbox, donation, giftCard, collaboration,
    owner, account,
    now, challenge, participant, job, run, mail, notified, granting,
    createdAt,      \* when each donation was stored
    handlerFaults, runFaults, duplicates

rewardVars == <<now, challenge, participant, job, run, mail, notified, granting,
                runFaults>>
paymentVars == <<object, event, delivery, outbox, donation, giftCard,
                 collaboration, owner, account, handlerFaults, duplicates>>
vars == <<paymentVars, rewardVars, createdAt>>

\* What the worker's queries see of the donations that the webhook stored.
CountedDonations ==
    [d \in DOMAIN donation |->
        [userId |-> donation[d].userId, amount |-> donation[d].amount,
         category |-> CategoryOf[donation[d].campaignId],
         createdAt |-> createdAt[d]]]

P == INSTANCE Payments WITH jobs <- DOMAIN job, faults <- handlerFaults
R == INSTANCE ChallengeRewards WITH
    Amount <- {P!WholeRinggit(v) : v \in Amount},
    donation <- CountedDonations, faults <- runFaults

\* What the components assume of their constants.
ASSUME PaymentsAssumption ==
    P!NoneAssumption /\ P!IdAssumption /\ P!AmountAssumption /\ P!BoundAssumption
ASSUME RewardsAssumption ==
    R!NoneIsNoRow /\ R!NoneIsNoNumber /\ R!TermsAssumption /\ R!BoundAssumption

Init ==
    /\ job = EmptyTable
    /\ donation = EmptyTable
    /\ createdAt = EmptyTable
    /\ P!Init
    /\ R!Init

-----------------------------------------------------------------------------
\* A step of the payments that the worker has no part in, and the reverse.
OfPayments(step) == UNCHANGED <<rewardVars, createdAt>> /\ step
OfRewards(step) == UNCHANGED <<paymentVars, createdAt>> /\ step

\* createDonation: the row is there for the worker's next query.
StoreDonation(a) ==
    LET m == P!ObjectOf(a) IN
    /\ P!At(a, "received") /\ HasRoom(Donation, donation)
    /\ UNCHANGED rewardVars
    /\ createdAt' = Put(createdAt, NewKey(Donation, donation), now)
    /\ P!StoreDonation(a)
    /\ R!StoreDonation(m.userId, P!WholeRinggit(m.value), CategoryOf[m.campaignId])

\* donationChallengeRewardQueue.add
EnqueueReward(a) ==
    /\ UNCHANGED <<donation, createdAt>>
    /\ a \in DOMAIN delivery
    /\ R!EnqueueReward(delivery[a].donationId)
    /\ P!EnqueueReward(a)

\* One process runs the webhook, the worker and the admin's requests.
Crash ==
    /\ UNCHANGED <<donation, createdAt, job>>
    /\ \/ R!Crash
       \/ /\ granting = {}
          /\ \A r \in DOMAIN run : run[r].pc \notin R!Live
          /\ UNCHANGED rewardVars
    /\ P!Crash

-----------------------------------------------------------------------------
Deliver(o) == OfPayments(P!Deliver(o))

Handle(a) ==
    \/ StoreDonation(a)
    \/ EnqueueReward(a)
    \/ OfPayments(P!IgnoreObject(a) \/ P!StoreGiftCard(a) \/ P!SplitDonation(a)
                    \/ P!Answer(a) \/ P!HandlerThrows(a))

StartRun(d) == OfRewards(R!StartRun(d))
Stall(d) == OfRewards(R!Stall(d))
Work(r) == OfRewards(R!Work(r))

\* Donors, participants and admins.
People ==
    \/ OfPayments(P!Pay \/ P!Collaborate \/ P!Own)
    \/ \E c \in Challenge :
          \/ \E t \in Terms :
                OfRewards(R!CreateChallenge(c, t) \/ R!UpdateChallenge(c, t))
          \/ \E u \in User :
                OfRewards(\/ R!CreateParticipant(u, c)
                          \/ \E image \in BOOLEAN : R!UpdateParticipant(u, c, image)
                          \/ R!AdminRewards(u, c)
                          \/ R!AdminNotifies(u, c)
                          \/ R!AdminNotificationFails(u, c)
                          \/ \E emptyId, reason \in BOOLEAN :
                                R!AdminRejects(u, c, emptyId, reason))
    \/ OfRewards(R!Tick)

Failures ==
    \/ \E o \in P!Object : OfPayments(P!Redeliver(o))
    \/ \E a \in Delivery : OfPayments(P!HandlerFails(a))
    \/ \E q \in outbox : OfPayments(P!TransferMade(q) \/ P!TransferRefused(q))
    \/ \E r \in Run : OfRewards(R!RunFails(r))
    \/ Crash

Next ==
    \/ People
    \/ \E o \in P!Object : Deliver(o)
    \/ \E a \in Delivery : Handle(a)
    \/ \E d \in Donation : StartRun(d) \/ Stall(d)
    \/ \E r \in Run : Work(r)
    \/ Failures

Spec == Init /\ [][Next]_vars

\* Stripe keeps retrying, Node runs every handler and run it has started, Bull
\* starts waiting jobs and finds the stalled ones.  A run that is over (dead) is
\* what makes its active job stall for certain; other stalls only may happen.
Fairness ==
    /\ \A o \in P!Object : WF_vars(Deliver(o))
    /\ \A a \in Delivery : WF_vars(Handle(a))
    /\ \A d \in Donation : WF_vars(StartRun(d)) /\ WF_vars(R!Abandoned(d) /\ Stall(d))
    /\ \A r \in Run : WF_vars(Work(r))

FairSpec == Spec /\ Fairness

-----------------------------------------------------------------------------
(* Properties                                                              *)

\* The payments of u that count for terms t.
Fulfilling(u, t) ==
    {o \in DOMAIN event :
        /\ t.requiredDonationAmount # None
        /\ object[o].paymentEntity = "campaign_donation"
        /\ object[o].userId = u
        /\ P!WholeRinggit(object[o].value) >= t.requiredDonationAmount
        /\ CategoryOf[object[o].campaignId] \in t.targetCampaignCategories}

\* No reward without payments.  A payment can be stored twice and then counts
\* twice, so a challenge of two donations may be completed by one payment; but
\* a reward mailed always has as many deliveries of payments that Stripe
\* reported behind it as the terms asked for donations.
RewardsAreBacked ==
    \A r \in DOMAIN run, u \in User, c \in Challenge :
        <<r, <<u, c>>>> \in mail =>
            LET t == run[r].terms[c] IN
            R!IsEnough(Cardinality({a \in DOMAIN delivery :
                                       delivery[a].object \in Fulfilling(u, t)}),
                       t)

\* Payment o, which no job stands for yet, makes or leaves challenge c
\* complete for a donor who takes part.
Owed(o, c) ==
    /\ o \in DOMAIN event
    /\ P!DonationsOf(o) \cap DOMAIN job = {}
    /\ c \in R!Unrewarded(object[o].userId)
    /\ LET t == challenge[c].terms
           paid == Fulfilling(object[o].userId, t)
       IN  o \in paid /\ R!IsEnough(Cardinality(paid), t)

\* From the payment to the reward: who completes a challenge by paying is
\* rewarded, through retries of the webhook, crashes of the process and stalls
\* of the queue, unless a job of theirs fails (it has one attempt) or Stripe
\* gave up a payment of theirs (the webhook threw each time).  For terms that
\* stay and challenges that are not over.
PaidIsRewarded ==
    \A o \in P!Object, c \in Challenge :
        Owed(o, c) ~>
            /\ o \in DOMAIN object
            /\ \/ R!Rewarded(<<object[o].userId, c>>)
               \/ \E d \in DOMAIN job :
                     /\ job[d].state = "failed"
                     /\ donation[d].userId = object[o].userId
               \/ \E p \in DOMAIN object :
                     P!GaveUp(p) /\ object[p].userId = object[o].userId

\* Payments!PaymentIsRecorded of the composition: a payment whose gift card
\* exists and whose campaign's owner keeps a bank account is recorded in the end
\* and has its challenge-reward job, through failures and crashes between two
\* awaits of the webhook.
PaymentIsRecorded == P!PaymentIsRecorded
=============================================================================
