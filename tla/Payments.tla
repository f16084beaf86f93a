------------------------------ MODULE Payments ------------------------------
(***************************************************************************)
(* How money becomes donations: payment intents, the Stripe webhook, gift  *)
(* cards and the split of a donation between fundraiser and organization   *)
(* (src/stripe, src/donations, src/gift-cards, src/collaborations).        *)
(*                                                                         *)
(* A delivery is one POST /payment/stripe-webhook.  The handler awaits the *)
(* database, Stripe and Redis; every await lets other requests run, so a   *)
(* delivery is a process whose pc says which await comes next:             *)
(*                                                                         *)
(*   received -> split -> enqueue -> answer -> answered   (200)            *)
(*                                          \-> failed    (500)            *)
(*                                          \-> dead      (process died)   *)
(*                                                                         *)
(* Stripe is external: it sends an event again until a delivery of it is   *)
(* answered with 200, may send one it need not, and may refuse a transfer. *)
(***************************************************************************)
EXTENDS Integers, FiniteSets, Tables

CONSTANTS
    User,           \* donors and gift card receivers
    Campaign,
    Fundraiser,     \* owners of campaigns
    Intent,         \* ids of payment intents
    Transfer,       \* ids of transfers
    Donation,       \* ids of campaign_donations rows
    GiftCard,       \* ids of gift_cards rows
    Delivery,       \* webhook requests, each used once
    Amount,         \* what a donor may pay, in sen
    Whole, Reward,  \* a collaboration's reward r is the fraction r / Whole
    None,           \* null
    Unknown,        \* an id a client made up: no row has it
    MaxFaults,      \* bound on failed handlers and crashes
    MaxDuplicates,  \* bound on deliveries Stripe did not need to make
    MaxTries        \* deliveries of an event after which Stripe gives up

Object == Intent \cup Transfer
Optional(S) == S \cup {None}

ASSUME NoneAssumption ==
    {None, Unknown} \cap
        (User \cup Campaign \cup Object \cup Donation \cup GiftCard) = {}
ASSUME IdAssumption == Intent \cap Transfer = {} /\ Unknown # None
\* Nobody checks a reward: it may be negative or above one.
ASSUME AmountAssumption ==
    Amount \subseteq Nat /\ Whole \in Nat \ {0} /\ Reward \subseteq Int
ASSUME BoundAssumption ==
    /\ {MaxFaults, MaxDuplicates, MaxTries} \subseteq Nat
    /\ MaxTries > MaxFaults + MaxDuplicates

VARIABLES
    object,         \* Stripe: payment intents and transfers
    event,          \* Stripe: the event of an object, once it has one
    delivery,       \* webhook requests being handled or already over
    outbox,         \* transfers asked for and not awaited by anyone
    donation,       \* table campaign_donations
    giftCard,       \* table gift_cards
    collaboration,  \* table collaborations
    owner,          \* the owner of each campaign
    account,        \* owners with a bank account
    jobs,           \* donations with a challenge-reward job in the queue
    faults, duplicates

stripeVars == <<object, event>>
ownerVars == <<owner, account>>
dbVars == <<donation, giftCard, collaboration, ownerVars>>
bounds == <<faults, duplicates>>
vars == <<object, event, delivery, outbox, donation, giftCard, collaboration,
          ownerVars, jobs, faults, duplicates>>

-----------------------------------------------------------------------------
(* Types                                                                   *)

PaymentEntity == {"campaign_donation", "gift_card", "none"}
Part == {"whole", "rest", "reward"}
Account == {"platform", "fundraiser", "organization"}

\* value is what moves, in sen; the metadata's amount is the same in ringgit.
ObjectRow == [paymentEntity: PaymentEntity, value: Nat,
              userId: Optional(User), receiverId: Optional(User) \cup {Unknown},
              campaignId: Optional(Campaign),
              giftCardId: Optional(GiftCard) \cup {Unknown},
              donationId: Optional(Donation), part: Part, destination: Account]

DonationRow == [paymentIntentId: Object, amount: Nat,
                userId: Optional(User), campaignId: Optional(Campaign)]

GiftCardRow == [stripeTransferGroupId: Object, amount: Nat,
                senderId: Optional(User), receiverId: Optional(User),
                campaignDonationId: Optional(Donation)]

CollaborationRow == [reward: Reward, isCancelled: BOOLEAN]

\* due: Stripe must send it; posted: sent, no answer yet; acked: answered 200.
EventState == {"due", "posted", "acked"}

Live == {"received", "split", "enqueue", "answer"}
DeliveryRow == [pc: Live \cup {"answered", "failed", "dead"},
                object: Object, donationId: Optional(Donation)]

\* share is what transferDonation asks Stripe to move, in 1 / Whole sen.
Request == [donationId: Donation, part: Part, share: Int]

TypeOK ==
    /\ IsTable(object, Object, ObjectRow)
    /\ IsTable(event, Object, EventState)
    /\ IsTable(delivery, Delivery, DeliveryRow)
    /\ outbox \subseteq Request
    /\ IsTable(donation, Donation, DonationRow)
    /\ IsTable(giftCard, GiftCard, GiftCardRow)
    /\ IsTable(collaboration, Campaign, CollaborationRow)
    /\ owner \in [Campaign -> Fundraiser]
    /\ account \subseteq Fundraiser
    /\ jobs \subseteq Donation
    /\ faults \in 0..MaxFaults
    /\ duplicates \in 0..MaxDuplicates

-----------------------------------------------------------------------------
Init ==
    /\ object = EmptyTable
    /\ event = EmptyTable
    /\ delivery = EmptyTable
    /\ outbox = {}
    /\ donation = EmptyTable
    /\ giftCard = EmptyTable
    /\ collaboration = EmptyTable
    /\ owner \in [Campaign -> Fundraiser]
    /\ account \in SUBSET Fundraiser
    /\ jobs = {}
    /\ faults = 0
    /\ duplicates = 0

-----------------------------------------------------------------------------
(* Paying                                                                  *)

ActiveCollaboration(c) ==
    c \in DOMAIN collaboration /\ ~collaboration[c].isCancelled

\* campaign.user.bankAccount is not null: reading its id does not throw.
Banked(c) == owner[c] \in account

\* createCampaignDonationPaymentIntent.  The money goes to the fundraiser's
\* account, or stays with the platform while a collaboration is active.  The
\* gift card is whatever id the client sends.
CreateDonationIntent(u, c, amt, g) ==
    LET o == NewKey(Intent, object) IN
    /\ HasRoom(Intent, object)
    /\ Banked(c)
    /\ object' = Put(object, o,
          [paymentEntity |-> "campaign_donation",
           value |-> amt,
           userId |-> u, receiverId |-> None, campaignId |-> c,
           giftCardId |-> g, donationId |-> None, part |-> "whole",
           destination |-> IF ActiveCollaboration(c) THEN "platform"
                                                      ELSE "fundraiser"])
    /\ UNCHANGED <<event, delivery, outbox, dbVars, jobs, bounds>>

\* createGiftCardPaymentIntent: u buys a card for r, whatever id that is.
CreateGiftCardIntent(u, r, amt) ==
    LET o == NewKey(Intent, object) IN
    /\ HasRoom(Intent, object)
    /\ object' = Put(object, o,
          [paymentEntity |-> "gift_card",
           value |-> amt,
           userId |-> u, receiverId |-> r, campaignId |-> None,
           giftCardId |-> None, donationId |-> None, part |-> "whole",
           destination |-> "platform"])
    /\ UNCHANGED <<event, delivery, outbox, dbVars, jobs, bounds>>

\* The donor's app confirms the intent: payment_intent.succeeded is due.
PaymentSucceeds(o) ==
    /\ o \in (Intent \cap DOMAIN object) \ DOMAIN event
    /\ event' = Put(event, o, "due")
    /\ UNCHANGED <<object, delivery, outbox, dbVars, jobs, bounds>>

\* DonationsController.create: the receiver u gives card g to campaign c.
\* createTransfer moves the money at once; the row is left to the webhook.
\* A refused transfer answers with an error and changes nothing.
RedeemGiftCard(u, g, c) ==
    LET o == NewKey(Transfer, object) IN
    /\ g \in DOMAIN giftCard
    /\ giftCard[g].receiverId = u
    /\ Banked(c)
    /\ HasRoom(Transfer, object)
    /\ object' = Put(object, o,
          [paymentEntity |-> "campaign_donation",
           value |-> giftCard[g].amount * 100,
           userId |-> u, receiverId |-> None, campaignId |-> c,
           giftCardId |-> g, donationId |-> None, part |-> "whole",
           destination |-> "fundraiser"])
    /\ event' = Put(event, o, "due")
    /\ UNCHANGED <<delivery, outbox, dbVars, jobs, bounds>>

-----------------------------------------------------------------------------
(* The webhook handler                                                     *)

DeliveriesOf(o) == {a \in DOMAIN delivery : delivery[a].object = o}

NewDelivery(o) ==
    /\ HasRoom(Delivery, delivery)
    /\ delivery' = Put(delivery, NewKey(Delivery, delivery),
                       [pc |-> "received", object |-> o, donationId |-> None])

\* Stripe posts an event whose last delivery was not answered with 200, until
\* it gives up.
Deliver(o) ==
    /\ o \in DOMAIN event
    /\ event[o] = "due"
    /\ Cardinality(DeliveriesOf(o)) < MaxTries
    /\ NewDelivery(o)
    /\ event' = [event EXCEPT ![o] = "posted"]
    /\ UNCHANGED <<object, outbox, dbVars, jobs, bounds>>

\* Stripe posts an event again although a delivery of it is still being
\* handled (it timed out) or was answered.
Redeliver(o) ==
    /\ o \in DOMAIN event
    /\ event[o] # "due"
    /\ duplicates < MaxDuplicates
    /\ NewDelivery(o)
    /\ duplicates' = duplicates + 1
    /\ UNCHANGED <<stripeVars, outbox, dbVars, jobs, faults>>

At(a, pc) == a \in DOMAIN delivery /\ delivery[a].pc = pc
ObjectOf(a) == object[delivery[a].object]

\* Mutants of EntityOf: the handler does not know 'gift_card'; every transfer
\* is taken for a donation.
EntityOfNoGiftCards(a) ==
    IF ObjectOf(a).paymentEntity = "gift_card" THEN "none"
    ELSE ObjectOf(a).paymentEntity
EntityOfAnyTransfer(a) ==
    IF ObjectOf(a).paymentEntity = "none" THEN "campaign_donation"
    ELSE ObjectOf(a).paymentEntity

EntityOf(a) == ObjectOf(a).paymentEntity

\* handleStripeWebhook, no case matches: a transfer made by transferDonation.
IgnoreObject(a) ==
    /\ At(a, "received")
    /\ EntityOf(a) = "none"
    /\ delivery' = [delivery EXCEPT ![a].pc = "answer"]
    /\ UNCHANGED <<stripeVars, outbox, dbVars, jobs, bounds>>

\* parseInt(metadata.amount): the ringgit of an amount, without its sen.
WholeRinggit(value) == value \div 100

\* handleStripeWebhook, case 'gift_card'.
StoreGiftCard(a) ==
    LET m == ObjectOf(a) IN
    /\ At(a, "received")
    /\ EntityOf(a) = "gift_card"
    /\ m.receiverId # Unknown
    /\ HasRoom(GiftCard, giftCard)
    /\ giftCard' = Put(giftCard, NewKey(GiftCard, giftCard),
          [stripeTransferGroupId |-> delivery[a].object,
           amount |-> WholeRinggit(m.value),
           senderId |-> m.userId, receiverId |-> m.receiverId,
           campaignDonationId |-> None])
    /\ delivery' = [delivery EXCEPT ![a].pc = "answer"]
    /\ UNCHANGED <<stripeVars, outbox, donation, collaboration, ownerVars, jobs,
                   bounds>>

\* Mutant of DonationFor: ids swapped.
DonationForSwapped(a) ==
    LET m == ObjectOf(a) IN
    [paymentIntentId |-> delivery[a].object, amount |-> WholeRinggit(m.value),
     userId |-> m.campaignId, campaignId |-> m.userId]

\* The row createDonation is asked to insert.
DonationFor(a) ==
    LET m == ObjectOf(a) IN
    [paymentIntentId |-> delivery[a].object, amount |-> WholeRinggit(m.value),
     userId |-> m.userId, campaignId |-> m.campaignId]

\* Mutant of GiftCardsAfter: the donation does not take the card.
GiftCardsNotConnected(g, d) == giftCard

\* Connecting a card to donation d moves it from any donation it had.
GiftCardsAfter(g, d) ==
    IF g = None THEN giftCard
    ELSE [giftCard EXCEPT ![g].campaignDonationId = d]

\* Mutant of AfterStore: the insert is tried again within the delivery.
AfterStoreAgain(c) == "received"

\* The collaboration returned with the row decides whether the split is next.
AfterStore(c) == IF ActiveCollaboration(c) THEN "split" ELSE "enqueue"

\* handleStripeWebhook, case 'campaign_donation', up to createDonation: one
\* nested write that inserts the row and points the gift card at it.
StoreDonation(a) ==
    LET m == ObjectOf(a)
        d == NewKey(Donation, donation) IN
    /\ At(a, "received")
    /\ EntityOf(a) = "campaign_donation"
    /\ HasRoom(Donation, donation)
    /\ m.giftCardId \in Optional(DOMAIN giftCard)
    /\ donation' = Put(donation, d, DonationFor(a))
    /\ giftCard' = GiftCardsAfter(m.giftCardId, d)
    /\ delivery' = [delivery EXCEPT ![a] =
          [pc |-> AfterStore(m.campaignId), object |-> @.object,
           donationId |-> d]]
    /\ UNCHANGED <<stripeVars, outbox, collaboration, ownerVars, jobs, bounds>>

\* Mutant of SplitRequests: the fundraiser gets the reward's share too.
SplitRequestsNotReduced(d, v, r) ==
    {[donationId |-> d, part |-> "rest", share |-> v * Whole],
     [donationId |-> d, part |-> "reward", share |-> v * r]}

\* The two transfers of transferDonation for donation d of value v: v times
\* 1 - r / Whole and v times r / Whole.
SplitRequests(d, v, r) ==
    {[donationId |-> d, part |-> "rest", share |-> v * (Whole - r)],
     [donationId |-> d, part |-> "reward", share |-> v * r]}

\* transferDonation: reads the reward again, asks Stripe for two transfers to
\* the owner's account and awaits neither.
SplitDonation(a) ==
    LET m == ObjectOf(a) IN
    /\ At(a, "split")
    /\ Banked(m.campaignId)
    /\ outbox' = outbox \cup
          SplitRequests(delivery[a].donationId, m.value,
                        collaboration[m.campaignId].reward)
    /\ delivery' = [delivery EXCEPT ![a].pc = "enqueue"]
    /\ UNCHANGED <<stripeVars, dbVars, jobs, bounds>>

\* donationChallengeRewardQueue.add
EnqueueReward(a) ==
    /\ At(a, "enqueue")
    /\ jobs' = jobs \cup {delivery[a].donationId}
    /\ delivery' = [delivery EXCEPT ![a].pc = "answer"]
    /\ UNCHANGED <<stripeVars, outbox, dbVars, bounds>>

\* Mutant of Answer: 200 before the work.
AnswerFirst(a) ==
    /\ At(a, "received")
    /\ delivery' = [delivery EXCEPT ![a].pc = "answered"]
    /\ event' = [event EXCEPT ![delivery[a].object] = "acked"]
    /\ UNCHANGED <<object, outbox, dbVars, jobs, bounds>>

\* paymentWebhook returns: 200.
Answer(a) ==
    /\ At(a, "answer")
    /\ delivery' = [delivery EXCEPT ![a].pc = "answered"]
    /\ event' = [event EXCEPT ![delivery[a].object] = "acked"]
    /\ UNCHANGED <<object, outbox, dbVars, jobs, bounds>>

\* Deliveries in A end without a 200: Stripe will send their events again,
\* but for those another delivery had acknowledged.
MustResend(A) ==
    event' = [o \in DOMAIN event |->
                IF event[o] = "posted" /\ \E a \in A : delivery[a].object = o
                THEN "due" ELSE event[o]]

\* Mutant of HandlerFails: the error is caught and the answer is 200.
HandlerFailsQuietly(a) ==
    /\ \E pc \in Live : At(a, pc)
    /\ EntityOf(a) # "none"
    /\ faults < MaxFaults
    /\ faults' = faults + 1
    /\ delivery' = [delivery EXCEPT ![a].pc = "answer"]
    /\ UNCHANGED <<stripeVars, outbox, dbVars, jobs, duplicates>>

\* An await throws (database, Stripe or Redis), before its effect or after
\* it: 500.
HandlerFails(a) ==
    /\ \E pc \in Live : At(a, pc)
    /\ EntityOf(a) # "none"
    /\ faults < MaxFaults
    /\ faults' = faults + 1
    /\ delivery' = [delivery EXCEPT ![a].pc = "failed"]
    /\ MustResend({a})
    /\ UNCHANGED <<object, outbox, dbVars, jobs, duplicates>>

\* What happens with every delivery of the event: the card or the receiver to
\* connect is of no row, or transferDonation reads the id of a bank account
\* that is null, with the donation already stored.
HandlerThrows(a) ==
    LET m == ObjectOf(a) IN
    /\ \/ At(a, "received") /\ EntityOf(a) = "gift_card" /\ m.receiverId = Unknown
       \/ /\ At(a, "received") /\ EntityOf(a) = "campaign_donation"
          /\ m.giftCardId \notin Optional(DOMAIN giftCard)
       \/ At(a, "split") /\ ~Banked(m.campaignId)
    /\ delivery' = [delivery EXCEPT ![a].pc = "failed"]
    /\ MustResend({a})
    /\ UNCHANGED <<object, outbox, dbVars, jobs, bounds>>

-----------------------------------------------------------------------------
(* Transfers nobody awaits, and the process                                *)

\* A share in sen; Stripe moves it only if it is a whole number of them.  The
\* code multiplies decimals as floats: for values below 2^51 / Whole sen a
\* product that is no whole number never becomes one, and one that is may miss
\* it and be refused.
Sen(share) == share \div Whole
CanMove(share) == share > 0 /\ Sen(share) * Whole = share

\* Stripe makes transfer q and owes a transfer.created event for it.
TransferMade(q) ==
    LET o == NewKey(Transfer, object) IN
    /\ q \in outbox
    /\ CanMove(q.share)
    /\ HasRoom(Transfer, object)
    /\ object' = Put(object, o,
          [paymentEntity |-> "none", value |-> Sen(q.share),
           userId |-> None, receiverId |-> None, campaignId |-> None,
           giftCardId |-> None, donationId |-> q.donationId, part |-> q.part,
           destination |-> "fundraiser"])
    /\ event' = Put(event, o, "due")
    /\ outbox' = outbox \ {q}
    /\ UNCHANGED <<delivery, dbVars, jobs, bounds>>

\* Stripe refuses q: no balance, or an amount it cannot move.
\* Nobody awaits the call, so nobody tries again.
TransferRefused(q) ==
    /\ q \in outbox
    /\ outbox' = outbox \ {q}
    /\ UNCHANGED <<stripeVars, delivery, dbVars, jobs, bounds>>

\* The process dies (a rejected transfer nobody awaits is enough) and is
\* started again: requests in flight to Stripe may or may not have got there.
Crash ==
    LET running == {a \in DOMAIN delivery : delivery[a].pc \in Live} IN
    /\ faults < MaxFaults
    /\ faults' = faults + 1
    /\ delivery' = [a \in DOMAIN delivery |->
                      IF a \in running THEN [delivery[a] EXCEPT !.pc = "dead"]
                                       ELSE delivery[a]]
    /\ MustResend(running)
    /\ \E lost \in SUBSET outbox : outbox' = outbox \ lost
    /\ UNCHANGED <<object, dbVars, jobs, duplicates>>

-----------------------------------------------------------------------------
(* Collaborations and owners, as far as payments read them                 *)

\* CollaborationsService.create; campaignId is unique.
LaunchCollaboration(c, r) ==
    /\ c \notin DOMAIN collaboration
    /\ collaboration' = Put(collaboration, c, [reward |-> r, isCancelled |-> FALSE])
    /\ UNCHANGED <<stripeVars, delivery, outbox, donation, giftCard, ownerVars,
                   jobs, bounds>>

\* CollaborationsService.update: a reward of 0 is falsy and changes nothing.
UpdateReward(c, r) ==
    /\ c \in DOMAIN collaboration
    /\ r # 0
    /\ collaboration' = [collaboration EXCEPT ![c].reward = r]
    /\ UNCHANGED <<stripeVars, delivery, outbox, donation, giftCard, ownerVars,
                   jobs, bounds>>

\* External: the payment code reads isCancelled, nothing under src/ sets it.
CancelCollaboration(c) ==
    /\ ActiveCollaboration(c)
    /\ collaboration' = [collaboration EXCEPT ![c].isCancelled = TRUE]
    /\ UNCHANGED <<stripeVars, delivery, outbox, donation, giftCard, ownerVars,
                   jobs, bounds>>

\* createConnectAccount: f has a bank account from now on.
OpenAccount(f) ==
    /\ account' = account \cup {f}
    /\ UNCHANGED <<stripeVars, delivery, outbox, donation, giftCard,
                   collaboration, owner, jobs, bounds>>

\* update (campaigns): whoever sends it owns the campaign afterwards.
ChangeOwner(c, f) ==
    /\ owner' = [owner EXCEPT ![c] = f]
    /\ UNCHANGED <<stripeVars, delivery, outbox, donation, giftCard,
                   collaboration, account, jobs, bounds>>

-----------------------------------------------------------------------------
Pay ==
    \/ \E u \in User, c \in Campaign, amt \in Amount,
          g \in Optional(DOMAIN giftCard) \cup {Unknown} :
              CreateDonationIntent(u, c, amt, g)
    \/ \E u \in User, r \in User \cup {Unknown}, amt \in Amount :
          CreateGiftCardIntent(u, r, amt)
    \/ \E o \in Intent : PaymentSucceeds(o)
    \/ \E u \in User, g \in GiftCard, c \in Campaign : RedeemGiftCard(u, g, c)

Handle(a) ==
    \/ IgnoreObject(a)
    \/ StoreGiftCard(a)
    \/ StoreDonation(a)
    \/ SplitDonation(a)
    \/ EnqueueReward(a)
    \/ Answer(a)

Collaborate ==
    \E c \in Campaign :
        \/ \E r \in Reward : LaunchCollaboration(c, r) \/ UpdateReward(c, r)
        \/ CancelCollaboration(c)

Own ==
    \E f \in Fundraiser :
        OpenAccount(f) \/ \E c \in Campaign : ChangeOwner(c, f)

Next ==
    \/ Pay
    \/ \E o \in Object : Deliver(o) \/ Redeliver(o)
    \/ \E a \in Delivery : Handle(a) \/ HandlerThrows(a) \/ HandlerFails(a)
    \/ \E q \in outbox : TransferMade(q) \/ TransferRefused(q)
    \/ Crash
    \/ Collaborate
    \/ Own

Spec == Init /\ [][Next]_vars

-----------------------------------------------------------------------------
(* Properties                                                              *)

DonationsOf(o) == {d \in DOMAIN donation : donation[d].paymentIntentId = o}

\* Every donation of the database (createDonation) was paid for by a payment
\* or gift card transfer that Stripe reported, and carries the donor and the
\* campaign of that payment and the whole ringgit of it: what was paid beyond
\* them, less than a ringgit, is in no row.  In particular the transfers that
\* transferDonation makes, which come back through the same webhook, never
\* become donations.
EveryDonationIsPaidFor ==
    \A d \in DOMAIN donation :
        LET o == donation[d].paymentIntentId IN
        /\ o \in DOMAIN event
        /\ object[o].paymentEntity = "campaign_donation"
        /\ 100 * donation[d].amount <= object[o].value
        /\ object[o].value < 100 * donation[d].amount + 100
        /\ donation[d].userId = object[o].userId
        /\ donation[d].campaignId = object[o].campaignId

\* The webhook has no memory of the events it saw, so a payment can become
\* several donations; but never more than Stripe made deliveries of it,
\* whatever fails or crashes between the awaits of handleStripeWebhook.
NoMoreDonationsThanDeliveries ==
    \A o \in Object :
        Cardinality(DonationsOf(o)) <= Cardinality(DeliveriesOf(o))

\* The work the webhook owes for object o is done.
Recorded(o) ==
    /\ object[o].paymentEntity = "campaign_donation" =>
           DonationsOf(o) \cap jobs # {}
    /\ object[o].paymentEntity = "gift_card" =>
           \E g \in DOMAIN giftCard : giftCard[g].stripeTransferGroupId = o

\* A 200 means the work is done: a payment whose event was acknowledged has
\* a donation with its challenge-reward job in the queue, or its gift card.
\* Stripe never sends such an event again, so whatever is missing then
\* stays missing.
AcknowledgedIsRecorded ==
    \A o \in DOMAIN event : event[o] = "acked" => Recorded(o)

\* Donations paid for with card g.
DonationsWith(g) ==
    {d \in DOMAIN donation :
        object[donation[d].paymentIntentId].giftCardId = g}

\* A gift card shows as unused (campaignDonation null) exactly while no
\* donation paid with it is stored, and otherwise names one of those, for
\* repeated events and repeated redemptions alike.
GiftCardShowsItsUse ==
    \A g \in DOMAIN giftCard :
        giftCard[g].campaignDonationId \in
            IF DonationsWith(g) = {} THEN {None} ELSE DonationsWith(g)

\* Transfers of one part of donation d, asked for or made.
Asked(d, part) == {q \in outbox : q.donationId = d /\ q.part = part}
Made(d, part) == {o \in DOMAIN object :
                     object[o].donationId = d /\ object[o].part = part}

\* transferDonation splits a donation once: each part is asked for or made at
\* most once, and when both were made they add up to the payment, although
\* reward may change (update) while the webhook is between its awaits.  That
\* is per donation: a payment delivered twice is stored, and split, twice.  And
\* it is about both: a share that is no whole number of sen is never made, and
\* with a reward above one the only share made is more than was paid.
SplitConservesDonation ==
    \A d \in DOMAIN donation :
        /\ \A part \in {"rest", "reward"} :
               Cardinality(Asked(d, part)) + Cardinality(Made(d, part)) <= 1
        /\ \A o \in Made(d, "rest"), p \in Made(d, "reward") :
               object[o].value + object[p].value
                   = object[donation[d].paymentIntentId].value

\* "To organization" (stripe.service.ts:303): the reward part of a split
\* goes to the organization's account.
RewardGoesToOrganization ==
    \A o \in DOMAIN object :
        object[o].part = "reward" => object[o].destination = "organization"

\* What a payment of a donation needs to be recorded: the gift card it names
\* exists, and the owner of its campaign has a bank account.
CardIsThere(o) == object[o].giftCardId \in Optional(DOMAIN giftCard)
OwnerIsBanked(o) ==
    /\ o \in DOMAIN object
    /\ object[o].campaignId # None
    /\ Banked(object[o].campaignId)

\* A payment that Stripe starts to report is recorded in the end and has its
\* challenge-reward job: failures and crashes between two awaits only cost
\* another delivery.  That is so if its gift card exists and the owner of its
\* campaign has a bank account and keeps it: without, the handler throws each
\* time until Stripe gives up.
PaymentIsRecorded ==
    \A o \in Object :
        []((/\ o \in DOMAIN event /\ object[o].paymentEntity = "campaign_donation"
            /\ DeliveriesOf(o) = {} /\ CardIsThere(o)
            /\ []OwnerIsBanked(o))
           => <>(DonationsOf(o) \cap jobs # {}))

\* Stripe sends the event of o no more: all deliveries of it failed.
GaveUp(o) ==
    /\ o \in DOMAIN event
    /\ event[o] = "due"
    /\ Cardinality(DeliveriesOf(o)) >= MaxTries

\* The webhook implements the ledger.
PaidPayments ==
    {o \in DOMAIN event : object[o].paymentEntity = "campaign_donation"}
LedgerEntry == [d \in DOMAIN donation |-> donation[d].paymentIntentId]
SettledPayments == {o \in PaidPayments : event[o] = "acked"}

Ledger == INSTANCE DonationLedger WITH
    Payment <- Object, Entry <- Donation,
    paid <- PaidPayments, entry <- LedgerEntry, settled <- SettledPayments

\* Every behaviour of the webhook, seen as paid, entered and settled
\* payments, is one that DonationLedger allows.
ImplementsLedger == Ledger!Spec
=============================================================================
