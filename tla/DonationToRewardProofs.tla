------------------------ MODULE DonationToRewardProofs ------------------------
(***************************************************************************)
(* The composition of Payments and ChallengeRewards is an implementation   *)
(* of each of them, so what is proved of the components, for any number of *)
(* donors, deliveries and runs, holds when they run together.              *)
(*                                                                         *)
(* A step of one component leaves the other's variables alone.  The jobs   *)
(* of Payments are the keys of the queue, which the worker never changes;  *)
(* the donations of ChallengeRewards are what the webhook stored, and that *)
(* its steps store donations of users, amounts and categories follows from *)
(* the invariant of Payments and from Payable.                             *)
(***************************************************************************)
EXTENDS DonationToReward, FiniteSetTheorems, TLAPS

\* The components with what is proved of them.
PP == INSTANCE PaymentsProofs WITH jobs <- DOMAIN job, faults <- handlerFaults
RR == INSTANCE ChallengeRewardsProofs WITH
    Amount <- {P!WholeRinggit(v) : v \in Amount},
    donation <- CountedDonations, faults <- runFaults

-----------------------------------------------------------------------------
(* The composition implements Payments                                     *)

\* Only the webhook adds jobs.
LEMMA RewardsKeepJobs ==
    ASSUME NEW r, R!Work(r) \/ R!RunFails(r)
    PROVE  DOMAIN job' = DOMAIN job
<1>1. CASE R!Finish(r)
  BY <1>1 DEF R!Finish, R!Settle
<1>2. CASE R!RunFails(r)
  BY <1>2 DEF R!RunFails, R!Throw, R!Settle
<1>3. CASE R!ReadParticipants(r) \/ R!SendEmail(r) \/ R!MarkRewarded(r) \/ R!Notify(r)
  BY <1>3 DEF R!ReadParticipants, R!SendEmail, R!MarkRewarded, R!Notify
<1>4. ASSUME NEW c, R!CountDonations(r, c) \/ R!CountThrows(r, c)
      PROVE  DOMAIN job' = DOMAIN job
  BY <1>4 DEF R!CountDonations, R!CountThrows, R!Throw, R!Settle
<1>. QED
  BY <1>1, <1>2, <1>3, <1>4 DEF R!Work

\* So do Bull's own steps.
LEMMA BullKeepsJobs ==
    ASSUME NEW d, R!StartRun(d) \/ R!Stall(d)
    PROVE  DOMAIN job' = DOMAIN job
BY DEF R!StartRun, R!Stall

\* People change no jobs either.
LEMMA PeopleKeepJobs ==
    /\ R!Tick => UNCHANGED job
    /\ \A c, t : R!CreateChallenge(c, t) \/ R!UpdateChallenge(c, t) => UNCHANGED job
    /\ \A u, c : R!CreateParticipant(u, c) => UNCHANGED job
    /\ \A u, c : R!AdminRewards(u, c) \/ R!AdminNotifies(u, c)
                   \/ R!AdminNotificationFails(u, c) => UNCHANGED job
    /\ \A u, c, emptyId, reason : R!AdminRejects(u, c, emptyId, reason) => UNCHANGED job
    /\ \A u, c, image : R!UpdateParticipant(u, c, image) => UNCHANGED job
BY DEF R!Tick, R!CreateChallenge, R!UpdateChallenge, R!CreateParticipant,
       R!AdminRewards, R!AdminNotifies, R!AdminNotificationFails,
       R!AdminRejects, R!UpdateParticipant, R!workerVars

\* A step of the worker's part is a stutter of the payments.
LEMMA RewardsStutter ==
    ASSUME UNCHANGED paymentVars, DOMAIN job' = DOMAIN job
    PROVE  UNCHANGED P!vars
BY DEF paymentVars, P!vars, P!ownerVars

\* Every step of the composition is a step of Payments or a stutter of it.
LEMMA StepOfPayments == [Next]_vars => [P!Next]_(P!vars)
<1>. SUFFICES ASSUME [Next]_vars PROVE P!Next \/ UNCHANGED P!vars
  OBVIOUS
<1>1. CASE People
  BY <1>1, PeopleKeepJobs, RewardsStutter DEF People, OfPayments, OfRewards, P!Next
<1>2. ASSUME NEW o \in P!Object, Deliver(o) PROVE P!Next
  BY <1>2 DEF Deliver, OfPayments, P!Next
<1>3. ASSUME NEW a \in Delivery, Handle(a) PROVE P!Next
  BY <1>3 DEF Handle, StoreDonation, EnqueueReward, OfPayments, P!Next, P!Handle
<1>4. ASSUME NEW d \in Donation, StartRun(d) \/ Stall(d) PROVE UNCHANGED P!vars
  BY <1>4, BullKeepsJobs, RewardsStutter DEF StartRun, Stall, OfRewards
<1>5. ASSUME NEW r \in Run, Work(r) PROVE UNCHANGED P!vars
  BY <1>5, RewardsKeepJobs, RewardsStutter DEF Work, OfRewards
<1>6. CASE Failures
  <2>1. ASSUME NEW r \in Run, OfRewards(R!RunFails(r)) PROVE UNCHANGED P!vars
    BY <2>1, RewardsKeepJobs, RewardsStutter DEF OfRewards
  <2>2. CASE Crash
    BY <2>2 DEF Crash, P!Next
  <2>. QED
    BY <1>6, <2>1, <2>2 DEF Failures, OfPayments, P!Next
<1>7. CASE UNCHANGED vars
  BY <1>7 DEF vars, paymentVars, rewardVars, P!vars, P!ownerVars
<1>. QED
  BY <1>1, <1>2, <1>3, <1>4, <1>5, <1>6, <1>7 DEF Next

\* The webhook, in one process with the worker, behaves as Payments says.
THEOREM DoesPayments == Spec => P!Spec
<1>1. Init => P!Init
  BY DEF Init
<1>. QED
  BY <1>1, StepOfPayments, PTL DEF Spec, P!Spec

-----------------------------------------------------------------------------
(* What is proved of Payments holds of the composition                     *)

\* P and PP are two instances of the same definitions.
LEMMA PaymentsOnce == P!Spec => PP!Spec
BY PTL
   DEF P!Spec, PP!Spec,
       P!Object, PP!Object, P!Optional, PP!Optional, P!stripeVars,
       PP!stripeVars, P!dbVars, PP!dbVars, P!bounds, PP!bounds, P!vars,
       PP!vars, P!PaymentEntity, PP!PaymentEntity, P!Part, PP!Part, P!Account,
       PP!Account, P!ObjectRow, PP!ObjectRow, P!DonationRow, PP!DonationRow,
       P!GiftCardRow, PP!GiftCardRow, P!CollaborationRow, PP!CollaborationRow,
       P!EventState, PP!EventState, P!Live, PP!Live, P!DeliveryRow,
       PP!DeliveryRow, P!Request, PP!Request, P!Init, PP!Init,
       P!ActiveCollaboration, PP!ActiveCollaboration, P!CreateDonationIntent,
       PP!CreateDonationIntent, P!CreateGiftCardIntent,
       PP!CreateGiftCardIntent, P!PaymentSucceeds, PP!PaymentSucceeds,
       P!RedeemGiftCard, PP!RedeemGiftCard, P!NewDelivery, PP!NewDelivery,
       P!Deliver, PP!Deliver, P!Redeliver, PP!Redeliver, P!At, PP!At,
       P!ObjectOf, PP!ObjectOf, P!EntityOf, PP!EntityOf, P!IgnoreObject,
       PP!IgnoreObject, P!StoreGiftCard, PP!StoreGiftCard, P!DonationFor,
       PP!DonationFor, P!GiftCardsAfter, PP!GiftCardsAfter, P!AfterStore,
       PP!AfterStore, P!StoreDonation, PP!StoreDonation, P!ownerVars, PP!ownerVars,
       P!Banked, PP!Banked, P!WholeRinggit, PP!WholeRinggit, P!Sen, PP!Sen,
       P!CanMove, PP!CanMove, P!HandlerThrows, PP!HandlerThrows, P!OpenAccount,
       PP!OpenAccount, P!ChangeOwner, PP!ChangeOwner, P!Own, PP!Own,
       P!DeliveriesOf, PP!DeliveriesOf, P!Cardinality, PP!Cardinality,
       P!SplitRequests, PP!SplitRequests, P!SplitDonation, PP!SplitDonation,
       P!EnqueueReward, PP!EnqueueReward, P!Answer, PP!Answer, P!MustResend,
       PP!MustResend, P!HandlerFails, PP!HandlerFails, P!TransferMade,
       PP!TransferMade, P!TransferRefused, PP!TransferRefused, P!Crash,
       PP!Crash, P!LaunchCollaboration, PP!LaunchCollaboration, P!UpdateReward,
       PP!UpdateReward, P!CancelCollaboration, PP!CancelCollaboration, P!Pay,
       PP!Pay, P!Handle, PP!Handle, P!Collaborate, PP!Collaborate, P!Next,
       PP!Next, P!Put, PP!Put, P!EmptyTable, PP!EmptyTable, P!NewKey,
       PP!NewKey, P!HasRoom, PP!HasRoom

LEMMA PaymentsConstants ==
    /\ PP!NoneAssumption
    /\ PP!IdAssumption
    /\ PP!AmountAssumption
    /\ PP!BoundAssumption
BY PaymentsAssumption
   DEF P!NoneAssumption, P!IdAssumption, P!AmountAssumption, P!BoundAssumption,
       P!Object, PP!NoneAssumption, PP!IdAssumption, PP!AmountAssumption,
       PP!BoundAssumption, PP!Object

LEMMA PaymentsInvariance ==
    ASSUME PP!NoneAssumption, PP!IdAssumption, PP!AmountAssumption,
           PP!BoundAssumption
    PROVE  PP!Spec => []PP!IInv
BY PP!Invariance

\* The inductive invariant of Payments.
LEMMA PaymentsHold == Spec => []PP!IInv
BY DoesPayments, PaymentsOnce, PaymentsConstants, PaymentsInvariance, PTL

-----------------------------------------------------------------------------
(* The composition implements ChallengeRewards                             *)

\* What amounts are stored as.
Ringgit == {P!WholeRinggit(v) : v \in Amount}

\* What a donor or the buyer of a card can ask for: users pay amounts, to
\* campaigns, and a card is worth the ringgit that were paid for it.
Payable ==
    /\ \A o \in DOMAIN object :
          /\ object[o].paymentEntity # "none" =>
                 /\ P!WholeRinggit(object[o].value) \in Ringgit
                 /\ object[o].userId \in User
          /\ object[o].paymentEntity = "campaign_donation" =>
                 object[o].campaignId \in Campaign
    /\ \A g \in DOMAIN giftCard : giftCard[g].amount \in Ringgit

\* The part of the invariant of Payments that is used here.
LEMMA Shapes ==
    ASSUME PP!IInv
    PROVE  /\ giftCard \in [DOMAIN giftCard -> P!GiftCardRow]
           /\ DOMAIN donation \subseteq Donation
           /\ \A a \in DOMAIN delivery : delivery[a].object \in DOMAIN object
BY DEF PP!IInv, PP!TypeOK, PP!IsTable, PP!DeliveriesHaveEvents,
       PP!GiftCardRow, P!GiftCardRow, PP!Object, P!Object, PP!Optional, P!Optional

\* A new object is paid by a user, or is a transfer nobody stores.
LEMMA PayableObjects ==
    ASSUME Payable, NEW o, NEW m,
           object' = Put(object, o, m), UNCHANGED giftCard,
           m.paymentEntity # "none" =>
               P!WholeRinggit(m.value) \in Ringgit /\ m.userId \in User /\
               (m.paymentEntity = "campaign_donation" => m.campaignId \in Campaign)
    PROVE  Payable'
BY DEF Payable, Put

\* A card is spent as the whole ringgit that it is worth.
LEMMA RinggitOfRinggit ==
    ASSUME NEW amt \in Ringgit
    PROVE  amt \in Nat /\ P!WholeRinggit(amt * 100) = amt
<1>1. PICK v \in Amount : amt = v \div 100
  BY DEF Ringgit, P!WholeRinggit
<1>2. v \in Nat
  BY PaymentsAssumption DEF P!AmountAssumption
<1>3. amt \in Nat
  BY <1>1, <1>2
<1>. QED
  BY <1>3 DEF P!WholeRinggit

LEMMA PayableStep ==
    ASSUME PP!IInv, Payable, [Next]_vars
    PROVE  Payable'
<1>. USE Shapes
<1>1. ASSUME UNCHANGED <<object, giftCard>> PROVE Payable'
  BY <1>1 DEF Payable
<1>2. CASE UNCHANGED P!vars
  BY <1>1, <1>2 DEF P!vars
<1>3. CASE P!Pay
  <2>1. ASSUME NEW u \in User, NEW c \in Campaign, NEW amt \in Amount, NEW g,
               P!CreateDonationIntent(u, c, amt, g)
        PROVE  Payable'
    <3>1. P!WholeRinggit(amt) \in Ringgit
      BY DEF Ringgit
    <3>2. PICK o, m : /\ object' = Put(object, o, m)
                      /\ m.value = amt /\ m.userId = u /\ m.campaignId = c
      BY <2>1 DEF P!CreateDonationIntent, P!Put, Put
    <3>3. UNCHANGED giftCard
      BY <2>1 DEF P!CreateDonationIntent, P!dbVars
    <3>. QED
      BY <3>1, <3>2, <3>3, PayableObjects
  <2>2. ASSUME NEW u \in User, NEW r, NEW amt \in Amount,
               P!CreateGiftCardIntent(u, r, amt)
        PROVE  Payable'
    <3>1. P!WholeRinggit(amt) \in Ringgit
      BY DEF Ringgit
    <3>2. PICK o, m : /\ object' = Put(object, o, m)
                      /\ m.value = amt /\ m.userId = u
                      /\ m.paymentEntity = "gift_card"
      BY <2>2 DEF P!CreateGiftCardIntent, P!Put, Put
    <3>3. UNCHANGED giftCard
      BY <2>2 DEF P!CreateGiftCardIntent, P!dbVars
    <3>. QED
      BY <3>1, <3>2, <3>3, PayableObjects
  <2>3. ASSUME NEW o, P!PaymentSucceeds(o) PROVE Payable'
    BY <2>3, <1>1 DEF P!PaymentSucceeds, P!dbVars
  <2>4. ASSUME NEW u \in User, NEW g, NEW c \in Campaign, P!RedeemGiftCard(u, g, c)
        PROVE  Payable'
    <3>1. giftCard[g].amount \in Ringgit
      BY <2>4 DEF Payable, P!RedeemGiftCard
    <3>2. P!WholeRinggit(giftCard[g].amount * 100) \in Ringgit
      BY <3>1, RinggitOfRinggit
    <3>. QED
      BY <2>4, <3>2, PayableObjects DEF P!RedeemGiftCard, P!dbVars, P!Put, Put
  <2>. QED
    BY <1>3, <2>1, <2>2, <2>3, <2>4 DEF P!Pay
<1>4. ASSUME NEW a, P!Handle(a) \/ P!HandlerThrows(a) \/ P!HandlerFails(a)
      PROVE  Payable'
  <2>1. CASE P!StoreGiftCard(a)
    BY <2>1 DEF P!StoreGiftCard, P!At, P!EntityOf, P!ObjectOf, P!stripeVars,
                P!Put, Payable
  <2>2. CASE P!StoreDonation(a)
    BY <2>2 DEF P!StoreDonation, P!GiftCardsAfter, P!GiftCardRow, P!stripeVars,
                Payable
  <2>3. CASE \/ P!IgnoreObject(a) \/ P!SplitDonation(a) \/ P!EnqueueReward(a)
             \/ P!Answer(a) \/ P!HandlerThrows(a) \/ P!HandlerFails(a)
    BY <2>3, <1>1 DEF P!IgnoreObject, P!SplitDonation, P!EnqueueReward, P!Answer,
                      P!HandlerThrows, P!HandlerFails, P!stripeVars, P!dbVars
  <2>. QED
    BY <1>4, <2>1, <2>2, <2>3 DEF P!Handle
<1>5. ASSUME NEW q, P!TransferMade(q) PROVE Payable'
  BY <1>5, PayableObjects DEF P!TransferMade, P!dbVars, P!Put, Put
<1>6. ASSUME NEW o, P!Deliver(o) \/ P!Redeliver(o) PROVE Payable'
  BY <1>6, <1>1 DEF P!Deliver, P!Redeliver, P!dbVars, P!stripeVars
<1>7. ASSUME NEW q, P!TransferRefused(q) PROVE Payable'
  BY <1>7, <1>1 DEF P!TransferRefused, P!dbVars, P!stripeVars
<1>8. CASE P!Crash
  BY <1>8, <1>1 DEF P!Crash, P!dbVars
<1>9. CASE P!Collaborate
  BY <1>9, <1>1 DEF P!Collaborate, P!LaunchCollaboration, P!UpdateReward,
                    P!CancelCollaboration, P!stripeVars
<1>10. CASE P!Own
  BY <1>10, <1>1 DEF P!Own, P!OpenAccount, P!ChangeOwner, P!stripeVars
<1>. QED
  BY <1>2, <1>3, <1>4, <1>5, <1>6, <1>7, <1>8, <1>9, <1>10,
     StepOfPayments DEF P!Next

\* Payable is an invariant of the composition.
LEMMA PaymentsArePayable == Spec => [](PP!IInv /\ Payable)
<1>1. Init => Payable
  BY DEF Init, P!Init, P!EmptyTable, Payable, IsTable, EmptyTable
<1>. QED
  BY <1>1, PayableStep, PaymentsHold, PTL DEF Spec

\* A step of the payments alone is a stutter of the worker's part.
LEMMA PaymentsStutter ==
    ASSUME UNCHANGED <<rewardVars, createdAt, donation>>
    PROVE  UNCHANGED R!vars
BY DEF rewardVars, R!vars, CountedDonations

\* No step of the payments but StoreDonation writes a donation.
LEMMA PaymentsKeepDonations ==
    /\ P!Pay \/ P!Collaborate \/ P!Own \/ P!Crash => UNCHANGED donation
    /\ \A o : P!Deliver(o) \/ P!Redeliver(o) => UNCHANGED donation
    /\ \A a : P!IgnoreObject(a) \/ P!StoreGiftCard(a) \/ P!SplitDonation(a)
                \/ P!Answer(a) \/ P!HandlerThrows(a) \/ P!HandlerFails(a)
                    => UNCHANGED donation
    /\ \A q : P!TransferMade(q) \/ P!TransferRefused(q) => UNCHANGED donation
BY DEF P!Pay, P!CreateDonationIntent, P!CreateGiftCardIntent, P!PaymentSucceeds,
       P!RedeemGiftCard, P!Collaborate, P!LaunchCollaboration, P!UpdateReward,
       P!CancelCollaboration, P!Crash, P!Deliver, P!Redeliver, P!IgnoreObject,
       P!StoreGiftCard, P!SplitDonation, P!Answer, P!HandlerThrows,
       P!HandlerFails, P!TransferMade, P!TransferRefused, P!Own, P!OpenAccount,
       P!ChangeOwner, P!dbVars

\* A stored donation is one of a user, an amount and a category.
LEMMA StoreIsOfUser ==
    ASSUME PP!IInv, Payable, NEW a, StoreDonation(a)
    PROVE  \E u \in User, amt \in Ringgit, k \in Category : R!StoreDonation(u, amt, k)
<1>. DEFINE m == P!ObjectOf(a)
<1>1. /\ m.userId \in User
      /\ P!WholeRinggit(m.value) \in Ringgit
      /\ m.campaignId \in Campaign
  BY Shapes DEF StoreDonation, P!StoreDonation, P!At, P!EntityOf, P!ObjectOf,
                Payable
<1>2. CategoryOf[m.campaignId] \in Category
  BY <1>1, CategoryAssumption
<1>3. R!StoreDonation(m.userId, P!WholeRinggit(m.value), CategoryOf[m.campaignId])
  BY DEF StoreDonation
<1>. QED
  BY <1>1, <1>2, <1>3

\* A job is added for a stored donation.
LEMMA JobIsOfDonation ==
    ASSUME PP!IInv, NEW a, EnqueueReward(a)
    PROVE  \E d \in Donation : R!EnqueueReward(d)
BY Shapes DEF EnqueueReward, R!EnqueueReward, CountedDonations

\* Every step of the composition is a step of ChallengeRewards or a stutter.
LEMMA StepOfRewards == PP!IInv /\ Payable /\ [Next]_vars => [R!Next]_(R!vars)
<1>. SUFFICES ASSUME PP!IInv, Payable, [Next]_vars
              PROVE  R!Next \/ UNCHANGED R!vars
  OBVIOUS
<1>. USE PaymentsKeepDonations, PaymentsStutter
<1>1. CASE People
  <2>1. CASE OfPayments(P!Pay \/ P!Collaborate \/ P!Own)
    BY <2>1 DEF OfPayments
  <2>. QED
    BY <1>1, <2>1 DEF People, OfRewards, R!Next, R!People
<1>2. ASSUME NEW o \in P!Object, Deliver(o) PROVE UNCHANGED R!vars
  BY <1>2 DEF Deliver, OfPayments
<1>3. ASSUME NEW a \in Delivery, Handle(a) PROVE R!Next \/ UNCHANGED R!vars
  <2>1. CASE StoreDonation(a)
    BY <2>1, StoreIsOfUser DEF R!Next, R!People, Ringgit
  <2>2. CASE EnqueueReward(a)
    BY <2>2, JobIsOfDonation DEF R!Next
  <2>3. CASE OfPayments(P!IgnoreObject(a) \/ P!StoreGiftCard(a)
                            \/ P!SplitDonation(a) \/ P!Answer(a)
                            \/ P!HandlerThrows(a))
    <3>1. UNCHANGED donation
      BY <2>3 DEF OfPayments
    <3>. QED
      BY <2>3, <3>1 DEF OfPayments
  <2>. QED
    BY <1>3, <2>1, <2>2, <2>3 DEF Handle
<1>4. ASSUME NEW d \in Donation, StartRun(d) \/ Stall(d) PROVE R!Next
  BY <1>4 DEF StartRun, Stall, OfRewards, R!Next
<1>5. ASSUME NEW r \in Run, Work(r) PROVE R!Next
  BY <1>5 DEF Work, OfRewards, R!Next
<1>6. CASE Failures
  <2>1. ASSUME NEW r \in Run, OfRewards(R!RunFails(r)) PROVE R!Next
    BY <2>1 DEF OfRewards, R!Next
  <2>2. CASE Crash
    BY <2>2 DEF Crash, R!Next, R!vars, rewardVars, CountedDonations
  <2>3. ASSUME NEW o, OfPayments(P!Redeliver(o)) PROVE UNCHANGED R!vars
    BY <2>3 DEF OfPayments
  <2>4. ASSUME NEW a, OfPayments(P!HandlerFails(a)) PROVE UNCHANGED R!vars
    BY <2>4 DEF OfPayments
  <2>5. ASSUME NEW q, OfPayments(P!TransferMade(q) \/ P!TransferRefused(q))
        PROVE  UNCHANGED R!vars
    BY <2>5 DEF OfPayments
  <2>. QED
    BY <1>6, <2>1, <2>2, <2>3, <2>4, <2>5 DEF Failures
<1>7. CASE UNCHANGED vars
  BY <1>7 DEF vars, paymentVars
<1>. QED
  BY <1>1, <1>2, <1>3, <1>4, <1>5, <1>6, <1>7 DEF Next

\* The worker, fed by the webhook and killed with it, behaves as
\* ChallengeRewards says.
THEOREM DoesRewards == Spec => R!Spec
<1>1. Init => R!Init
  BY DEF Init
<1>. QED
  BY <1>1, StepOfRewards, PaymentsArePayable, PTL DEF Spec, R!Spec

-----------------------------------------------------------------------------
(* What is proved of ChallengeRewards holds of the composition             *)

\* R and RR are two instances of the same definitions.
LEMMA RewardsOnce == R!Spec => RR!Spec
BY PTL
   DEF R!Spec, RR!Spec,
       R!Key, RR!Key, R!Optional, RR!Optional, R!workerVars, RR!workerVars,
       R!vars, RR!vars, R!Live, RR!Live, R!Init, RR!Init, R!Tick, RR!Tick,
       R!CreateChallenge, RR!CreateChallenge, R!UpdateChallenge,
       RR!UpdateChallenge, R!CreateParticipant, RR!CreateParticipant,
       R!UpdateParticipant, RR!UpdateParticipant, R!AdminRewards,
       RR!AdminRewards, R!AdminNotifies, RR!AdminNotifies, R!AdminNotificationFails,
       RR!AdminNotificationFails, R!Keeping, RR!Keeping, R!IsEnough, RR!IsEnough,
       R!CountThrows, RR!CountThrows, R!Throw, RR!Throw,
       R!AdminRejects, RR!AdminRejects, R!StoreDonation,
       RR!StoreDonation, R!EnqueueReward, RR!EnqueueReward, R!StartRun,
       RR!StartRun, R!Stall, RR!Stall, R!At, RR!At, R!DonorOf, RR!DonorOf,
       R!Current, RR!Current, R!Unrewarded, RR!Unrewarded, R!Fulfilled,
       RR!Fulfilled, R!IsFulfilled, RR!IsFulfilled,
       R!Cardinality, RR!Cardinality, R!ReadParticipants,
       RR!ReadParticipants, R!CountDonations, RR!CountDonations, R!SendEmail,
       RR!SendEmail, R!MarkRewarded, RR!MarkRewarded, R!Notify, RR!Notify,
       R!Settle, RR!Settle, R!Finish, RR!Finish, R!RunFails, RR!RunFails,
       R!Crash, RR!Crash, R!People, RR!People, R!Work, RR!Work, R!Next,
       RR!Next, R!Put, RR!Put, R!EmptyTable, RR!EmptyTable, R!NewKey,
       RR!NewKey, R!HasRoom, RR!HasRoom

LEMMA RewardsConstants ==
    RR!NoneIsNoRow /\ RR!NoneIsNoNumber /\ RR!TermsAssumption /\ RR!BoundAssumption
BY RewardsAssumption
   DEF R!NoneIsNoRow, R!NoneIsNoNumber, R!TermsAssumption, R!BoundAssumption,
       R!TermsRow, RR!NoneIsNoRow, RR!NoneIsNoNumber, RR!TermsAssumption,
       RR!BoundAssumption, RR!TermsRow

LEMMA RewardsInvariance ==
    ASSUME RR!NoneIsNoRow, RR!NoneIsNoNumber, RR!TermsAssumption, RR!BoundAssumption
    PROVE  RR!Spec => []RR!IInv
BY RR!Invariance

\* The inductive invariant of ChallengeRewards.
LEMMA RewardsHold == Spec => []RR!IInv
BY DoesRewards, RewardsOnce, RewardsConstants, RewardsInvariance, PTL

\* The safety of each component, as proved of it under its own assumptions.
LEMMA SafetyOfPayments ==
    ASSUME PP!NoneAssumption, PP!IdAssumption, PP!AmountAssumption,
           PP!BoundAssumption
    PROVE  PP!Spec => /\ []PP!NoMoreDonationsThanDeliveries
                      /\ []PP!GiftCardShowsItsUse
                      /\ []PP!SplitConservesDonation
BY PP!DuplicatesNeedDeliveries, PP!CardsShowTheirUse, PP!SplitsConserve, PTL

LEMMA SafetyOfRewards ==
    ASSUME RR!NoneIsNoRow, RR!NoneIsNoNumber, RR!TermsAssumption, RR!BoundAssumption
    PROVE  RR!Spec => []RR!MailedHasEarned /\ RR!LateRunsDoNotMail
BY RR!RewardsAreEarned, RR!NoLateMail, PTL

\* Both instances of a component mean the same by its properties.
LEMMA SamePaymentsSafety ==
    /\ PP!IInv => P!AcknowledgedIsRecorded /\ P!EveryDonationIsPaidFor
    /\ PP!NoMoreDonationsThanDeliveries => P!NoMoreDonationsThanDeliveries
    /\ PP!GiftCardShowsItsUse => P!GiftCardShowsItsUse
    /\ PP!SplitConservesDonation => P!SplitConservesDonation
<1>1. PP!IInv => P!AcknowledgedIsRecorded /\ P!EveryDonationIsPaidFor
  BY DEF PP!IInv, PP!AcknowledgedIsRecorded, P!AcknowledgedIsRecorded,
         PP!Recorded, P!Recorded, PP!DonationsOf, P!DonationsOf,
         PP!EveryDonationIsPaidFor, P!EveryDonationIsPaidFor
<1>2. PP!NoMoreDonationsThanDeliveries => P!NoMoreDonationsThanDeliveries
  BY DEF PP!NoMoreDonationsThanDeliveries, P!NoMoreDonationsThanDeliveries,
         PP!DonationsOf, P!DonationsOf, PP!DeliveriesOf, P!DeliveriesOf,
         PP!Object, P!Object, PP!Cardinality, P!Cardinality
<1>3. PP!GiftCardShowsItsUse => P!GiftCardShowsItsUse
  BY DEF PP!GiftCardShowsItsUse, P!GiftCardShowsItsUse, PP!DonationsWith,
         P!DonationsWith
<1>4. PP!SplitConservesDonation => P!SplitConservesDonation
  BY DEF PP!SplitConservesDonation, P!SplitConservesDonation, PP!Asked,
         P!Asked, PP!Made, P!Made, PP!Cardinality, P!Cardinality
<1>. QED
  BY <1>1, <1>2, <1>3, <1>4

LEMMA SameRewardsSafety ==
    /\ RR!IInv => R!RewardsInOrder /\ R!CompletedIsRewarded
    /\ RR!MailedHasEarned => R!MailedHasEarned
<1>1. RR!IInv => R!RewardsInOrder /\ R!CompletedIsRewarded
  BY DEF RR!IInv, RR!MarkedWasMailed, RR!NotifiedIsRewarded,
         R!RewardsInOrder, R!MarkedWasMailed, R!NotifiedIsRewarded,
         RR!CompletedIsRewarded, R!CompletedIsRewarded
<1>2. RR!MailedHasEarned => R!MailedHasEarned
  BY DEF RR!MailedHasEarned, R!MailedHasEarned, RR!Cardinality, R!Cardinality
<1>. QED
  BY <1>1, <1>2

LEMMA SameLateRuns == RR!LateRunsDoNotMail => R!LateRunsDoNotMail
BY DEF RR!LateRunsDoNotMail, R!LateRunsDoNotMail, RR!Rewarded, R!Rewarded,
       RR!NotYetRead, R!NotYetRead, RR!Key, R!Key

\* Everything that is proved safe about the webhook and about the worker is
\* safe when they run in one process, share their tables and their queue and
\* crash together: donations stay tied to payments and to deliveries, cards
\* and splits stay right, a 200 means the work is done, and rewards are
\* earned, given in order and not sent again after the mark.
THEOREM PaymentsAndRewardsHold ==
    Spec => /\ [](/\ P!EveryDonationIsPaidFor
                  /\ P!NoMoreDonationsThanDeliveries
                  /\ P!AcknowledgedIsRecorded
                  /\ P!GiftCardShowsItsUse
                  /\ P!SplitConservesDonation)
            /\ [](/\ R!CompletedIsRewarded
                  /\ R!MailedHasEarned
                  /\ R!RewardsInOrder)
            /\ R!LateRunsDoNotMail
<1>1. Spec => /\ []PP!NoMoreDonationsThanDeliveries
              /\ []PP!GiftCardShowsItsUse
              /\ []PP!SplitConservesDonation
  BY DoesPayments, PaymentsOnce, PaymentsConstants, SafetyOfPayments, PTL
<1>2. Spec => []RR!MailedHasEarned /\ RR!LateRunsDoNotMail
  BY DoesRewards, RewardsOnce, RewardsConstants, SafetyOfRewards, PTL
<1>. QED
  BY <1>1, <1>2, PaymentsHold, RewardsHold, SamePaymentsSafety,
     SameRewardsSafety, SameLateRuns, PTL

-----------------------------------------------------------------------------
(* No reward without payments                                              *)

\* What is proved of each component is proved under its own assumptions.
LEMMA DeliveriesFiniteInPayments ==
    ASSUME PP!NoneAssumption, PP!IdAssumption, PP!AmountAssumption,
           PP!BoundAssumption
    PROVE  PP!Spec => []PP!IsFiniteSet(DOMAIN delivery)
BY PP!DeliveriesAreFinite

LEMMA EarnedInRewards ==
    ASSUME RR!NoneIsNoRow, RR!NoneIsNoNumber, RR!TermsAssumption, RR!BoundAssumption
    PROVE  RR!Spec => []RR!EarnedSoFar
BY RR!EarnedInvariance

\* The components count as this module does.
LEMMA SameCount ==
    /\ \A S : PP!IsFiniteSet(S) => IsFiniteSet(S)
    /\ \A S : RR!Cardinality(S) = Cardinality(S)
    /\ \A S : RR!IsFiniteSet(S) => IsFiniteSet(S)
BY DEF PP!IsFiniteSet, RR!IsFiniteSet, IsFiniteSet, RR!Cardinality, Cardinality

\* Finitely many deliveries were made, and who was mailed has earned it.
LEMMA FiniteAndEarned == Spec => []PP!IsFiniteSet(DOMAIN delivery) /\ []RR!EarnedSoFar
BY DoesPayments, PaymentsOnce, PaymentsConstants, DeliveriesFiniteInPayments,
   DoesRewards, RewardsOnce, RewardsConstants, EarnedInRewards, PTL

\* The deliveries that stored the donations a reward was counted from.
Backing(u, t) ==
    {a \in DOMAIN delivery : delivery[a].object \in Fulfilling(u, t)}

\* The ringgit of a value.
LEMMA RinggitOf ==
    ASSUME NEW v \in Nat, NEW n \in Nat, 100 * n <= v, v < 100 * n + 100
    PROVE  P!WholeRinggit(v) = n
BY DEF P!WholeRinggit

\* Each donation that counts for u and t was stored by a delivery of its own,
\* of a payment of u that counts for t.
LEMMA CountedAreBacked ==
    ASSUME PP!IInv, IsFiniteSet(DOMAIN delivery), NEW u, NEW t,
           t.requiredDonationAmount # None
    PROVE  Cardinality(R!Fulfilled(u, t)) \in Nat
           /\ Cardinality(R!Fulfilled(u, t)) <= Cardinality(Backing(u, t))
<1>. DEFINE S == R!Fulfilled(u, t)
            by == [d \in S |-> CHOOSE a \in DOMAIN delivery :
                                 delivery[a].donationId = d]
<1>1. ASSUME NEW d \in S
      PROVE  by[d] \in Backing(u, t) /\ delivery[by[d]].donationId = d
  <2>1. d \in DOMAIN donation
    BY DEF R!Fulfilled, CountedDonations
  <2>2. PICK a \in DOMAIN delivery : delivery[a].donationId = d
    BY <2>1 DEF PP!IInv, PP!DeliveriesStoreDonations
  <2>3. by[d] \in DOMAIN delivery /\ delivery[by[d]].donationId = d
    BY <2>2
  <2>4. d # None
    BY <2>1, Shapes, PaymentsConstants DEF PP!NoneAssumption
  <2>5. PICK o : o = donation[d].paymentIntentId
    OBVIOUS
  <2>. HIDE DEF by
  <2>6. delivery[by[d]].object = o
    BY <2>1, <2>3, <2>4, <2>5 DEF PP!IInv, PP!DeliveriesStoreDonations
  <2>9. P!WholeRinggit(object[o].value) = donation[d].amount
    <3>1. /\ 100 * donation[d].amount <= object[o].value
          /\ object[o].value < 100 * donation[d].amount + 100
      BY <2>1, <2>5 DEF PP!IInv, PP!EveryDonationIsPaidFor
    <3>2. /\ donation \in [DOMAIN donation -> PP!DonationRow]
          /\ object \in [DOMAIN object -> PP!ObjectRow]
          /\ DOMAIN event \subseteq DOMAIN object
      BY DEF PP!IInv, PP!TypeOK, PP!IsTable, PP!DeliveriesHaveEvents
    <3>3. o \in DOMAIN event
      BY <2>1, <2>5 DEF PP!IInv, PP!EveryDonationIsPaidFor
    <3>4. donation[d].amount \in Nat /\ object[o].value \in Nat
      BY <2>1, <3>2, <3>3 DEF PP!DonationRow, PP!ObjectRow
    <3>. QED
      BY <3>1, <3>4, RinggitOf
  <2>7. /\ o \in DOMAIN event
        /\ object[o].paymentEntity = "campaign_donation"
        /\ object[o].userId = donation[d].userId
        /\ object[o].campaignId = donation[d].campaignId
    BY <2>1, <2>5 DEF PP!IInv, PP!EveryDonationIsPaidFor
  <2>8. /\ donation[d].userId = u
        /\ donation[d].amount >= t.requiredDonationAmount
        /\ CategoryOf[donation[d].campaignId] \in t.targetCampaignCategories
    BY <2>1 DEF R!Fulfilled, CountedDonations
  <2>. QED
    BY <2>3, <2>6, <2>9, <2>7, <2>8 DEF Backing, Fulfilling
<1>2. by \in Injection(S, Backing(u, t))
  <2>1. by \in [S -> Backing(u, t)]
    BY <1>1
  <2>2. \A d, e \in S : by[d] = by[e] => d = e
    BY <1>1
  <2>. HIDE DEF by
  <2>. QED
    BY <2>1, <2>2 DEF Injection, IsInjective
<1>3. IsFiniteSet(Backing(u, t))
  <2>1. Backing(u, t) \subseteq DOMAIN delivery
    BY DEF Backing
  <2>. QED
    BY <2>1, FS_Subset
<1>. QED
  BY <1>2, <1>3, FS_Injection, FS_CardinalityType

\* Whatever is repeated, fails, crashes or stalls: who is mailed a reward has
\* as many deliveries of payments behind it as the terms ask for donations
\* (handleChallengeRewardEmail counts what handleStripeWebhook stored).
THEOREM RewardsHavePayments == Spec => []RewardsAreBacked
<1>1. ASSUME PP!IInv, RR!IInv, PP!IsFiniteSet(DOMAIN delivery), RR!EarnedSoFar
      PROVE  RewardsAreBacked
  <2>. SUFFICES ASSUME NEW r \in DOMAIN run, NEW u \in User, NEW c \in Challenge,
                       <<r, <<u, c>>>> \in mail
                PROVE  R!IsEnough(Cardinality(Backing(u, run[r].terms[c])),
                                  run[r].terms[c])
    BY DEF RewardsAreBacked, Backing
  <2>1. PICK t : t = run[r].terms[c]
    OBVIOUS
  <2>2. r \in Run
    BY <1>1 DEF RR!IInv, RR!TypeOK, RR!IsTable
  <2>3. /\ t \in RR!TermsRow
        /\ t.requiredDonationAmount # None
        /\ RR!IsFulfilled(u, t)
    BY <1>1, <2>1, <2>2 DEF RR!EarnedSoFar, RR!HasEarned
  <2>4. t.requiredNumOfDonation \in Nat \cup {None}
    BY <2>3 DEF RR!TermsRow
  <2>5. R!IsEnough(Cardinality(R!Fulfilled(u, t)), t)
    BY <2>3, SameCount DEF RR!IsFulfilled, RR!IsEnough, R!IsEnough, RR!Fulfilled,
                           R!Fulfilled
  <2>6. /\ Cardinality(R!Fulfilled(u, t)) \in Nat
        /\ Cardinality(R!Fulfilled(u, t)) <= Cardinality(Backing(u, t))
        /\ Cardinality(Backing(u, t)) \in Nat
    <3>1. IsFiniteSet(DOMAIN delivery)
      BY <1>1, SameCount
    <3>2. Backing(u, t) \subseteq DOMAIN delivery
      BY DEF Backing
    <3>. QED
      BY <1>1, <2>3, <3>1, <3>2, CountedAreBacked, FS_Subset, FS_CardinalityType
  <2>. QED
    BY <2>1, <2>4, <2>5, <2>6 DEF R!IsEnough
<1>. QED
  BY <1>1, PaymentsHold, RewardsHold, FiniteAndEarned, PTL

-----------------------------------------------------------------------------
(* The composition keeps the ledger and the book                           *)

\* What the components implement alone, under their own assumptions.
LEMMA LedgerInPayments ==
    ASSUME PP!NoneAssumption, PP!IdAssumption, PP!AmountAssumption,
           PP!BoundAssumption
    PROVE  PP!Spec => PP!ImplementsLedger
BY PP!Refinement

LEMMA BookInRewards ==
    ASSUME RR!NoneIsNoRow, RR!NoneIsNoNumber, RR!TermsAssumption, RR!BoundAssumption
    PROVE  RR!Spec => RR!ImplementsBook
BY RR!BookRefinement

\* The ledgers and the books of the two instances are the same.
LEMMA SameLedger == PP!ImplementsLedger => P!ImplementsLedger
BY PTL
   DEF PP!ImplementsLedger, P!ImplementsLedger, PP!Ledger!Spec, P!Ledger!Spec,
       PP!Ledger!Init, P!Ledger!Init, PP!Ledger!Next, P!Ledger!Next,
       PP!Ledger!vars, P!Ledger!vars, PP!Ledger!Pay, P!Ledger!Pay,
       PP!Ledger!Enter, P!Ledger!Enter, PP!Ledger!Settle, P!Ledger!Settle,
       PP!Ledger!Put, P!Ledger!Put, PP!Ledger!EmptyTable, P!Ledger!EmptyTable,
       PP!PaidPayments, P!PaidPayments, PP!LedgerEntry, P!LedgerEntry,
       PP!SettledPayments, P!SettledPayments, PP!Object, P!Object

LEMMA SameBook == RR!ImplementsBook => R!ImplementsBook
BY PTL
   DEF RR!ImplementsBook, R!ImplementsBook, RR!Book!Spec, R!Book!Spec,
       RR!Book!Init, R!Book!Init, RR!Book!Next, R!Book!Next, RR!Book!vars,
       R!Book!vars, RR!Book!Open, R!Book!Open, RR!Book!Join, R!Book!Join,
       RR!Book!Take, R!Book!Take, RR!Book!Mail, R!Book!Mail, RR!Book!Give,
       R!Book!Give, RR!Book!Notify, R!Book!Notify, RR!Book!Grant,
       R!Book!Grant, RR!Book!Put, R!Book!Put, RR!Book!EmptyTable,
       R!Book!EmptyTable, RR!Standing, R!Standing, RR!BookOf, R!BookOf,
       RR!TakenUp, R!TakenUp, RR!DonorOf, R!DonorOf, RR!Key, R!Key

\* From the payment to the reward, both abstract specifications hold of the
\* one process that runs the webhook and the worker: payments are entered in
\* the ledger before they are settled, and rewards are kept in the book.
THEOREM LedgerAndBookAreKept == Spec => P!ImplementsLedger /\ R!ImplementsBook
BY DoesPayments, PaymentsOnce, PaymentsConstants, LedgerInPayments, SameLedger,
   DoesRewards, RewardsOnce, RewardsConstants, BookInRewards, SameBook, PTL
=============================================================================
