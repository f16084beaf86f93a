--------------------------- MODULE PaymentsProofs ---------------------------
(***************************************************************************)
(* Proofs about Payments, for any number of payments, donations, cards,    *)
(* deliveries, failures, crashes and repeated events.                      *)
(***************************************************************************)
EXTENDS Payments, FiniteSetTheorems, TLAPS

-----------------------------------------------------------------------------
(* The inductive invariant                                                 *)

\* Stripe reports only objects it has, and the webhook handles only what
\* Stripe reported.
DeliveriesHaveEvents ==
    /\ DOMAIN event \subseteq DOMAIN object
    /\ \A a \in DOMAIN delivery : delivery[a].object \in DOMAIN event

\* A delivery remembers the donation it stored, and every donation was
\* stored by a delivery of its payment.
DeliveriesStoreDonations ==
    /\ \A a \in DOMAIN delivery :
          delivery[a].donationId # None =>
              /\ delivery[a].donationId \in DOMAIN donation
              /\ donation[delivery[a].donationId].paymentIntentId
                     = delivery[a].object
    /\ \A d \in DOMAIN donation : \E a \in DOMAIN delivery :
          delivery[a].donationId = d

\* What a delivery that waits at some pc has done so far.
DoneSoFar(a) ==
    /\ delivery[a].pc = "received" => delivery[a].donationId = None
    /\ delivery[a].pc \in {"split", "enqueue"} =>
           /\ EntityOf(a) = "campaign_donation"
           /\ delivery[a].donationId # None
    /\ delivery[a].pc = "split" =>
           ObjectOf(a).campaignId \in DOMAIN collaboration
    /\ delivery[a].pc = "answer" => Recorded(delivery[a].object)

IInv ==
    /\ TypeOK
    /\ DeliveriesHaveEvents
    /\ DeliveriesStoreDonations
    /\ \A a \in DOMAIN delivery : DoneSoFar(a)
    /\ EveryDonationIsPaidFor
    /\ AcknowledgedIsRecorded

-----------------------------------------------------------------------------
\* Nothing is stored, reported or delivered at first.
LEMMA InitIInv == Init => IInv
<1>. SUFFICES ASSUME Init PROVE IInv
  OBVIOUS
<1>1. TypeOK
  BY BoundAssumption DEF Init, TypeOK, IsTable, EmptyTable
<1>2. QED
  BY <1>1
     DEF Init, IInv, DeliveriesHaveEvents, DeliveriesStoreDonations,
         EveryDonationIsPaidFor, AcknowledgedIsRecorded, IsTable, EmptyTable

\* The whole ringgit of an amount leave less than a ringgit of it.
LEMMA WholeRinggitBounds ==
    ASSUME NEW v \in Nat
    PROVE  /\ WholeRinggit(v) \in Nat
           /\ 100 * WholeRinggit(v) <= v
           /\ v < 100 * WholeRinggit(v) + 100
BY DEF WholeRinggit

\* What Stripe moves is a sum of money, and the share that was asked for.
LEMMA SenOfMovable ==
    ASSUME NEW share \in Int, CanMove(share)
    PROVE  Sen(share) \in Nat /\ Sen(share) * Whole = share
<1>1. Sen(share) \in Int
  BY AmountAssumption DEF Sen
<1>2. PICK n \in Int : n = Sen(share) /\ n * Whole = share /\ share > 0
  BY <1>1 DEF CanMove
<1>3. n >= 0
  BY <1>2, AmountAssumption, Z3
<1>. QED
  BY <1>2, <1>3

-----------------------------------------------------------------------------
(* Types                                                                   *)

\* New rows are rows.
LEMMA ObjectTypes ==
    ASSUME TypeOK, NEW o \in Object, NEW row \in ObjectRow, NEW s \in EventState
    PROVE  /\ IsTable(Put(object, o, row), Object, ObjectRow)
           /\ IsTable(Put(event, o, s), Object, EventState)
BY DEF TypeOK, IsTable, Put

\* Stripe's resending touches nothing but the state of events.
LEMMA ResendType ==
    ASSUME TypeOK, NEW A, MustResend(A)
    PROVE  /\ IsTable(event', Object, EventState)
           /\ DOMAIN event' = DOMAIN event
           /\ \A o \in DOMAIN event : event'[o] = "acked" => event[o] = "acked"
BY DEF TypeOK, MustResend, IsTable, EventState

\* What moves a delivery on keeps it a delivery.
LEMMA MoveType ==
    ASSUME TypeOK, NEW a \in DOMAIN delivery,
           NEW pc \in Live \cup {"answered", "failed", "dead"},
           NEW d \in Optional(Donation)
    PROVE  /\ IsTable([delivery EXCEPT ![a].pc = pc], Delivery, DeliveryRow)
           /\ IsTable([delivery EXCEPT ![a] = [pc |-> pc, object |-> @.object,
                                              donationId |-> d]],
                      Delivery, DeliveryRow)
<1>. DEFINE row == delivery[a]
<1>1. row \in DeliveryRow
  BY DEF TypeOK, IsTable
<1>2. [row EXCEPT !.pc = pc] \in DeliveryRow
  BY <1>1 DEF DeliveryRow
<1>3. [pc |-> pc, object |-> row.object, donationId |-> d] \in DeliveryRow
  BY <1>1 DEF DeliveryRow
<1>4. IsTable(delivery, Delivery, DeliveryRow)
  BY DEF TypeOK
<1>. QED
  BY <1>2, <1>3, <1>4 DEF IsTable

\* A new delivery is a delivery.
LEMMA NewDeliveryType ==
    ASSUME TypeOK, NEW o \in Object, NewDelivery(o)
    PROVE  IsTable(delivery', Delivery, DeliveryRow)
<1>. DEFINE row == [pc |-> "received", object |-> o, donationId |-> None]
<1>1. row \in DeliveryRow
  BY DEF DeliveryRow, Live, Optional
<1>2. NewKey(Delivery, delivery) \in Delivery
  BY DEF NewDelivery, NewKey, HasRoom
<1>. QED
  BY <1>1, <1>2 DEF NewDelivery, TypeOK, IsTable, Put

\* The object of a delivery is one Stripe has.
LEMMA ObjectOfType ==
    ASSUME IInv, NEW a \in DOMAIN delivery
    PROVE  /\ delivery[a].object \in Object
           /\ ObjectOf(a) \in ObjectRow
BY DEF IInv, DeliveriesHaveEvents, ObjectOf, TypeOK, IsTable, DeliveryRow

\* Every step keeps every table a table and every counter in its bounds.
LEMMA TypeStep == IInv /\ [Next]_vars => TypeOK'
<1>. SUFFICES ASSUME IInv, [Next]_vars PROVE TypeOK'
  OBVIOUS
<1>t. TypeOK
  BY DEF IInv
<1>. USE <1>t
<1>1. ASSUME NEW u \in User, NEW c \in Campaign, NEW amt \in Amount,
             NEW g \in Optional(DOMAIN giftCard) \cup {Unknown},
             CreateDonationIntent(u, c, amt, g)
      PROVE  TypeOK'
  <2>. DEFINE o == NewKey(Intent, object)
              row == [paymentEntity |-> "campaign_donation",
                      value |-> amt,
                      userId |-> u, receiverId |-> None, campaignId |-> c,
                      giftCardId |-> g, donationId |-> None, part |-> "whole",
                      destination |-> IF ActiveCollaboration(c)
                                      THEN "platform" ELSE "fundraiser"]
  <2>1. amt \in Nat
    BY AmountAssumption
  <2>2. g \in Optional(GiftCard) \cup {Unknown}
    BY DEF Optional, TypeOK, IsTable
  <2>3. row \in ObjectRow
    BY <2>1, <2>2 DEF ObjectRow, PaymentEntity, Part, Account, Optional
  <2>4. o \in Object
    BY <1>1 DEF CreateDonationIntent, Object, NewKey, HasRoom
  <2>5. object' = Put(object, o, row)
    BY <1>1 DEF CreateDonationIntent
  <2>. HIDE DEF o, row
  <2>6. IsTable(object', Object, ObjectRow)
    BY <2>3, <2>4, <2>5 DEF TypeOK, IsTable, Put
  <2>. QED
    BY <1>1, <2>6 DEF CreateDonationIntent, TypeOK, dbVars, ownerVars, bounds
<1>2. ASSUME NEW u \in User, NEW r \in User \cup {Unknown}, NEW amt \in Amount,
             CreateGiftCardIntent(u, r, amt)
      PROVE  TypeOK'
  <2>. DEFINE o == NewKey(Intent, object)
              row == [paymentEntity |-> "gift_card",
                      value |-> amt,
                      userId |-> u, receiverId |-> r, campaignId |-> None,
                      giftCardId |-> None, donationId |-> None,
                      part |-> "whole", destination |-> "platform"]
  <2>1. amt \in Nat
    BY AmountAssumption
  <2>2. row \in ObjectRow
    BY <2>1 DEF ObjectRow, PaymentEntity, Part, Account, Optional
  <2>3. o \in Object
    BY <1>2 DEF CreateGiftCardIntent, Object, NewKey, HasRoom
  <2>4. object' = Put(object, o, row)
    BY <1>2 DEF CreateGiftCardIntent
  <2>. HIDE DEF o, row
  <2>5. IsTable(object', Object, ObjectRow)
    BY <2>2, <2>3, <2>4 DEF TypeOK, IsTable, Put
  <2>. QED
    BY <1>2, <2>5 DEF CreateGiftCardIntent, TypeOK, dbVars, ownerVars, bounds
<1>3. ASSUME NEW o \in Intent, PaymentSucceeds(o)
      PROVE  TypeOK'
  <2>1. IsTable(event', Object, EventState)
    BY <1>3 DEF PaymentSucceeds, TypeOK, EventState, Object, IsTable, Put
  <2>. QED
    BY <1>3, <2>1 DEF PaymentSucceeds, TypeOK, dbVars, ownerVars, bounds
<1>4. ASSUME NEW u \in User, NEW g \in GiftCard, NEW c \in Campaign,
             RedeemGiftCard(u, g, c)
      PROVE  TypeOK'
  <2>. DEFINE o == NewKey(Transfer, object)
              row == [paymentEntity |-> "campaign_donation",
                      value |-> giftCard[g].amount * 100,
                      userId |-> u, receiverId |-> None, campaignId |-> c,
                      giftCardId |-> g, donationId |-> None,
                      part |-> "whole", destination |-> "fundraiser"]
  <2>1. giftCard[g].amount \in Nat
    BY <1>4 DEF RedeemGiftCard, TypeOK, IsTable, GiftCardRow
  <2>2. giftCard[g].amount * 100 \in Nat
    BY <2>1
  <2>3. row \in ObjectRow
    BY <2>1, <2>2 DEF ObjectRow, PaymentEntity, Part, Account, Optional
  <2>4. o \in Object
    BY <1>4 DEF RedeemGiftCard, Object, NewKey, HasRoom
  <2>5. object' = Put(object, o, row) /\ event' = Put(event, o, "due")
    BY <1>4 DEF RedeemGiftCard
  <2>. HIDE DEF o, row
  <2>6. /\ IsTable(object', Object, ObjectRow)
        /\ IsTable(event', Object, EventState)
    BY <2>3, <2>4, <2>5, ObjectTypes DEF EventState
  <2>. QED
    BY <1>4, <2>6 DEF RedeemGiftCard, TypeOK, dbVars, ownerVars, bounds
<1>5. ASSUME NEW o \in Object, Deliver(o)
      PROVE  TypeOK'
  <2>1. IsTable(delivery', Delivery, DeliveryRow)
    BY <1>5, NewDeliveryType DEF Deliver
  <2>2. IsTable(event', Object, EventState)
    BY <1>5 DEF Deliver, TypeOK, IsTable, EventState
  <2>. QED
    BY <1>5, <2>1, <2>2 DEF Deliver, TypeOK, dbVars, ownerVars, bounds
<1>6. ASSUME NEW o \in Object, Redeliver(o)
      PROVE  TypeOK'
  <2>1. IsTable(delivery', Delivery, DeliveryRow)
    BY <1>6, NewDeliveryType DEF Redeliver
  <2>2. duplicates' \in 0..MaxDuplicates
    BY <1>6, BoundAssumption DEF Redeliver, TypeOK
  <2>. QED
    BY <1>6, <2>1, <2>2 DEF Redeliver, TypeOK, dbVars, ownerVars, stripeVars
<1>7. ASSUME NEW a \in Delivery, IgnoreObject(a)
      PROVE  TypeOK'
  <2>1. IsTable(delivery', Delivery, DeliveryRow)
    BY <1>7, MoveType DEF IgnoreObject, At, Live, Optional
  <2>. QED
    BY <1>7, <2>1 DEF IgnoreObject, TypeOK, dbVars, ownerVars, bounds, stripeVars
<1>8. ASSUME NEW a \in Delivery, StoreGiftCard(a)
      PROVE  TypeOK'
  <2>. DEFINE m == ObjectOf(a)
              row == [stripeTransferGroupId |-> delivery[a].object,
                      amount |-> WholeRinggit(m.value),
                      senderId |-> m.userId,
                      receiverId |-> m.receiverId, campaignDonationId |-> None]
              g == NewKey(GiftCard, giftCard)
  <2>1. a \in DOMAIN delivery
    BY <1>8 DEF StoreGiftCard, At
  <2>2. m \in ObjectRow /\ delivery[a].object \in Object
    BY <2>1, ObjectOfType
  <2>3. row \in GiftCardRow
    <3>1. m.receiverId # Unknown
      BY <1>8 DEF StoreGiftCard
    <3>2. WholeRinggit(m.value) \in Nat
      BY <2>2, WholeRinggitBounds DEF ObjectRow
    <3>. QED
      BY <2>2, <3>1, <3>2 DEF ObjectRow, GiftCardRow, Optional
  <2>4. g \in GiftCard
    BY <1>8 DEF StoreGiftCard, NewKey, HasRoom
  <2>5. giftCard' = Put(giftCard, g, row)
    BY <1>8 DEF StoreGiftCard
  <2>. HIDE DEF m, row, g
  <2>6. IsTable(giftCard', GiftCard, GiftCardRow)
    BY <2>3, <2>4, <2>5 DEF TypeOK, IsTable, Put
  <2>7. IsTable(delivery', Delivery, DeliveryRow)
    BY <1>8, <2>1, MoveType DEF StoreGiftCard, Live, Optional
  <2>. QED
    BY <1>8, <2>6, <2>7 DEF StoreGiftCard, TypeOK, bounds, stripeVars, ownerVars
<1>9. ASSUME NEW a \in Delivery, StoreDonation(a)
      PROVE  TypeOK'
  <2>. DEFINE m == ObjectOf(a)
              d == NewKey(Donation, donation)
  <2>1. a \in DOMAIN delivery
    BY <1>9 DEF StoreDonation, At
  <2>2. m \in ObjectRow /\ delivery[a].object \in Object
    BY <2>1, ObjectOfType
  <2>3. DonationFor(a) \in DonationRow
    <3>1. WholeRinggit(m.value) \in Nat
      BY <2>2, WholeRinggitBounds DEF ObjectRow
    <3>. QED
      BY <2>2, <3>1 DEF DonationFor, ObjectRow, DonationRow
  <2>4. d \in Donation
    BY <1>9 DEF StoreDonation, NewKey, HasRoom
  <2>5. IsTable(donation', Donation, DonationRow)
    BY <1>9, <2>3, <2>4 DEF StoreDonation, TypeOK, IsTable, Put
  <2>6. giftCard' = GiftCardsAfter(m.giftCardId, d)
    BY <1>9 DEF StoreDonation
  <2>7. IsTable(giftCard', GiftCard, GiftCardRow)
    BY <2>4, <2>6 DEF GiftCardsAfter, TypeOK, IsTable, GiftCardRow, Optional
  <2>8. AfterStore(m.campaignId) \in Live /\ d \in Optional(Donation)
    BY <2>4 DEF AfterStore, Live, Optional
  <2>9. IsTable(delivery', Delivery, DeliveryRow)
    BY <1>9, <2>1, <2>8, MoveType DEF StoreDonation
  <2>. QED
    BY <1>9, <2>5, <2>7, <2>9 DEF StoreDonation, TypeOK, bounds, stripeVars,
                                  ownerVars
<1>10. ASSUME NEW a \in Delivery, SplitDonation(a)
       PROVE  TypeOK'
  <2>. DEFINE m == ObjectOf(a)
              d == delivery[a].donationId
              r == collaboration[m.campaignId].reward
  <2>1. a \in DOMAIN delivery /\ delivery[a].pc = "split"
    BY <1>10 DEF SplitDonation, At
  <2>2. m \in ObjectRow
    BY <2>1, ObjectOfType
  <2>3. d \in Donation
    BY <2>1 DEF IInv, DoneSoFar, TypeOK, IsTable, DeliveryRow, Optional
  <2>4. r \in Int
    BY <2>1, AmountAssumption
       DEF IInv, DoneSoFar, TypeOK, IsTable, CollaborationRow
  <2>5. m.value \in Nat
    BY <2>2 DEF ObjectRow
  <2>6. m.value * r \in Int /\ m.value * (Whole - r) \in Int
    BY <2>4, <2>5, AmountAssumption
  <2>7. outbox' = outbox \cup SplitRequests(d, m.value, r)
    BY <1>10 DEF SplitDonation
  <2>. HIDE DEF m, d, r
  <2>8. SplitRequests(d, m.value, r) \subseteq Request
    BY <2>3, <2>6 DEF SplitRequests, Request, Part
  <2>9. IsTable(delivery', Delivery, DeliveryRow)
    BY <1>10, <2>1, MoveType DEF SplitDonation, Live, Optional
  <2>. QED
    BY <1>10, <2>7, <2>8, <2>9
       DEF SplitDonation, TypeOK, bounds, stripeVars, dbVars, ownerVars
<1>11. ASSUME NEW a \in Delivery, EnqueueReward(a)
       PROVE  TypeOK'
  <2>1. a \in DOMAIN delivery /\ delivery[a].pc = "enqueue"
    BY <1>11 DEF EnqueueReward, At
  <2>2. delivery[a].donationId \in Donation
    BY <2>1 DEF IInv, DoneSoFar, TypeOK, IsTable, DeliveryRow, Optional
  <2>3. IsTable(delivery', Delivery, DeliveryRow)
    BY <1>11, <2>1, MoveType DEF EnqueueReward, Live, Optional
  <2>. QED
    BY <1>11, <2>2, <2>3 DEF EnqueueReward, TypeOK, bounds, stripeVars, dbVars,
                             ownerVars
<1>12. ASSUME NEW a \in Delivery, Answer(a)
       PROVE  TypeOK'
  <2>1. a \in DOMAIN delivery
    BY <1>12 DEF Answer, At
  <2>2. IsTable(delivery', Delivery, DeliveryRow)
    BY <1>12, <2>1, MoveType DEF Answer, Live, Optional
  <2>3. IsTable(event', Object, EventState)
    BY <1>12 DEF Answer, TypeOK, IsTable, EventState
  <2>. QED
    BY <1>12, <2>2, <2>3 DEF Answer, TypeOK, bounds, dbVars, ownerVars
<1>13. ASSUME NEW a \in Delivery, HandlerThrows(a) \/ HandlerFails(a)
       PROVE  TypeOK'
  <2>1. a \in DOMAIN delivery
    BY <1>13 DEF HandlerThrows, HandlerFails, At
  <2>2. IsTable(delivery', Delivery, DeliveryRow)
    <3>1. delivery' = [delivery EXCEPT ![a].pc = "failed"]
      BY <1>13 DEF HandlerThrows, HandlerFails
    <3>. QED
      BY <2>1, <3>1, MoveType DEF Optional
  <2>3. IsTable(event', Object, EventState)
    BY <1>13, ResendType DEF HandlerThrows, HandlerFails
  <2>4. faults' \in 0..MaxFaults
    BY <1>13, BoundAssumption DEF HandlerThrows, HandlerFails, TypeOK, bounds
  <2>. QED
    BY <1>13, <2>2, <2>3, <2>4
       DEF HandlerThrows, HandlerFails, TypeOK, dbVars, ownerVars, bounds
<1>14. ASSUME NEW q \in outbox, TransferMade(q)
       PROVE  TypeOK'
  <2>. DEFINE o == NewKey(Transfer, object)
              row == [paymentEntity |-> "none",
                      value |-> Sen(q.share), userId |-> None,
                      receiverId |-> None, campaignId |-> None,
                      giftCardId |-> None, donationId |-> q.donationId,
                      part |-> q.part, destination |-> "fundraiser"]
  <2>1. q \in Request /\ Sen(q.share) \in Nat
    <3>1. q \in Request /\ q.share \in Int
      BY DEF TypeOK, Request
    <3>. QED
      BY <1>14, <3>1, SenOfMovable DEF TransferMade
  <2>2. row \in ObjectRow
    BY <2>1 DEF Request, ObjectRow, PaymentEntity, Account, Optional
  <2>3. o \in Object
    BY <1>14 DEF TransferMade, Object, NewKey, HasRoom
  <2>4. object' = Put(object, o, row) /\ event' = Put(event, o, "due")
    BY <1>14 DEF TransferMade
  <2>. HIDE DEF o, row
  <2>5. /\ IsTable(object', Object, ObjectRow)
        /\ IsTable(event', Object, EventState)
    BY <2>2, <2>3, <2>4, ObjectTypes DEF EventState
  <2>. QED
    BY <1>14, <2>5 DEF TransferMade, TypeOK, dbVars, ownerVars, bounds
<1>15. ASSUME NEW q \in outbox, TransferRefused(q)
       PROVE  TypeOK'
  BY <1>15 DEF TransferRefused, TypeOK, stripeVars, dbVars, ownerVars, bounds
<1>16. ASSUME Crash
       PROVE  TypeOK'
  <2>1. \A a \in DOMAIN delivery :
            /\ delivery[a] \in DeliveryRow
            /\ [delivery[a] EXCEPT !.pc = "dead"] \in DeliveryRow
    BY DEF TypeOK, IsTable, DeliveryRow
  <2>2. IsTable(delivery', Delivery, DeliveryRow)
    BY <1>16, <2>1 DEF Crash, TypeOK, IsTable
  <2>3. IsTable(event', Object, EventState)
    BY <1>16, ResendType DEF Crash
  <2>4. faults' \in 0..MaxFaults
    BY <1>16, BoundAssumption DEF Crash, TypeOK
  <2>. QED
    BY <1>16, <2>2, <2>3, <2>4 DEF Crash, TypeOK, dbVars, ownerVars
<1>17. ASSUME NEW c \in Campaign, NEW r \in Reward,
              LaunchCollaboration(c, r) \/ UpdateReward(c, r)
       PROVE  TypeOK'
  <2>1. IsTable(collaboration', Campaign, CollaborationRow)
    <3>1. CASE LaunchCollaboration(c, r)
      BY <3>1 DEF LaunchCollaboration, TypeOK, CollaborationRow, IsTable, Put
    <3>2. CASE UpdateReward(c, r)
      BY <3>2 DEF UpdateReward, TypeOK, IsTable, CollaborationRow
    <3>. QED
      BY <1>17, <3>1, <3>2
  <2>. QED
    BY <1>17, <2>1
       DEF LaunchCollaboration, UpdateReward, TypeOK, stripeVars, bounds, ownerVars
<1>18. ASSUME NEW c \in Campaign, CancelCollaboration(c)
       PROVE  TypeOK'
  <2>1. IsTable(collaboration', Campaign, CollaborationRow)
    BY <1>18 DEF CancelCollaboration, TypeOK, IsTable, CollaborationRow
  <2>. QED
    BY <1>18, <2>1 DEF CancelCollaboration, TypeOK, stripeVars, bounds, ownerVars
<1>19. ASSUME NEW f \in Fundraiser, OpenAccount(f)
       PROVE  TypeOK'
  BY <1>19 DEF OpenAccount, TypeOK, stripeVars, bounds
<1>20. ASSUME NEW f \in Fundraiser, NEW c \in Campaign, ChangeOwner(c, f)
       PROVE  TypeOK'
  BY <1>20 DEF ChangeOwner, TypeOK, stripeVars, bounds
<1>21. CASE UNCHANGED vars
  BY <1>21 DEF vars, ownerVars, TypeOK
<1>. QED
  BY <1>1, <1>2, <1>3, <1>4, <1>5, <1>6, <1>7, <1>8, <1>9, <1>10, <1>11,
     <1>12, <1>13, <1>14, <1>15, <1>16, <1>17, <1>18, <1>19,
     <1>20, <1>21
     DEF Next, Pay, Handle, Collaborate, Own

-----------------------------------------------------------------------------
(* Nothing recorded is ever forgotten                                      *)

\* What every step leaves as it is: rows stay, with what identifies them.
Grows ==
    /\ \A o \in DOMAIN object : o \in DOMAIN object' /\ object'[o] = object[o]
    /\ DOMAIN event \subseteq DOMAIN event'
    /\ \A a \in DOMAIN delivery :
          a \in DOMAIN delivery' /\ delivery'[a].object = delivery[a].object
    /\ \A d \in DOMAIN donation :
          d \in DOMAIN donation' /\ donation'[d] = donation[d]
    /\ \A g \in DOMAIN giftCard :
          /\ g \in DOMAIN giftCard'
          /\ giftCard'[g].stripeTransferGroupId
                 = giftCard[g].stripeTransferGroupId
    /\ jobs \subseteq jobs'
    /\ DOMAIN collaboration \subseteq DOMAIN collaboration'

\* Every step only adds to what Stripe and the database remember.
LEMMA StepGrows == IInv /\ [Next]_vars => Grows
<1>. SUFFICES ASSUME IInv, [Next]_vars PROVE Grows
  OBVIOUS
<1>. USE DEF Grows
<1>1. ASSUME Pay
      PROVE  Grows
  <2>1. ASSUME NEW u \in User, NEW c \in Campaign, NEW amt \in Amount,
               NEW g \in Optional(DOMAIN giftCard) \cup {Unknown},
               CreateDonationIntent(u, c, amt, g)
        PROVE  Grows
    BY <2>1 DEF Put, CreateDonationIntent, dbVars, NewKey, HasRoom
  <2>2. ASSUME NEW u \in User, NEW r \in User \cup {Unknown}, NEW amt \in Amount,
               CreateGiftCardIntent(u, r, amt)
        PROVE  Grows
    BY <2>2 DEF Put, CreateGiftCardIntent, dbVars, NewKey, HasRoom
  <2>3. ASSUME NEW o \in Intent, PaymentSucceeds(o)
        PROVE  Grows
    BY <2>3 DEF Put, PaymentSucceeds, dbVars
  <2>4. ASSUME NEW u \in User, NEW g \in GiftCard, NEW c \in Campaign,
               RedeemGiftCard(u, g, c)
        PROVE  Grows
    BY <2>4 DEF Put, RedeemGiftCard, dbVars, NewKey, HasRoom
  <2>. QED
    BY <1>1, <2>1, <2>2, <2>3, <2>4 DEF Pay
<1>2. ASSUME NEW o \in Object, Deliver(o) \/ Redeliver(o)
      PROVE  Grows
  BY <1>2
     DEF Put, Deliver, Redeliver, NewDelivery, dbVars, stripeVars, NewKey,
         HasRoom
<1>3. ASSUME NEW a \in Delivery, Handle(a)
      PROVE  Grows
  <2>1. CASE IgnoreObject(a)
    BY <2>1 DEF IgnoreObject, dbVars, stripeVars
  <2>2. CASE StoreGiftCard(a)
    BY <2>2 DEF Put, StoreGiftCard, stripeVars, NewKey, HasRoom
  <2>3. CASE StoreDonation(a)
    <3>1. \A d \in DOMAIN donation :
             d \in DOMAIN donation' /\ donation'[d] = donation[d]
      BY <2>3 DEF Put, StoreDonation, NewKey, HasRoom
    <3>2. \A g \in DOMAIN giftCard :
             /\ g \in DOMAIN giftCard'
             /\ giftCard'[g].stripeTransferGroupId
                    = giftCard[g].stripeTransferGroupId
      <4>. DEFINE g0 == ObjectOf(a).giftCardId
                  d0 == NewKey(Donation, donation)
      <4>1. giftCard' = GiftCardsAfter(g0, d0)
        BY <2>3 DEF StoreDonation
      <4>2. \A g \in DOMAIN giftCard : giftCard[g] \in GiftCardRow
        BY DEF IInv, TypeOK, IsTable
      <4>. HIDE DEF g0, d0
      <4>. QED
        BY <4>1, <4>2 DEF GiftCardsAfter, GiftCardRow
    <3>3. \A b \in DOMAIN delivery :
             b \in DOMAIN delivery' /\ delivery'[b].object = delivery[b].object
      BY <2>3 DEF StoreDonation
    <3>. QED
      BY <2>3, <3>1, <3>2, <3>3 DEF StoreDonation, stripeVars
  <2>4. CASE SplitDonation(a)
    BY <2>4 DEF SplitDonation, dbVars, stripeVars
  <2>5. CASE EnqueueReward(a)
    BY <2>5 DEF EnqueueReward, dbVars, stripeVars
  <2>6. CASE Answer(a)
    BY <2>6 DEF Answer, dbVars
  <2>. QED
    BY <1>3, <2>1, <2>2, <2>3, <2>4, <2>5, <2>6 DEF Handle
<1>4. ASSUME NEW a \in Delivery, HandlerThrows(a) \/ HandlerFails(a)
      PROVE  Grows
  <2>1. /\ delivery' = [delivery EXCEPT ![a].pc = "failed"]
        /\ MustResend({a})
        /\ UNCHANGED <<object, donation, giftCard, collaboration, jobs>>
    BY <1>4 DEF HandlerThrows, HandlerFails, dbVars
  <2>. QED
    BY <2>1 DEF MustResend
<1>5. ASSUME NEW q \in outbox, TransferMade(q) \/ TransferRefused(q)
      PROVE  Grows
  <2>1. CASE TransferMade(q)
    BY <2>1 DEF Put, TransferMade, dbVars, NewKey, HasRoom
  <2>2. CASE TransferRefused(q)
    BY <2>2 DEF TransferRefused, dbVars, stripeVars
  <2>. QED
    BY <1>5, <2>1, <2>2
<1>6. ASSUME Crash
      PROVE  Grows
  <2>1. \A a \in DOMAIN delivery : delivery[a] \in DeliveryRow
    BY DEF IInv, TypeOK, IsTable
  <2>. QED
    BY <1>6, <2>1 DEF Crash, MustResend, dbVars, DeliveryRow
<1>7. ASSUME NEW c \in Campaign, NEW r \in Reward,
             LaunchCollaboration(c, r) \/ UpdateReward(c, r)
      PROVE  Grows
  BY <1>7 DEF Put, LaunchCollaboration, UpdateReward, stripeVars
<1>8. ASSUME NEW c \in Campaign, CancelCollaboration(c)
      PROVE  Grows
  BY <1>8 DEF CancelCollaboration, stripeVars
<1>9. ASSUME NEW f \in Fundraiser,
             OpenAccount(f) \/ \E c \in Campaign : ChangeOwner(c, f)
      PROVE  Grows
  BY <1>9 DEF OpenAccount, ChangeOwner, stripeVars
<1>10. CASE UNCHANGED vars
  BY <1>10 DEF vars
<1>. QED
  BY <1>1, <1>2, <1>3, <1>4, <1>5, <1>6, <1>7, <1>8, <1>9, <1>10
     DEF Next, Collaborate, Own

\* Work that is done stays done.
LEMMA RecordedStays ==
    ASSUME IInv, Grows, NEW o \in DOMAIN object, Recorded(o)
    PROVE  Recorded(o)'
BY DEF Grows, Recorded, DonationsOf

-----------------------------------------------------------------------------
(* Donations                                                               *)

\* Only createDonation writes donations.
LEMMA WhoStoresDonations ==
    [Next]_vars => \/ UNCHANGED donation
                   \/ \E a \in Delivery : StoreDonation(a)
BY DEF Next, Pay, CreateDonationIntent, CreateGiftCardIntent, PaymentSucceeds,
   RedeemGiftCard, Deliver, Redeliver, Handle, IgnoreObject, StoreGiftCard,
   SplitDonation, EnqueueReward, Answer, HandlerThrows, HandlerFails, TransferMade,
   TransferRefused, Crash, Collaborate, LaunchCollaboration, UpdateReward,
   CancelCollaboration, Own, OpenAccount, ChangeOwner, vars, dbVars

\* What createDonation does to donations and its delivery.
LEMMA StoreDonationEffect ==
    ASSUME IInv, NEW a \in Delivery, StoreDonation(a)
    PROVE  \E d \in Donation \ DOMAIN donation :
              /\ a \in DOMAIN delivery
              /\ delivery[a].pc = "received"
              /\ EntityOf(a) = "campaign_donation"
              /\ DOMAIN donation' = DOMAIN donation \cup {d}
              /\ donation'[d] = DonationFor(a)
              /\ DOMAIN delivery' = DOMAIN delivery
              /\ delivery'[a].donationId = d
              /\ delivery'[a].pc = AfterStore(ObjectOf(a).campaignId)
              /\ delivery'[a].object = delivery[a].object
              /\ \A b \in DOMAIN delivery \ {a} : delivery'[b] = delivery[b]
<1>1. PICK d \in Donation \ DOMAIN donation : d = NewKey(Donation, donation)
  BY DEF StoreDonation, NewKey, HasRoom
<1>2. donation' = Put(donation, d, DonationFor(a))
  BY <1>1 DEF StoreDonation
<1>3. a \in DOMAIN delivery /\ delivery[a].pc = "received"
      /\ EntityOf(a) = "campaign_donation"
  BY DEF StoreDonation, At
<1>. DEFINE row == [pc |-> AfterStore(ObjectOf(a).campaignId),
                    object |-> delivery[a].object, donationId |-> d]
<1>4. delivery' = [delivery EXCEPT ![a] = row]
  BY <1>1 DEF StoreDonation
<1>5. /\ DOMAIN delivery' = DOMAIN delivery
      /\ delivery'[a] = row
      /\ \A b \in DOMAIN delivery \ {a} : delivery'[b] = delivery[b]
  BY <1>3, <1>4
<1>6. DOMAIN donation' = DOMAIN donation \cup {d} /\ donation'[d] = DonationFor(a)
  BY <1>2 DEF Put
<1>7. /\ delivery'[a].donationId = d
      /\ delivery'[a].pc = AfterStore(ObjectOf(a).campaignId)
      /\ delivery'[a].object = delivery[a].object
  BY <1>5
<1>. HIDE DEF row
<1>. QED
  BY <1>3, <1>5, <1>6, <1>7

\* Stored donations keep their payment, and a new one has it.
LEMMA PaidForStep == IInv /\ [Next]_vars => EveryDonationIsPaidFor'
<1>. SUFFICES ASSUME IInv, [Next]_vars PROVE EveryDonationIsPaidFor'
  OBVIOUS
<1>1. Grows
  BY StepGrows
<1>2. CASE UNCHANGED donation
  BY <1>1, <1>2 DEF Grows, IInv, EveryDonationIsPaidFor, DeliveriesHaveEvents
<1>3. ASSUME NEW a \in Delivery, StoreDonation(a)
      PROVE  EveryDonationIsPaidFor'
  <2>. DEFINE o == delivery[a].object
              Paid(d) == LET p == donation[d].paymentIntentId IN
                         /\ p \in DOMAIN event
                         /\ object[p].paymentEntity = "campaign_donation"
                         /\ 100 * donation[d].amount <= object[p].value
                         /\ object[p].value < 100 * donation[d].amount + 100
                         /\ donation[d].userId = object[p].userId
                         /\ donation[d].campaignId = object[p].campaignId
  <2>1. PICK d \in Donation \ DOMAIN donation :
            /\ a \in DOMAIN delivery
            /\ EntityOf(a) = "campaign_donation"
            /\ DOMAIN donation' = DOMAIN donation \cup {d}
            /\ donation'[d] = DonationFor(a)
    BY <1>3, StoreDonationEffect
  <2>2. o \in DOMAIN event' /\ object'[o] = object[o]
    BY <1>1, <2>1 DEF IInv, DeliveriesHaveEvents, Grows
  <2>v. object[o].value \in Nat
    BY <2>1, ObjectOfType DEF ObjectOf, ObjectRow
  <2>w. /\ 100 * WholeRinggit(object[o].value) <= object[o].value
        /\ object[o].value < 100 * WholeRinggit(object[o].value) + 100
    BY <2>v, WholeRinggitBounds
  <2>3. Paid(d)'
    BY <2>1, <2>2, <2>w DEF DonationFor, ObjectOf, EntityOf
  <2>4. \A c \in DOMAIN donation : Paid(c)'
    BY <1>1 DEF Grows, IInv, EveryDonationIsPaidFor, DeliveriesHaveEvents
  <2>. QED
    BY <2>1, <2>3, <2>4 DEF EveryDonationIsPaidFor
<1>. QED
  BY <1>2, <1>3, WhoStoresDonations

-----------------------------------------------------------------------------
(* Deliveries                                                              *)

\* The object a delivery is about stays what it was.
LEMMA ObjectStays ==
    ASSUME IInv, Grows, NEW a \in DOMAIN delivery
    PROVE  ObjectOf(a)' = ObjectOf(a) /\ EntityOf(a)' = EntityOf(a)
BY DEF IInv, DeliveriesHaveEvents, Grows, EntityOf, ObjectOf

\* A delivery that a step leaves alone has done no less.
LEMMA UntouchedStaysDone ==
    ASSUME IInv, Grows, NEW b \in DOMAIN delivery, delivery'[b] = delivery[b]
    PROVE  DoneSoFar(b)'
<1>1. delivery[b].object \in DOMAIN object /\ DoneSoFar(b)
  BY DEF IInv, DeliveriesHaveEvents
<1>2. EntityOf(b)' = EntityOf(b) /\ ObjectOf(b)' = ObjectOf(b)
  BY ObjectStays
<1>3. \A o \in DOMAIN object : Recorded(o) => Recorded(o)'
  BY RecordedStays
<1>. QED
  BY <1>1, <1>2, <1>3 DEF DoneSoFar, Grows, Recorded

\* So has one that is over.
LEMMA OverIsDone ==
    ASSUME NEW b, delivery'[b].pc \in {"answered", "failed", "dead"}
    PROVE  DoneSoFar(b)'
BY DEF DoneSoFar, Recorded

\* A step of delivery a that moves its pc and nothing else of deliveries.
MovesTo(a, pc) ==
    /\ a \in DOMAIN delivery
    /\ delivery' = [delivery EXCEPT ![a].pc = pc]

\* Moving a delivery to another pc changes that delivery's pc only.
LEMMA MoveReads ==
    ASSUME IInv, NEW a, NEW pc, MovesTo(a, pc)
    PROVE  /\ DOMAIN delivery' = DOMAIN delivery
           /\ delivery'[a].pc = pc
           /\ delivery'[a].object = delivery[a].object
           /\ delivery'[a].donationId = delivery[a].donationId
           /\ \A b \in DOMAIN delivery \ {a} : delivery'[b] = delivery[b]
<1>1. delivery[a] \in DeliveryRow
  BY DEF IInv, TypeOK, IsTable, MovesTo
<1>. QED
  BY <1>1 DEF MovesTo, DeliveryRow

\* A handler at an await has done all that comes before it.
LEMMA DoneStep ==
    IInv /\ [Next]_vars => \A a \in DOMAIN delivery' : DoneSoFar(a)'
<1>. SUFFICES ASSUME IInv, [Next]_vars, NEW b \in DOMAIN delivery'
              PROVE  DoneSoFar(b)'
  OBVIOUS
<1>g. Grows
  BY StepGrows
<1>u. b \in DOMAIN delivery /\ delivery'[b] = delivery[b] => DoneSoFar(b)'
  BY <1>g, UntouchedStaysDone
<1>1. CASE UNCHANGED delivery
  BY <1>1, <1>u
<1>2. ASSUME NEW o \in Object, NewDelivery(o)
      PROVE  DoneSoFar(b)'
  <2>1. CASE b \in DOMAIN delivery
    BY <1>2, <1>u, <2>1 DEF NewDelivery, Put, NewKey, HasRoom
  <2>2. CASE b \notin DOMAIN delivery
    BY <1>2, <2>2 DEF NewDelivery, Put, DoneSoFar
  <2>. QED
    BY <2>1, <2>2
<1>3. ASSUME NEW a \in Delivery, StoreDonation(a)
      PROVE  DoneSoFar(b)'
  <2>1. PICK d \in Donation \ DOMAIN donation :
            /\ a \in DOMAIN delivery
            /\ EntityOf(a) = "campaign_donation"
            /\ DOMAIN delivery' = DOMAIN delivery
            /\ delivery'[a].donationId = d
            /\ delivery'[a].pc = AfterStore(ObjectOf(a).campaignId)
            /\ delivery'[a].object = delivery[a].object
            /\ \A c \in DOMAIN delivery \ {a} : delivery'[c] = delivery[c]
    BY <1>3, StoreDonationEffect
  <2>2. CASE b = a
    <3>1. EntityOf(a)' = "campaign_donation" /\ ObjectOf(a)' = ObjectOf(a)
      BY <1>g, <2>1, ObjectStays
    <3>2. d # None
      BY NoneAssumption
    <3>3. delivery'[a].pc = "split"
              => ObjectOf(a).campaignId \in DOMAIN collaboration'
      BY <1>g, <2>1 DEF AfterStore, ActiveCollaboration, Grows
    <3>. QED
      BY <2>1, <2>2, <3>1, <3>2, <3>3 DEF DoneSoFar, AfterStore
  <2>. QED
    BY <1>u, <2>1, <2>2
<1>4. ASSUME NEW a \in Delivery, IgnoreObject(a)
      PROVE  DoneSoFar(b)'
  <2>1. MovesTo(a, "answer") /\ EntityOf(a) = "none"
    BY <1>4 DEF IgnoreObject, At, MovesTo
  <2>2. CASE b = a
    <3>1. EntityOf(a)' = "none"
      BY <1>g, <2>1, ObjectStays DEF MovesTo
    <3>. QED
      BY <2>1, <2>2, <3>1, MoveReads
         DEF DoneSoFar, Recorded, EntityOf, ObjectOf
  <2>. QED
    BY <1>u, <2>1, <2>2, MoveReads
<1>5. ASSUME NEW a \in Delivery, StoreGiftCard(a)
      PROVE  DoneSoFar(b)'
  <2>. DEFINE o == delivery[a].object
  <2>1. MovesTo(a, "answer") /\ EntityOf(a) = "gift_card"
    BY <1>5 DEF StoreGiftCard, At, MovesTo
  <2>2. CASE b = a
    <3>1. EntityOf(a)' = "gift_card"
      BY <1>g, <2>1, ObjectStays DEF MovesTo
    <3>2. \E g \in DOMAIN giftCard' : giftCard'[g].stripeTransferGroupId = o
      BY <1>5 DEF StoreGiftCard, Put
    <3>. QED
      BY <2>1, <2>2, <3>1, <3>2, MoveReads
         DEF DoneSoFar, Recorded, EntityOf, ObjectOf
  <2>. QED
    BY <1>u, <2>1, <2>2, MoveReads
<1>6. ASSUME NEW a \in Delivery, SplitDonation(a)
      PROVE  DoneSoFar(b)'
  <2>1. MovesTo(a, "enqueue") /\ delivery[a].pc = "split"
    BY <1>6 DEF SplitDonation, At, MovesTo
  <2>2. CASE b = a
    <3>1. EntityOf(a) = "campaign_donation" /\ delivery[a].donationId # None
      BY <2>1 DEF IInv, DoneSoFar, MovesTo
    <3>2. EntityOf(a)' = "campaign_donation"
      BY <1>g, <2>1, <3>1, ObjectStays DEF MovesTo
    <3>. QED
      BY <2>1, <2>2, <3>1, <3>2, MoveReads DEF DoneSoFar
  <2>. QED
    BY <1>u, <2>1, <2>2, MoveReads
<1>7. ASSUME NEW a \in Delivery, EnqueueReward(a)
      PROVE  DoneSoFar(b)'
  <2>. DEFINE o == delivery[a].object
              d == delivery[a].donationId
  <2>1. MovesTo(a, "answer") /\ delivery[a].pc = "enqueue" /\ d \in jobs'
    BY <1>7 DEF EnqueueReward, At, MovesTo
  <2>2. CASE b = a
    <3>1. EntityOf(a) = "campaign_donation" /\ d # None
      BY <2>1 DEF IInv, DoneSoFar, MovesTo
    <3>2. d \in DOMAIN donation /\ donation[d].paymentIntentId = o
      BY <2>1, <3>1 DEF IInv, DeliveriesStoreDonations, MovesTo
    <3>3. d \in DOMAIN donation' /\ donation'[d].paymentIntentId = o
      BY <1>g, <3>2 DEF Grows
    <3>4. EntityOf(a)' = "campaign_donation"
      BY <1>g, <2>1, <3>1, ObjectStays DEF MovesTo
    <3>5. Recorded(o)'
      BY <2>1, <3>3, <3>4, MoveReads
         DEF Recorded, DonationsOf, EntityOf, ObjectOf
    <3>. QED
      BY <2>1, <2>2, <3>5, MoveReads DEF DoneSoFar
  <2>. QED
    BY <1>u, <2>1, <2>2, MoveReads
<1>8. ASSUME NEW a \in Delivery,
             Answer(a) \/ HandlerThrows(a) \/ HandlerFails(a)
      PROVE  DoneSoFar(b)'
  <2>1. MovesTo(a, "answered") \/ MovesTo(a, "failed")
    BY <1>8 DEF Answer, HandlerThrows, HandlerFails, At, MovesTo
  <2>. QED
    BY <1>u, <2>1, MoveReads, OverIsDone
<1>9. ASSUME Crash
      PROVE  DoneSoFar(b)'
  <2>1. delivery[b] \in DeliveryRow /\ b \in DOMAIN delivery
    BY <1>9 DEF Crash, IInv, TypeOK, IsTable
  <2>2. delivery'[b] = delivery[b] \/ delivery'[b].pc = "dead"
    BY <1>9, <2>1 DEF Crash, DeliveryRow
  <2>. QED
    BY <1>u, <2>1, <2>2, OverIsDone
<1>. QED
  BY <1>1, <1>2, <1>3, <1>4, <1>5, <1>6, <1>7, <1>8, <1>9
     DEF Next, Pay, CreateDonationIntent, CreateGiftCardIntent,
         PaymentSucceeds, RedeemGiftCard, Deliver, Redeliver, Handle,
         TransferMade, TransferRefused, Collaborate, LaunchCollaboration,
         UpdateReward, CancelCollaboration, Own, OpenAccount, ChangeOwner, vars

\* Who writes events.
LEMMA WhoWritesEvents ==
    [Next]_vars =>
        \/ UNCHANGED event
        \/ \E o \in Intent : PaymentSucceeds(o)
        \/ \E u \in User, g \in GiftCard, c \in Campaign : RedeemGiftCard(u, g, c)
        \/ \E o \in Object : Deliver(o)
        \/ \E a \in Delivery : Answer(a)
        \/ \E A : MustResend(A)
        \/ \E q \in outbox : TransferMade(q)
BY DEF Next, Pay, CreateDonationIntent, CreateGiftCardIntent, Redeliver, Handle,
       IgnoreObject, StoreGiftCard, StoreDonation, SplitDonation, EnqueueReward,
       HandlerThrows, HandlerFails, TransferRefused, Crash, Collaborate,
       LaunchCollaboration, UpdateReward, CancelCollaboration, Own, OpenAccount,
       ChangeOwner, vars, stripeVars

\* Events are of objects Stripe has; deliveries are of events.
LEMMA EventStep == IInv /\ [Next]_vars => DeliveriesHaveEvents'
<1>. SUFFICES ASSUME IInv, [Next]_vars PROVE DeliveriesHaveEvents'
  OBVIOUS
<1>g. Grows
  BY StepGrows
<1>1. DOMAIN event' \subseteq DOMAIN object'
  <2>. SUFFICES ASSUME NEW o \in DOMAIN event' \ DOMAIN event
                PROVE  o \in DOMAIN object'
    BY <1>g DEF Grows, IInv, DeliveriesHaveEvents
  <2>1. ASSUME NEW i \in Intent, PaymentSucceeds(i)
        PROVE  o \in DOMAIN object'
    BY <2>1 DEF PaymentSucceeds, Put
  <2>2. ASSUME NEW u \in User, NEW g \in GiftCard, NEW c \in Campaign,
               RedeemGiftCard(u, g, c)
        PROVE  o \in DOMAIN object'
    BY <2>2 DEF RedeemGiftCard, Put
  <2>3. ASSUME NEW q \in outbox, TransferMade(q)
        PROVE  o \in DOMAIN object'
    BY <2>3 DEF TransferMade, Put
  <2>. QED
    BY <2>1, <2>2, <2>3, WhoWritesEvents DEF Deliver, Answer, MustResend
<1>2. ASSUME NEW a \in DOMAIN delivery'
      PROVE  delivery'[a].object \in DOMAIN event'
  <2>1. CASE a \in DOMAIN delivery
    BY <1>g, <2>1 DEF Grows, IInv, DeliveriesHaveEvents
  <2>2. CASE a \notin DOMAIN delivery
    <3>1. PICK o \in DOMAIN event : NewDelivery(o)
      BY <2>2
         DEF Next, Pay, CreateDonationIntent, CreateGiftCardIntent,
             PaymentSucceeds, RedeemGiftCard, Deliver, Redeliver, Handle,
             IgnoreObject, StoreGiftCard, StoreDonation, SplitDonation,
             EnqueueReward, Answer, HandlerThrows, HandlerFails, TransferMade,
             TransferRefused, Crash, Collaborate, LaunchCollaboration,
             UpdateReward, CancelCollaboration, Own, OpenAccount, ChangeOwner, vars
    <3>2. delivery'[a].object = o
      BY <2>2, <3>1 DEF NewDelivery, Put
    <3>. QED
      BY <1>g, <3>1, <3>2 DEF Grows
  <2>. QED
    BY <2>1, <2>2
<1>. QED
  BY <1>1, <1>2 DEF DeliveriesHaveEvents

\* A delivery keeps the donation it stored, if it stored one.
LEMMA DonationIdStays ==
    IInv /\ [Next]_vars =>
        \A a \in DOMAIN delivery' :
            \/ a \in DOMAIN delivery /\ delivery'[a].donationId = delivery[a].donationId
            \/ a \notin DOMAIN delivery /\ delivery'[a].donationId = None
            \/ StoreDonation(a)
<1>. SUFFICES ASSUME IInv, [Next]_vars, NEW a \in DOMAIN delivery',
                     ~ StoreDonation(a)
              PROVE  \/ /\ a \in DOMAIN delivery
                        /\ delivery'[a].donationId = delivery[a].donationId
                     \/ /\ a \notin DOMAIN delivery
                        /\ delivery'[a].donationId = None
  OBVIOUS
<1>1. CASE UNCHANGED delivery
  BY <1>1
<1>2. ASSUME NEW o \in Object, NewDelivery(o)
      PROVE  \/ /\ a \in DOMAIN delivery
                /\ delivery'[a].donationId = delivery[a].donationId
             \/ /\ a \notin DOMAIN delivery
                /\ delivery'[a].donationId = None
  BY <1>2 DEF NewDelivery, Put, NewKey, HasRoom
<1>3. ASSUME NEW b \in Delivery, NEW pc, MovesTo(b, pc)
      PROVE  a \in DOMAIN delivery /\ delivery'[a].donationId = delivery[a].donationId
  BY <1>3, MoveReads
<1>4. ASSUME NEW b \in Delivery, StoreDonation(b)
      PROVE  a \in DOMAIN delivery /\ delivery'[a].donationId = delivery[a].donationId
  BY <1>4, StoreDonationEffect
<1>5. ASSUME Crash
      PROVE  a \in DOMAIN delivery /\ delivery'[a].donationId = delivery[a].donationId
  <2>1. a \in DOMAIN delivery /\ delivery[a] \in DeliveryRow
    BY <1>5 DEF Crash, IInv, TypeOK, IsTable
  <2>. QED
    BY <1>5, <2>1 DEF Crash, DeliveryRow
<1>6. ASSUME NEW b \in Delivery,
             \/ IgnoreObject(b) \/ StoreGiftCard(b) \/ SplitDonation(b)
             \/ EnqueueReward(b) \/ Answer(b) \/ HandlerThrows(b)
             \/ HandlerFails(b)
      PROVE  \E pc \in {"answer", "enqueue", "answered", "failed"} : MovesTo(b, pc)
  BY <1>6 DEF IgnoreObject, StoreGiftCard, SplitDonation, EnqueueReward,
     Answer, HandlerThrows, HandlerFails, At, MovesTo
<1>. QED
  BY <1>1, <1>2, <1>3, <1>4, <1>5, <1>6
     DEF Next, Pay, CreateDonationIntent, CreateGiftCardIntent,
         PaymentSucceeds, RedeemGiftCard, Deliver, Redeliver, Handle,
         TransferMade, TransferRefused, Collaborate, LaunchCollaboration,
         UpdateReward, CancelCollaboration, Own, OpenAccount, ChangeOwner, vars

\* Donations and the deliveries that stored them stay together.
LEMMA StoresStep == IInv /\ [Next]_vars => DeliveriesStoreDonations'
<1>. SUFFICES ASSUME IInv, [Next]_vars PROVE DeliveriesStoreDonations'
  OBVIOUS
<1>g. Grows
  BY StepGrows
<1>1. ASSUME NEW a \in DOMAIN delivery', delivery'[a].donationId # None
      PROVE  /\ delivery'[a].donationId \in DOMAIN donation'
             /\ donation'[delivery'[a].donationId].paymentIntentId
                    = delivery'[a].object
  <2>1. CASE StoreDonation(a)
    <3>1. a \in Delivery
      BY <2>1 DEF StoreDonation, At, IInv, TypeOK, IsTable
    <3>2. PICK d \in Donation \ DOMAIN donation :
              /\ DOMAIN donation' = DOMAIN donation \cup {d}
              /\ donation'[d] = DonationFor(a)
              /\ delivery'[a].donationId = d
              /\ delivery'[a].object = delivery[a].object
      BY <2>1, <3>1, StoreDonationEffect
    <3>. QED
      BY <3>2 DEF DonationFor
  <2>2. CASE /\ a \in DOMAIN delivery
             /\ delivery'[a].donationId = delivery[a].donationId
    BY <1>1, <1>g, <2>2 DEF Grows, IInv, DeliveriesStoreDonations
  <2>. QED
    BY <1>1, <2>1, <2>2, DonationIdStays
<1>2. ASSUME NEW d \in DOMAIN donation'
      PROVE  \E a \in DOMAIN delivery' : delivery'[a].donationId = d
  <2>1. CASE d \in DOMAIN donation
    <3>1. PICK a \in DOMAIN delivery : delivery[a].donationId = d
      BY <2>1 DEF IInv, DeliveriesStoreDonations
    <3>2. a \in DOMAIN delivery'
      BY <1>g, <3>1 DEF Grows
    <3>3. delivery[a].donationId # None
      BY <2>1, <3>1, NoneAssumption DEF IInv, TypeOK, IsTable
    <3>4. ~ StoreDonation(a)
      BY <3>1, <3>3 DEF StoreDonation, At, IInv, DoneSoFar
    <3>. QED
      BY <3>1, <3>2, <3>4, DonationIdStays
  <2>2. CASE d \notin DOMAIN donation
    <3>1. PICK a \in Delivery : StoreDonation(a)
      BY <1>2, <2>2, WhoStoresDonations
    <3>. QED
      BY <2>2, <3>1, StoreDonationEffect
  <2>. QED
    BY <2>1, <2>2
<1>. QED
  BY <1>1, <1>2 DEF DeliveriesStoreDonations

\* Only an answer acknowledges an event, and by then its work is done.
LEMMA AcknowledgedStep == IInv /\ [Next]_vars => AcknowledgedIsRecorded'
<1>. SUFFICES ASSUME IInv, [Next]_vars, NEW o \in DOMAIN event',
                     event'[o] = "acked"
              PROVE  Recorded(o)'
  BY DEF AcknowledgedIsRecorded
<1>g. Grows
  BY StepGrows
<1>1. CASE o \in DOMAIN event /\ event[o] = "acked"
  BY <1>g, <1>1, RecordedStays DEF IInv, AcknowledgedIsRecorded,
                                   DeliveriesHaveEvents
<1>2. ASSUME NEW a \in Delivery, Answer(a), o = delivery[a].object
      PROVE  Recorded(o)'
  BY <1>g, <1>2, RecordedStays DEF Answer, At, IInv, DoneSoFar, DeliveriesHaveEvents
<1>3. ASSUME NEW i \in Intent, PaymentSucceeds(i)
      PROVE  Recorded(o)'
  BY <1>1, <1>3 DEF PaymentSucceeds, Put
<1>4. ASSUME NEW u \in User, NEW g \in GiftCard, NEW c \in Campaign,
             RedeemGiftCard(u, g, c)
      PROVE  Recorded(o)'
  <2>1. event' = Put(event, NewKey(Transfer, object), "due")
    BY <1>4 DEF RedeemGiftCard
  <2>. QED
    BY <1>1, <2>1 DEF Put
<1>5. ASSUME NEW q \in outbox, TransferMade(q)
      PROVE  Recorded(o)'
  <2>1. event' = Put(event, NewKey(Transfer, object), "due")
    BY <1>5 DEF TransferMade
  <2>. QED
    BY <1>1, <2>1 DEF Put
<1>6. ASSUME NEW a \in Delivery, Answer(a), o # delivery[a].object
      PROVE  o \in DOMAIN event /\ event[o] = "acked"
  BY <1>6 DEF Answer
<1>7. ASSUME NEW A, MustResend(A)
      PROVE  o \in DOMAIN event /\ event[o] = "acked"
  BY <1>7 DEF MustResend
<1>8. ASSUME NEW i \in Object, Deliver(i)
      PROVE  o \in DOMAIN event /\ event[o] = "acked"
  BY <1>8 DEF Deliver
<1>. QED
  BY <1>1, <1>2, <1>3, <1>4, <1>5, <1>6, <1>7, <1>8, WhoWritesEvents

-----------------------------------------------------------------------------
(* Gift cards                                                              *)

\* The cards a payment can name: those stored, none, or one nobody has.
Cards == Optional(DOMAIN giftCard) \cup {Unknown}

\* A payment names a gift card that is stored, or no row ever.
CardsExist == \A o \in DOMAIN object : object[o].giftCardId \in Cards

CardInv ==
    /\ CardsExist
    /\ GiftCardShowsItsUse

\* Only a new payment or transfer names a card.
LEMMA CardsExistStep == IInv /\ CardsExist /\ [Next]_vars => CardsExist'
<1>. SUFFICES ASSUME IInv, CardsExist, [Next]_vars, NEW o \in DOMAIN object'
              PROVE  object'[o].giftCardId \in Cards'
  BY DEF CardsExist
<1>g. Grows
  BY StepGrows
<1>c. DOMAIN giftCard \subseteq DOMAIN giftCard'
  BY <1>g DEF Grows
<1>1. CASE o \in DOMAIN object
  BY <1>1, <1>c, <1>g DEF Grows, CardsExist, Cards, Optional
<1>. SUFFICES ASSUME o \notin DOMAIN object
              PROVE  object'[o].giftCardId \in Cards
  BY <1>1, <1>c DEF Cards, Optional
<1>2. ASSUME NEW u \in User, NEW c \in Campaign, NEW amt \in Amount,
             NEW g \in Optional(DOMAIN giftCard) \cup {Unknown},
             CreateDonationIntent(u, c, amt, g)
      PROVE  object'[o].giftCardId \in Cards
  BY <1>2 DEF CreateDonationIntent, Put, Cards
<1>3. ASSUME NEW u \in User, NEW r \in User \cup {Unknown}, NEW amt \in Amount,
             CreateGiftCardIntent(u, r, amt)
      PROVE  object'[o].giftCardId \in Cards
  BY <1>3 DEF CreateGiftCardIntent, Put, Cards, Optional
<1>4. ASSUME NEW u \in User, NEW g \in GiftCard, NEW c \in Campaign,
             RedeemGiftCard(u, g, c)
      PROVE  object'[o].giftCardId \in Cards
  BY <1>4 DEF RedeemGiftCard, Put, Cards, Optional
<1>5. ASSUME NEW q \in outbox, TransferMade(q)
      PROVE  object'[o].giftCardId \in Cards
  BY <1>5 DEF TransferMade, Put, Cards, Optional
<1>6. ~ UNCHANGED object
  OBVIOUS
<1>. QED
  BY <1>2, <1>3, <1>4, <1>5, <1>6
     DEF Next, Pay, PaymentSucceeds, Deliver, Redeliver, Handle, IgnoreObject,
         StoreGiftCard, StoreDonation, SplitDonation, EnqueueReward, Answer,
         HandlerThrows, HandlerFails, TransferRefused, Crash, Collaborate,
         LaunchCollaboration, UpdateReward, CancelCollaboration, Own,
         OpenAccount, ChangeOwner, vars, stripeVars

\* Only the webhook writes gift cards.
LEMMA WhoWritesCards ==
    [Next]_vars => \/ UNCHANGED <<donation, giftCard>>
                   \/ \E a \in Delivery : StoreGiftCard(a)
                   \/ \E a \in Delivery : StoreDonation(a)
BY DEF Next, Pay, CreateDonationIntent, CreateGiftCardIntent, PaymentSucceeds,
       RedeemGiftCard, Deliver, Redeliver, Handle, IgnoreObject, SplitDonation,
       EnqueueReward, Answer, HandlerThrows, HandlerFails, TransferMade,
       TransferRefused, Crash, Collaborate, LaunchCollaboration, UpdateReward,
       CancelCollaboration, Own, OpenAccount, ChangeOwner, vars, dbVars

\* The card a stored donation was paid with is the card of its payment, for
\* good.
LEMMA CardOfDonationStays ==
    ASSUME IInv, Grows, NEW d \in DOMAIN donation
    PROVE  /\ d \in DOMAIN donation'
           /\ object'[donation'[d].paymentIntentId].giftCardId
                  = object[donation[d].paymentIntentId].giftCardId
           /\ donation[d].paymentIntentId \in DOMAIN object
BY DEF IInv, Grows, EveryDonationIsPaidFor, DeliveriesHaveEvents

\* A new card is unused, and a donation paid with a card takes it over.
LEMMA CardUseStep == IInv /\ CardInv /\ [Next]_vars => GiftCardShowsItsUse'
<1>. SUFFICES ASSUME IInv, CardInv, [Next]_vars PROVE GiftCardShowsItsUse'
  OBVIOUS
<1>g. Grows
  BY StepGrows
<1>k. \A d \in DOMAIN donation :
          /\ d \in DOMAIN donation'
          /\ object'[donation'[d].paymentIntentId].giftCardId
                 = object[donation[d].paymentIntentId].giftCardId
  BY <1>g, CardOfDonationStays
<1>s. ASSUME UNCHANGED donation, NEW g
      PROVE  DonationsWith(g)' = DonationsWith(g)
  BY <1>k, <1>s DEF DonationsWith
<1>1. CASE UNCHANGED <<donation, giftCard>>
  BY <1>1, <1>s DEF CardInv, GiftCardShowsItsUse
<1>2. ASSUME NEW a \in Delivery, StoreGiftCard(a)
      PROVE  GiftCardShowsItsUse'
  <2>1. PICK n \in GiftCard \ DOMAIN giftCard :
            /\ DOMAIN giftCard' = DOMAIN giftCard \cup {n}
            /\ giftCard'[n].campaignDonationId = None
            /\ \A g \in DOMAIN giftCard : giftCard'[g] = giftCard[g]
    BY <1>2 DEF StoreGiftCard, Put, NewKey, HasRoom
  <2>2. UNCHANGED donation
    BY <1>2 DEF StoreGiftCard
  <2>3. DonationsWith(n) = {}
    <3>1. n # None /\ n # Unknown
      BY NoneAssumption
    <3>. QED
      BY <1>g, <2>1, <3>1, CardOfDonationStays
         DEF DonationsWith, CardInv, CardsExist, Cards, Optional
  <2>4. \A g : DonationsWith(g)' = DonationsWith(g)
    BY <1>s, <2>2
  <2>. QED
    BY <2>1, <2>3, <2>4 DEF CardInv, GiftCardShowsItsUse
<1>3. ASSUME NEW a \in Delivery, StoreDonation(a)
      PROVE  GiftCardShowsItsUse'
  <2>. DEFINE m == ObjectOf(a)
  <2>1. PICK d \in Donation \ DOMAIN donation : d = NewKey(Donation, donation)
    BY <1>3 DEF StoreDonation, NewKey, HasRoom
  <2>2. DOMAIN donation' = DOMAIN donation \cup {d}
        /\ donation'[d].paymentIntentId = delivery[a].object
    BY <1>3, <2>1 DEF StoreDonation, Put, DonationFor
  <2>3. PICK h : h = m.giftCardId
    OBVIOUS
  <2>4. object'[donation'[d].paymentIntentId].giftCardId = h
    BY <1>3, <2>2, <2>3 DEF StoreDonation, stripeVars, ObjectOf
  <2>5. ASSUME NEW g
        PROVE  DonationsWith(g)' = IF g = h THEN DonationsWith(g) \cup {d}
                                            ELSE DonationsWith(g)
    BY <1>k, <2>2, <2>4 DEF DonationsWith
  <2>6. giftCard' = GiftCardsAfter(h, d)
    BY <1>3, <2>1, <2>3 DEF StoreDonation
  <2>7. \A g \in DOMAIN giftCard : giftCard[g] \in GiftCardRow /\ g # None
    BY NoneAssumption DEF IInv, TypeOK, IsTable
  <2>8. DOMAIN giftCard' = DOMAIN giftCard
        /\ \A g \in DOMAIN giftCard :
              giftCard'[g].campaignDonationId
                  = IF g = h THEN d ELSE giftCard[g].campaignDonationId
    BY <2>6, <2>7 DEF GiftCardsAfter, GiftCardRow
  <2>. QED
    BY <2>5, <2>8 DEF CardInv, GiftCardShowsItsUse
<1>. QED
  BY <1>1, <1>2, <1>3, WhoWritesCards

-----------------------------------------------------------------------------
(* The split of a donation                                                 *)

Parts == {"rest", "reward"}

\* No two deliveries stored the same donation.
OwnDonations ==
    \A a, b \in DOMAIN delivery :
        delivery[a].donationId = delivery[b].donationId
            => a = b \/ delivery[a].donationId = None

\* Nothing of donation d was asked for yet.
Unsplit(d) == \A part \in Parts : Asked(d, part) = {} /\ Made(d, part) = {}

\* Transfers that split a donation are about one that is stored, and none of
\* a donation whose split is still to come.
SplitsAreOfDonations ==
    /\ \A q \in outbox : q.donationId \in DOMAIN donation /\ q.part \in Parts
    /\ \A o \in DOMAIN object : object[o].donationId \in Optional(DOMAIN donation)
    /\ \A a \in DOMAIN delivery :
          delivery[a].pc = "split" => Unsplit(delivery[a].donationId)

\* Each part is on its way or made, and only once.
PartsOnce ==
    \A d \in DOMAIN donation, part \in Parts :
        /\ \A q, r \in Asked(d, part) : q = r
        /\ \A o, p \in Made(d, part) : o = p
        /\ Asked(d, part) = {} \/ Made(d, part) = {}

\* The share that each part of a payment of value v has, when the reward was r.
PartShare(v, r, part) == IF part = "rest" THEN v * (Whole - r) ELSE v * r

PaidFor(d) == object[donation[d].paymentIntentId]

\* The parts of donation d were both cut with reward r.
CutWith(d, r) ==
    \A part \in Parts :
        /\ \A q \in Asked(d, part) : q.share = PartShare(PaidFor(d).value, r, part)
        /\ \A o \in Made(d, part) :
              object[o].value * Whole = PartShare(PaidFor(d).value, r, part)

\* The two parts of a donation were cut with the same reward.
CutOnce == \A d \in DOMAIN donation : \E r \in Int : CutWith(d, r)

SplitInv ==
    /\ OwnDonations
    /\ SplitsAreOfDonations
    /\ PartsOnce
    /\ CutOnce

\* Steps that ask for no transfer, make none and store no donation, and after
\* which no other delivery is about to split.
Quiet ==
    /\ outbox' \subseteq outbox
    /\ \A o \in DOMAIN object' \ DOMAIN object : object'[o].donationId = None
    /\ UNCHANGED donation
    /\ \A a \in DOMAIN delivery' :
          delivery'[a].pc = "split" =>
              a \in DOMAIN delivery /\ delivery[a].pc = "split"

\* Only StoreDonation, SplitDonation and TransferMade have to do with splits.
LEMMA WhoSplits ==
    IInv /\ [Next]_vars =>
        \/ Quiet
        \/ \E a \in Delivery : StoreDonation(a) \/ SplitDonation(a)
        \/ \E q \in outbox : TransferMade(q)
<1>. SUFFICES ASSUME IInv, [Next]_vars,
                     ~ \E a \in Delivery : StoreDonation(a) \/ SplitDonation(a),
                     ~ \E q \in outbox : TransferMade(q)
              PROVE  Quiet
  OBVIOUS
<1>. USE DEF Quiet
<1>1. ASSUME NEW u \in User, NEW c \in Campaign, NEW amt \in Amount,
             NEW g \in Optional(DOMAIN giftCard) \cup {Unknown},
             CreateDonationIntent(u, c, amt, g)
      PROVE  Quiet
  BY <1>1 DEF CreateDonationIntent, Put, dbVars
<1>2. ASSUME NEW u \in User, NEW r \in User \cup {Unknown}, NEW amt \in Amount,
             CreateGiftCardIntent(u, r, amt)
      PROVE  Quiet
  BY <1>2 DEF CreateGiftCardIntent, Put, dbVars
<1>3. ASSUME NEW u \in User, NEW g \in GiftCard, NEW c \in Campaign,
             RedeemGiftCard(u, g, c)
      PROVE  Quiet
  BY <1>3 DEF RedeemGiftCard, Put, dbVars
<1>4. CASE UNCHANGED <<object, outbox, donation, delivery>>
  BY <1>4
<1>5. ASSUME NEW o \in Object, Deliver(o) \/ Redeliver(o)
      PROVE  Quiet
  BY <1>5 DEF Deliver, Redeliver, NewDelivery, Put, dbVars, stripeVars
<1>6. ASSUME NEW a \in Delivery,
             \/ IgnoreObject(a) \/ StoreGiftCard(a) \/ EnqueueReward(a)
             \/ Answer(a) \/ HandlerThrows(a) \/ HandlerFails(a)
      PROVE  Quiet
  <2>1. \E pc \in {"answer", "answered", "failed"} : MovesTo(a, pc)
    BY <1>6 DEF IgnoreObject, StoreGiftCard, EnqueueReward, Answer,
       HandlerThrows, HandlerFails, At, MovesTo
  <2>2. UNCHANGED <<object, outbox, donation>>
    BY <1>6 DEF IgnoreObject, StoreGiftCard, EnqueueReward, Answer,
       HandlerThrows, HandlerFails, dbVars, stripeVars
  <2>3. \A b \in DOMAIN delivery' :
           delivery'[b].pc = "split" =>
               b \in DOMAIN delivery /\ delivery[b].pc = "split"
    BY <2>1, MoveReads
  <2>. QED
    BY <2>2, <2>3
<1>7. ASSUME NEW q \in outbox, TransferRefused(q)
      PROVE  Quiet
  BY <1>7 DEF TransferRefused, dbVars, stripeVars
<1>8. ASSUME Crash
      PROVE  Quiet
  <2>1. \A a \in DOMAIN delivery : delivery[a] \in DeliveryRow
    BY DEF IInv, TypeOK, IsTable
  <2>2. \A a \in DOMAIN delivery' :
           delivery'[a].pc = "split" =>
               a \in DOMAIN delivery /\ delivery[a].pc = "split"
    BY <1>8, <2>1 DEF Crash, DeliveryRow
  <2>. QED
    BY <1>8, <2>2 DEF Crash, dbVars
<1>. QED
  BY <1>1, <1>2, <1>3, <1>4, <1>5, <1>6, <1>7, <1>8
     DEF Next, Pay, PaymentSucceeds, Handle, Collaborate, LaunchCollaboration,
         UpdateReward, CancelCollaboration, Own, OpenAccount, ChangeOwner, vars,
         stripeVars, dbVars

\* What payments are worth never changes, and neither do donations' payments.
LEMMA PaidForStays ==
    ASSUME IInv, Grows, NEW d \in DOMAIN donation
    PROVE  /\ d \in DOMAIN donation'
           /\ PaidFor(d)' = PaidFor(d)
           /\ donation[d].paymentIntentId \in DOMAIN object
           /\ PaidFor(d).paymentEntity = "campaign_donation"
BY DEF IInv, Grows, EveryDonationIsPaidFor, DeliveriesHaveEvents, PaidFor

\* Each delivery stores at most one donation, and a new one.
LEMMA OwnDonationsStep == IInv /\ OwnDonations /\ [Next]_vars => OwnDonations'
<1>. SUFFICES ASSUME IInv, OwnDonations, [Next]_vars,
                     NEW a \in DOMAIN delivery', NEW b \in DOMAIN delivery',
                     delivery'[a].donationId = delivery'[b].donationId,
                     delivery'[a].donationId # None
              PROVE  a = b
  BY DEF OwnDonations
<1>1. ASSUME NEW x \in DOMAIN delivery', NEW y \in DOMAIN delivery',
             StoreDonation(x), ~ StoreDonation(y),
             delivery'[x].donationId = delivery'[y].donationId
      PROVE  FALSE
  <2>1. x \in Delivery
    BY <1>1 DEF StoreDonation, At, IInv, TypeOK, IsTable
  <2>2. PICK d \in Donation \ DOMAIN donation : delivery'[x].donationId = d
    BY <1>1, <2>1, StoreDonationEffect
  <2>3. d # None
    BY NoneAssumption
  <2>4. y \in DOMAIN delivery /\ delivery[y].donationId = d
    BY <1>1, <2>2, <2>3, DonationIdStays
  <2>. QED
    BY <2>2, <2>3, <2>4 DEF IInv, DeliveriesStoreDonations
<1>2. CASE StoreDonation(a) /\ StoreDonation(b)
  <2>1. a \in Delivery /\ b \in Delivery
    BY <1>2 DEF StoreDonation, At, IInv, TypeOK, IsTable
  <2>2. delivery'[a].donationId # delivery[a].donationId
    BY <1>2, <2>1, StoreDonationEffect
       DEF StoreDonation, At, IInv, DoneSoFar
  <2>3. a # b => delivery'[a] = delivery[a]
    BY <1>2, <2>1, StoreDonationEffect DEF StoreDonation, At
  <2>. QED
    BY <2>2, <2>3
<1>3. CASE ~ StoreDonation(a) /\ ~ StoreDonation(b)
  BY <1>3, DonationIdStays DEF OwnDonations
<1>. QED
  BY <1>1, <1>2, <1>3

\* SplitInv without what the lemma above is about, of one donation.
SplitOf(d) ==
    /\ \A part \in Parts :
          /\ \A q, r \in Asked(d, part) : q = r
          /\ \A o, p \in Made(d, part) : o = p
          /\ Asked(d, part) = {} \/ Made(d, part) = {}
    /\ \E r \in Int : CutWith(d, r)

\* A donation whose transfers are still the same, or fewer, is still split
\* once.
LEMMA FewerTransfers ==
    ASSUME IInv, Grows, NEW d \in DOMAIN donation, SplitOf(d),
           \A part \in Parts : Asked(d, part)' \subseteq Asked(d, part),
           \A part \in Parts : Made(d, part)' = Made(d, part)
    PROVE  SplitOf(d)'
<1>1. PaidFor(d)' = PaidFor(d)
  BY PaidForStays
<1>2. \A part \in Parts : \A o \in Made(d, part) : object'[o] = object[o]
  BY DEF Made, Grows
<1>3. PICK r \in Int : CutWith(d, r)
  BY DEF SplitOf
<1>4. CutWith(d, r)'
  BY <1>1, <1>2, <1>3 DEF CutWith, PartShare
<1>. QED
  BY <1>4 DEF SplitOf

\* A donation that has no transfers is split at most once.
LEMMA UnsplitIsFine ==
    ASSUME NEW d, Unsplit(d)
    PROVE  SplitOf(d)
BY DEF Unsplit, SplitOf, CutWith

\* Objects that are about no donation make no part.
LEMMA SameMade ==
    ASSUME Grows, NEW d, NEW part, d # None,
           \A o \in DOMAIN object' \ DOMAIN object : object'[o].donationId # d
    PROVE  Made(d, part)' = Made(d, part)
BY DEF Made, Grows

\* A new donation has no transfers yet.
LEMMA NewIsUnsplit ==
    ASSUME IInv, SplitsAreOfDonations, NEW d \in Donation \ DOMAIN donation
    PROVE  Unsplit(d)
<1>1. d # None
  BY NoneAssumption
<1>. QED
  BY <1>1 DEF SplitsAreOfDonations, Unsplit, Asked, Made, Optional

\* SplitOf of every donation, and what splits are about.
AllSplits == SplitsAreOfDonations /\ \A d \in DOMAIN donation : SplitOf(d)

\* Quiet steps leave the transfers of donations alone, or lose some.
LEMMA QuietSplits ==
    ASSUME IInv, AllSplits, Grows, Quiet,
           \A a \in DOMAIN delivery' \cap DOMAIN delivery :
              delivery'[a].donationId = delivery[a].donationId
    PROVE  AllSplits'
<1>1. ASSUME NEW d, d # None, NEW part
      PROVE  /\ Asked(d, part)' \subseteq Asked(d, part)
             /\ Made(d, part)' = Made(d, part)
  <2>1. Asked(d, part)' \subseteq Asked(d, part)
    BY DEF Quiet, Asked
  <2>. QED
    BY <1>1, <2>1, SameMade DEF Quiet
<1>2. ASSUME NEW d \in DOMAIN donation'
      PROVE  SplitOf(d)'
  <2>1. d \in DOMAIN donation /\ d # None
    BY NoneAssumption DEF Quiet, IInv, TypeOK, IsTable
  <2>. QED
    BY <1>1, <2>1, FewerTransfers DEF AllSplits
<1>3. SplitsAreOfDonations'
  <2>1. \A q \in outbox' : q.donationId \in DOMAIN donation' /\ q.part \in Parts
    BY DEF Quiet, AllSplits, SplitsAreOfDonations
  <2>2. \A o \in DOMAIN object' : object'[o].donationId \in Optional(DOMAIN donation')
    BY DEF Quiet, Grows, AllSplits, SplitsAreOfDonations, Optional
  <2>3. ASSUME NEW a \in DOMAIN delivery', delivery'[a].pc = "split"
        PROVE  Unsplit(delivery[a].donationId)'
    <3>1. a \in DOMAIN delivery /\ delivery[a].pc = "split"
      BY <2>3 DEF Quiet
    <3>2. PICK d : d = delivery[a].donationId
      OBVIOUS
    <3>3. Unsplit(d) /\ d # None /\ delivery'[a].donationId = d
      BY <3>1, <3>2, <2>3 DEF AllSplits, SplitsAreOfDonations, IInv, DoneSoFar
    <3>4. Unsplit(d)'
      BY <1>1, <3>3 DEF Unsplit
    <3>. QED
      BY <3>3, <3>4 DEF Unsplit, Asked, Made
  <2>. QED
    BY <2>1, <2>2, <2>3 DEF SplitsAreOfDonations
<1>. QED
  BY <1>2, <1>3 DEF AllSplits

\* Storing a donation splits nothing.
LEMMA StoreSplits ==
    ASSUME IInv, AllSplits, Grows, NEW a \in Delivery, StoreDonation(a)
    PROVE  AllSplits'
<1>1. PICK d \in Donation \ DOMAIN donation :
          /\ a \in DOMAIN delivery
          /\ DOMAIN donation' = DOMAIN donation \cup {d}
          /\ DOMAIN delivery' = DOMAIN delivery
          /\ delivery'[a].donationId = d
          /\ \A b \in DOMAIN delivery \ {a} : delivery'[b] = delivery[b]
  BY StoreDonationEffect
<1>2. UNCHANGED <<object, outbox>>
  BY DEF StoreDonation, stripeVars
<1>3. \A e : \A part : /\ Asked(e, part)' = Asked(e, part)
                       /\ Made(e, part)' = Made(e, part)
  BY <1>2 DEF Asked, Made
<1>4. Unsplit(d)'
  BY <1>3, NewIsUnsplit DEF AllSplits, Unsplit
<1>5. ASSUME NEW e \in DOMAIN donation'
      PROVE  SplitOf(e)'
  <2>1. CASE e = d
    BY <1>4, <2>1 DEF Unsplit, SplitOf, CutWith
  <2>2. CASE e \in DOMAIN donation
    BY <1>3, <2>2, FewerTransfers DEF AllSplits
  <2>. QED
    BY <1>1, <2>1, <2>2
<1>6. SplitsAreOfDonations'
  <2>1. \A b \in DOMAIN delivery' :
           delivery'[b].pc = "split" => Unsplit(delivery[b].donationId)'
    <3>. SUFFICES ASSUME NEW b \in DOMAIN delivery', delivery'[b].pc = "split"
                  PROVE  Unsplit(delivery[b].donationId)'
      OBVIOUS
    <3>1. CASE b = a
      BY <1>1, <1>4, <3>1 DEF Unsplit, Asked, Made
    <3>2. CASE b # a
      <4>1. Unsplit(delivery[b].donationId) /\ delivery'[b] = delivery[b]
        BY <1>1, <3>2 DEF AllSplits, SplitsAreOfDonations
      <4>. QED
        BY <1>2, <4>1 DEF Unsplit, Asked, Made
    <3>. QED
      BY <3>1, <3>2
  <2>. QED
    BY <1>1, <1>2, <2>1 DEF AllSplits, SplitsAreOfDonations, Optional
<1>. QED
  BY <1>5, <1>6 DEF AllSplits

\* A transfer that is made is no longer only asked for.
LEMMA MadeSplits ==
    ASSUME IInv, AllSplits, Grows, NEW q \in outbox, TransferMade(q)
    PROVE  AllSplits'
<1>1. PICK o \in Transfer \ DOMAIN object :
          /\ DOMAIN object' = DOMAIN object \cup {o}
          /\ object'[o].donationId = q.donationId
          /\ object'[o].part = q.part
          /\ object'[o].value = Sen(q.share)
          /\ \A p \in DOMAIN object : object'[p] = object[p]
  BY DEF TransferMade, Put, NewKey, HasRoom
<1>v. object'[o].value * Whole = q.share
  <2>1. q.share \in Int /\ CanMove(q.share)
    BY DEF TransferMade, IInv, TypeOK, Request
  <2>. QED
    BY <1>1, <2>1, SenOfMovable
<1>2. outbox' = outbox \ {q} /\ UNCHANGED <<donation, delivery>>
  BY DEF TransferMade, dbVars
<1>3. ASSUME NEW d, NEW part, d # q.donationId \/ part # q.part
      PROVE  /\ Asked(d, part)' = Asked(d, part)
             /\ Made(d, part)' = Made(d, part)
  BY <1>1, <1>2, <1>3 DEF Asked, Made
<1>4. q.donationId \in DOMAIN donation /\ q.part \in Parts
      /\ q \in Asked(q.donationId, q.part)
  BY DEF AllSplits, SplitsAreOfDonations, Asked
<1>5. ASSUME NEW d \in DOMAIN donation, d = q.donationId
      PROVE  SplitOf(d)'
  <2>1. PICK part \in Parts : d = q.donationId /\ part = q.part
    BY <1>4, <1>5
  <2>2. SplitOf(d) /\ Asked(d, part) = {q} /\ Made(d, part) = {}
    BY <1>4, <2>1 DEF AllSplits, SplitOf
  <2>3. Asked(d, part)' = {} /\ Made(d, part)' = {o}
    BY <1>1, <1>2, <2>1, <2>2 DEF Asked, Made
  <2>4. PICK r \in Int : CutWith(d, r)
    BY <2>2 DEF SplitOf
  <2>5. PaidFor(d)' = PaidFor(d)
    BY PaidForStays
  <2>6. CutWith(d, r)'
    <3>1. object'[o].value * Whole = PartShare(PaidFor(d).value, r, part)
      BY <1>v, <2>2, <2>4 DEF CutWith
    <3>2. ASSUME NEW other \in Parts \ {part}
          PROVE  /\ \A s \in Asked(d, other)' :
                       s.share = PartShare(PaidFor(d).value, r, other)
                 /\ \A p \in Made(d, other)' :
                       object'[p].value * Whole
                           = PartShare(PaidFor(d).value, r, other)
      <4>1. Asked(d, other)' = Asked(d, other) /\ Made(d, other)' = Made(d, other)
        BY <1>3, <2>1
      <4>. QED
        BY <1>1, <2>4, <4>1 DEF CutWith, Made
    <3>. QED
      BY <2>3, <2>5, <3>1, <3>2 DEF CutWith, PartShare
  <2>7. \A other \in Parts :
           /\ \A s, q2 \in Asked(d, other)' : s = q2
           /\ \A p, s \in Made(d, other)' : p = s
           /\ Asked(d, other)' = {} \/ Made(d, other)' = {}
    BY <1>3, <2>1, <2>2, <2>3 DEF SplitOf
  <2>. QED
    BY <2>6, <2>7 DEF SplitOf
<1>6. ASSUME NEW d \in DOMAIN donation'
      PROVE  SplitOf(d)'
  <2>1. CASE d = q.donationId
    BY <1>2, <1>5, <2>1
  <2>2. CASE d # q.donationId
    BY <1>2, <1>3, <2>2, FewerTransfers DEF AllSplits
  <2>. QED
    BY <2>1, <2>2
<1>7. SplitsAreOfDonations'
  <2>1. ASSUME NEW a \in DOMAIN delivery', delivery'[a].pc = "split"
        PROVE  Unsplit(delivery[a].donationId)'
    <3>1. PICK d : d = delivery[a].donationId
      OBVIOUS
    <3>2. Unsplit(d)
      BY <1>2, <2>1, <3>1 DEF AllSplits, SplitsAreOfDonations
    <3>3. d # q.donationId
      BY <1>4, <3>2 DEF Unsplit
    <3>4. Unsplit(d)'
      BY <1>3, <3>2, <3>3 DEF Unsplit
    <3>. QED
      BY <1>2, <3>1, <3>4 DEF Unsplit, Asked, Made
  <2>2. \A o2 \in DOMAIN object' : object'[o2].donationId \in Optional(DOMAIN donation)
    BY <1>1, <1>4 DEF AllSplits, SplitsAreOfDonations, Optional
  <2>3. \A r \in outbox' : r.donationId \in DOMAIN donation /\ r.part \in Parts
    BY <1>2 DEF AllSplits, SplitsAreOfDonations
  <2>. QED
    BY <1>2, <2>1, <2>2, <2>3 DEF SplitsAreOfDonations
<1>. QED
  BY <1>6, <1>7 DEF AllSplits

\* transferDonation asks for the two parts of a donation that had none, cut
\* with the reward it reads.
LEMMA SplitSplits ==
    ASSUME IInv, OwnDonations, AllSplits, Grows,
           NEW a \in Delivery, SplitDonation(a)
    PROVE  AllSplits'
<1>1. PICK d, v, r :
          /\ d = delivery[a].donationId
          /\ v = ObjectOf(a).value
          /\ r = collaboration[ObjectOf(a).campaignId].reward
  OBVIOUS
<1>2. a \in DOMAIN delivery /\ delivery[a].pc = "split"
      /\ outbox' = outbox \cup SplitRequests(d, v, r)
      /\ MovesTo(a, "enqueue")
      /\ UNCHANGED <<object, donation>>
  BY <1>1 DEF SplitDonation, At, MovesTo, stripeVars, dbVars
<1>3. /\ d \in DOMAIN donation
      /\ v = PaidFor(d).value
      /\ d # None
  BY <1>1, <1>2
     DEF IInv, DoneSoFar, DeliveriesStoreDonations, PaidFor, ObjectOf
<1>4. r \in Int
  <2>1. ObjectOf(a).campaignId \in DOMAIN collaboration
    BY <1>2 DEF IInv, DoneSoFar
  <2>. QED
    BY <1>1, <2>1, AmountAssumption DEF IInv, TypeOK, IsTable, CollaborationRow
<1>5. Unsplit(d)
  BY <1>1, <1>2 DEF AllSplits, SplitsAreOfDonations
<1>6. \A e : \A part : Made(e, part)' = Made(e, part)
  BY <1>2 DEF Made
<1>7. ASSUME NEW e, e # d, NEW part
      PROVE  Asked(e, part)' = Asked(e, part)
  BY <1>2, <1>7 DEF Asked, SplitRequests
<1>8. ASSUME NEW part \in Parts
      PROVE  Asked(d, part)'
                 = {[donationId |-> d, part |-> part,
                     share |-> PartShare(v, r, part)]}
  BY <1>2, <1>5 DEF Asked, SplitRequests, Unsplit, Parts, PartShare
<1>9. SplitOf(d)'
  <2>1. PaidFor(d)' = PaidFor(d)
    BY <1>2 DEF PaidFor
  <2>2. \A part \in Parts : Made(d, part)' = {}
    BY <1>5, <1>6 DEF Unsplit
  <2>3. CutWith(d, r)'
    BY <1>3, <1>8, <2>1, <2>2 DEF CutWith, PartShare
  <2>. QED
    BY <1>4, <1>8, <2>2, <2>3 DEF SplitOf
<1>10. ASSUME NEW e \in DOMAIN donation'
       PROVE  SplitOf(e)'
  <2>1. CASE e = d
    BY <1>9, <2>1
  <2>2. CASE e # d
    BY <1>2, <1>6, <1>7, <2>2, FewerTransfers DEF AllSplits
  <2>. QED
    BY <2>1, <2>2
<1>11. SplitsAreOfDonations'
  <2>1. \A q \in outbox' : q.donationId \in DOMAIN donation /\ q.part \in Parts
    BY <1>2, <1>3 DEF AllSplits, SplitsAreOfDonations, SplitRequests, Parts
  <2>2. ASSUME NEW b \in DOMAIN delivery', delivery'[b].pc = "split"
        PROVE  Unsplit(delivery[b].donationId)'
    <3>1. b # a /\ b \in DOMAIN delivery /\ delivery'[b] = delivery[b]
      BY <1>2, <2>2, MoveReads
    <3>2. PICK e : e = delivery[b].donationId
      OBVIOUS
    <3>3. Unsplit(e) /\ e # d
      BY <1>1, <1>2, <1>3, <2>2, <3>1, <3>2
         DEF AllSplits, SplitsAreOfDonations, OwnDonations
    <3>4. Unsplit(e)'
      BY <1>6, <1>7, <3>3 DEF Unsplit
    <3>. QED
      BY <3>1, <3>2, <3>4 DEF Unsplit, Asked, Made
  <2>. QED
    BY <1>2, <2>1, <2>2 DEF AllSplits, SplitsAreOfDonations
<1>. QED
  BY <1>10, <1>11 DEF AllSplits

\* SplitInv, read donation by donation.
LEMMA SplitInvIsAllSplits ==
    SplitInv <=> OwnDonations /\ AllSplits
BY DEF SplitInv, AllSplits, SplitOf, PartsOnce, CutOnce

\* Every step keeps every split whole.
LEMMA SplitStep == IInv /\ SplitInv /\ [Next]_vars => SplitInv'
<1>. SUFFICES ASSUME IInv, SplitInv, [Next]_vars PROVE SplitInv'
  OBVIOUS
<1>g. Grows
  BY StepGrows
<1>1. OwnDonations /\ AllSplits
  BY SplitInvIsAllSplits
<1>2. OwnDonations'
  BY <1>1, OwnDonationsStep
<1>3. AllSplits'
  <2>1. CASE Quiet
    <3>1. ASSUME NEW a \in DOMAIN delivery' \cap DOMAIN delivery
          PROVE  delivery'[a].donationId = delivery[a].donationId
      <4>1. ~ StoreDonation(a)
        <5>. SUFFICES ASSUME StoreDonation(a) PROVE FALSE
          OBVIOUS
        <5>1. a \in Delivery
          BY DEF IInv, TypeOK, IsTable
        <5>. QED
          BY <2>1, <5>1, StoreDonationEffect DEF Quiet
      <4>. QED
        BY <4>1, DonationIdStays
    <3>. QED
      BY <1>1, <1>g, <2>1, <3>1, QuietSplits
  <2>2. ASSUME NEW a \in Delivery, StoreDonation(a)
        PROVE  AllSplits'
    BY <1>1, <1>g, <2>2, StoreSplits
  <2>3. ASSUME NEW a \in Delivery, SplitDonation(a)
        PROVE  AllSplits'
    BY <1>1, <1>g, <2>3, SplitSplits
  <2>4. ASSUME NEW q \in outbox, TransferMade(q)
        PROVE  AllSplits'
    BY <1>1, <1>g, <2>4, MadeSplits
  <2>. QED
    BY <2>1, <2>2, <2>3, <2>4, WhoSplits
<1>. QED
  BY <1>2, <1>3, SplitInvIsAllSplits DEF SplitInv, AllSplits, SplitOf, PartsOnce,
     CutOnce

\* Shares that are whole numbers of sen add up to what was shared.
LEMMA SharesAddUp ==
    ASSUME NEW v \in Nat, NEW r \in Int, NEW rest \in Nat, NEW reward \in Nat,
           rest * Whole = v * (Whole - r), reward * Whole = v * r
    PROVE  rest + reward = v
<1>1. PICK w \in Nat \ {0} : w = Whole
  BY AmountAssumption
<1>2. (rest + reward) * w = v * w
  <2>1. (rest + reward) * w = rest * w + reward * w
    BY Z3
  <2>2. v * (w - r) + v * r = v * w
    BY Z3
  <2>. QED
    BY <1>1, <2>1, <2>2
<1>3. PICK sum \in Nat : sum = rest + reward
  OBVIOUS
<1>4. sum * w = v * w => sum = v
  BY Z3
<1>. QED
  BY <1>2, <1>3, <1>4

\* A set of which any two members are equal has at most one.
LEMMA AtMostOne ==
    ASSUME NEW S, \A x, y \in S : x = y
    PROVE  IsFiniteSet(S) /\ Cardinality(S) \in {0, 1}
           /\ (S = {} => Cardinality(S) = 0)
<1>1. CASE S = {}
  BY <1>1, FS_EmptySet
<1>2. CASE S # {}
  <2>1. PICK x : S = {x}
    BY <1>2
  <2>. QED
    BY <2>1, FS_Singleton
<1>. QED
  BY <1>1, <1>2

\* A whole split conserves the donation.
LEMMA SplitInvConserves == IInv /\ SplitInv => SplitConservesDonation
<1>. SUFFICES ASSUME IInv, SplitInv, NEW d \in DOMAIN donation
              PROVE  /\ \A part \in Parts :
                           Cardinality(Asked(d, part)) + Cardinality(Made(d, part)) <= 1
                     /\ \A o \in Made(d, "rest"), p \in Made(d, "reward") :
                           object[o].value + object[p].value = PaidFor(d).value
  BY DEF SplitConservesDonation, PaidFor, Parts
<1>1. ASSUME NEW part \in Parts
      PROVE  Cardinality(Asked(d, part)) + Cardinality(Made(d, part)) <= 1
  <2>1. /\ \A q, r \in Asked(d, part) : q = r
        /\ \A o, p \in Made(d, part) : o = p
        /\ Asked(d, part) = {} \/ Made(d, part) = {}
    BY DEF SplitInv, PartsOnce
  <2>. QED
    BY <2>1, AtMostOne
<1>2. ASSUME NEW o \in Made(d, "rest"), NEW p \in Made(d, "reward")
      PROVE  object[o].value + object[p].value = PaidFor(d).value
  <2>1. PICK r \in Int : CutWith(d, r)
    BY DEF SplitInv, CutOnce
  <2>2. PICK v \in Nat, rest \in Nat, reward \in Nat :
           /\ v = PaidFor(d).value
           /\ rest = object[o].value
           /\ reward = object[p].value
    <3>1. donation[d].paymentIntentId \in DOMAIN object
      BY DEF IInv, EveryDonationIsPaidFor, DeliveriesHaveEvents
    <3>. QED
      BY <3>1 DEF PaidFor, Made, IInv, TypeOK, IsTable, ObjectRow
  <2>3. rest * Whole = v * (Whole - r) /\ reward * Whole = v * r
    BY <2>1, <2>2 DEF CutWith, PartShare, Parts
  <2>4. rest + reward = v
    BY <2>3, SharesAddUp
  <2>. QED
    BY <2>2, <2>4
<1>. QED
  BY <1>1, <1>2

-----------------------------------------------------------------------------
(* Theorems                                                                *)

\* The parts of IInv together survive every step.
LEMMA InductiveStep == IInv /\ [Next]_vars => IInv'
BY TypeStep, EventStep, StoresStep, DoneStep, PaidForStep, AcknowledgedStep
   DEF IInv

\* IInv holds of every reachable state.
THEOREM Invariance == Spec => []IInv
BY InitIInv, InductiveStep, PTL DEF Spec

\* The tables keep their shape, for any number of rows.
THEOREM TypeCorrectness == Spec => []TypeOK
<1>1. IInv => TypeOK
  BY DEF IInv
<1>. QED
  BY <1>1, Invariance, PTL

\* No donation without a payment that Stripe reported, with its donor, its
\* campaign and its whole ringgit, whatever amount was paid (createDonation).
THEOREM DonationsArePaidFor == Spec => []EveryDonationIsPaidFor
<1>1. IInv => EveryDonationIsPaidFor
  BY DEF IInv
<1>. QED
  BY <1>1, Invariance, PTL

\* A payment that the webhook answered with 200 is in the database, with its
\* reward job in the queue, whatever crashed or failed before.
THEOREM AcknowledgedPaymentsAreRecorded == Spec => []AcknowledgedIsRecorded
<1>1. IInv => AcknowledgedIsRecorded
  BY DEF IInv
<1>. QED
  BY <1>1, Invariance, PTL

\* A step makes at most one delivery.
LEMMA DeliveriesStayFinite ==
    IsFiniteSet(DOMAIN delivery) /\ [Next]_vars => IsFiniteSet(DOMAIN delivery)'
<1>. SUFFICES ASSUME IsFiniteSet(DOMAIN delivery), [Next]_vars
              PROVE  IsFiniteSet(DOMAIN delivery')
  OBVIOUS
<1>1. CASE DOMAIN delivery' = DOMAIN delivery
  BY <1>1
<1>2. ASSUME NEW o \in Object, NewDelivery(o)
      PROVE  IsFiniteSet(DOMAIN delivery')
  <2>1. DOMAIN delivery' = DOMAIN delivery \cup {NewKey(Delivery, delivery)}
    BY <1>2 DEF NewDelivery, Put
  <2>. QED
    BY <2>1, FS_AddElement
<1>. QED
  BY <1>1, <1>2
     DEF Next, Pay, CreateDonationIntent, CreateGiftCardIntent, PaymentSucceeds,
         RedeemGiftCard, Deliver, Redeliver, Handle, IgnoreObject,
         StoreGiftCard, StoreDonation, SplitDonation, EnqueueReward, Answer,
         HandlerThrows, HandlerFails, TransferMade, TransferRefused, Crash,
         Collaborate, LaunchCollaboration, UpdateReward, CancelCollaboration,
         Own, OpenAccount, ChangeOwner, vars

\* Only finitely many deliveries were made, so that counting them means
\* something.
THEOREM DeliveriesAreFinite == Spec => []IsFiniteSet(DOMAIN delivery)
<1>1. Init => IsFiniteSet(DOMAIN delivery)
  BY FS_EmptySet DEF Init, IsTable, EmptyTable
<1>. QED
  BY <1>1, DeliveriesStayFinite, PTL DEF Spec

\* A payment becomes a donation at most once per delivery of its event.
THEOREM DuplicatesNeedDeliveries == Spec => []NoMoreDonationsThanDeliveries
<1>1. IInv /\ IsFiniteSet(DOMAIN delivery) => NoMoreDonationsThanDeliveries
  <2>. SUFFICES ASSUME IInv, IsFiniteSet(DOMAIN delivery), NEW o \in Object
                PROVE  Cardinality(DonationsOf(o)) <= Cardinality(DeliveriesOf(o))
    BY DEF NoMoreDonationsThanDeliveries
  <2>. DEFINE by == [d \in DonationsOf(o) |->
                        CHOOSE a \in DOMAIN delivery : delivery[a].donationId = d]
  <2>1. ASSUME NEW d \in DonationsOf(o)
        PROVE  by[d] \in DeliveriesOf(o) /\ delivery[by[d]].donationId = d
    <3>1. PICK a \in DOMAIN delivery : delivery[a].donationId = d
      BY DEF IInv, DeliveriesStoreDonations, DonationsOf
    <3>2. by[d] \in DOMAIN delivery /\ delivery[by[d]].donationId = d
      BY <3>1
    <3>3. d # None
      BY NoneAssumption DEF DonationsOf, IInv, TypeOK, IsTable
    <3>. HIDE DEF by
    <3>. QED
      BY <3>2, <3>3
         DEF IInv, DeliveriesStoreDonations, DonationsOf, DeliveriesOf
  <2>2. by \in Injection(DonationsOf(o), DeliveriesOf(o))
    <3>1. by \in [DonationsOf(o) -> DeliveriesOf(o)]
      BY <2>1
    <3>2. \A d, e \in DonationsOf(o) : by[d] = by[e] => d = e
      BY <2>1
    <3>. HIDE DEF by
    <3>. QED
      BY <3>1, <3>2 DEF Injection, IsInjective
  <2>3. IsFiniteSet(DeliveriesOf(o))
    <3>1. DeliveriesOf(o) \subseteq DOMAIN delivery
      BY DEF DeliveriesOf
    <3>. QED
      BY <3>1, FS_Subset
  <2>. QED
    BY <2>2, <2>3, FS_Injection
<1>. QED
  BY <1>1, DeliveriesAreFinite, Invariance, PTL

\* A gift card shows as unused exactly while no donation paid with it is
\* stored, and otherwise names one of those, for any number of cards,
\* redemptions and repeated events (the nested connect of createDonation).
THEOREM CardsShowTheirUse == Spec => []GiftCardShowsItsUse
<1>1. Init => CardInv
  BY DEF Init, CardInv, CardsExist, GiftCardShowsItsUse, EmptyTable
<1>2. IInv /\ CardInv /\ [Next]_vars => CardInv'
  BY CardsExistStep, CardUseStep DEF CardInv
<1>3. CardInv => GiftCardShowsItsUse
  BY DEF CardInv
<1>. QED
  BY <1>1, <1>2, <1>3, Invariance, PTL DEF Spec

\* A donation is split once and its two parts, when both were made, add up to
\* what was paid, whatever the reward is, whenever it changes and wherever a
\* delivery stops (transferDonation).  A payment stored as two donations is
\* split for each of them.
THEOREM SplitsConserve == Spec => []SplitConservesDonation
<1>1. Init => SplitInv
  BY DEF Init, SplitInv, OwnDonations, SplitsAreOfDonations, PartsOnce,
     CutOnce, EmptyTable
<1>2. IInv /\ SplitInv /\ [Next]_vars => SplitInv'
  BY SplitStep
<1>3. IInv /\ SplitInv => SplitConservesDonation
  BY SplitInvConserves
<1>. QED
  BY <1>1, <1>2, <1>3, Invariance, PTL DEF Spec

-----------------------------------------------------------------------------
(* Refinement                                                              *)

\* An empty database is an empty ledger.
LEMMA InitRefines == Init => Ledger!Init
<1>. SUFFICES ASSUME Init PROVE Ledger!Init
  OBVIOUS
<1>1. DOMAIN event = {} /\ DOMAIN donation = {}
  BY DEF Init, EmptyTable
<1>2. PaidPayments = {} /\ SettledPayments = {}
  BY <1>1 DEF PaidPayments, SettledPayments
<1>3. LedgerEntry = EmptyTable
  BY <1>1 DEF LedgerEntry, EmptyTable
<1>. QED
  BY <1>2, <1>3 DEF Ledger!Init, Ledger!EmptyTable, EmptyTable

\* Donations leave the ledger alone unless one is stored.
LEMMA EntriesStay ==
    UNCHANGED donation => UNCHANGED LedgerEntry
BY DEF LedgerEntry

\* A new event of a payment adds it to the paid ones, and settles nothing.
LEMMA NewEventIsPaid ==
    ASSUME IInv, Grows, NEW o \in DOMAIN object', o \notin DOMAIN event,
           event' = Put(event, o, "due")
    PROVE  /\ UNCHANGED SettledPayments
           /\ PaidPayments' = IF object'[o].paymentEntity = "campaign_donation"
                              THEN PaidPayments \cup {o} ELSE PaidPayments
<1>1. DOMAIN event' = DOMAIN event \cup {o} /\ event'[o] = "due"
      /\ \A p \in DOMAIN event : event'[p] = event[p]
  BY DEF Put
<1>2. \A p \in DOMAIN event : object'[p] = object[p]
  BY DEF IInv, DeliveriesHaveEvents, Grows
<1>3. PaidPayments' = IF object'[o].paymentEntity = "campaign_donation"
                      THEN PaidPayments \cup {o} ELSE PaidPayments
  BY <1>1, <1>2 DEF PaidPayments
<1>. QED
  BY <1>1, <1>3 DEF SettledPayments, PaidPayments

\* Steps that create no event and acknowledge none leave the rest alone.
LEMMA SameEventsAreSame ==
    ASSUME IInv, Grows, DOMAIN event' = DOMAIN event,
           \A p \in DOMAIN event : event'[p] = "acked" <=> event[p] = "acked"
    PROVE  UNCHANGED <<PaidPayments, SettledPayments>>
<1>1. \A p \in DOMAIN event : object'[p] = object[p]
  BY DEF IInv, DeliveriesHaveEvents, Grows
<1>2. UNCHANGED PaidPayments
  BY <1>1 DEF PaidPayments
<1>. QED
  BY <1>2 DEF SettledPayments, PaidPayments

\* Every step pays, enters or settles in the ledger, or leaves it alone.
LEMMA StepRefines == IInv /\ [Next]_vars => [Ledger!Next]_(Ledger!vars)
<1>. SUFFICES ASSUME IInv, [Next]_vars PROVE [Ledger!Next]_(Ledger!vars)
  OBVIOUS
<1>g. Grows
  BY StepGrows
<1>n. ASSUME NEW o \in Object, o \in DOMAIN object', o \notin DOMAIN event,
             event' = Put(event, o, "due"), UNCHANGED donation
      PROVE  [Ledger!Next]_(Ledger!vars)
  BY <1>n, <1>g, NewEventIsPaid, EntriesStay
     DEF Ledger!Next, Ledger!vars, Ledger!Pay
<1>1. CASE UNCHANGED event /\ UNCHANGED donation
  BY <1>1, <1>g, SameEventsAreSame, EntriesStay DEF Ledger!vars
<1>2. ASSUME NEW o \in Intent, PaymentSucceeds(o)
      PROVE  [Ledger!Next]_(Ledger!vars)
  BY <1>2, <1>n DEF PaymentSucceeds, dbVars, Object
<1>3. ASSUME NEW u \in User, NEW g \in GiftCard, NEW c \in Campaign,
             RedeemGiftCard(u, g, c)
      PROVE  [Ledger!Next]_(Ledger!vars)
  <2>. DEFINE o == NewKey(Transfer, object)
  <2>1. o \in Transfer /\ o \notin DOMAIN object
    BY <1>3 DEF RedeemGiftCard, NewKey, HasRoom
  <2>2. o \in DOMAIN object' /\ event' = Put(event, o, "due")
        /\ UNCHANGED donation
    BY <1>3 DEF RedeemGiftCard, Put, dbVars
  <2>. HIDE DEF o
  <2>. QED
    BY <1>n, <2>1, <2>2 DEF Object, IInv, DeliveriesHaveEvents
<1>4. ASSUME NEW q \in outbox, TransferMade(q)
      PROVE  [Ledger!Next]_(Ledger!vars)
  <2>. DEFINE o == NewKey(Transfer, object)
  <2>1. o \in Transfer /\ o \notin DOMAIN object
    BY <1>4 DEF TransferMade, NewKey, HasRoom
  <2>2. o \in DOMAIN object' /\ event' = Put(event, o, "due")
        /\ UNCHANGED donation
    BY <1>4 DEF TransferMade, Put, dbVars
  <2>. HIDE DEF o
  <2>. QED
    BY <1>n, <2>1, <2>2 DEF Object, IInv, DeliveriesHaveEvents
<1>5. ASSUME NEW a \in Delivery, StoreDonation(a)
      PROVE  [Ledger!Next]_(Ledger!vars)
  <2>. DEFINE o == delivery[a].object
  <2>1. PICK d \in Donation \ DOMAIN donation :
            /\ a \in DOMAIN delivery
            /\ EntityOf(a) = "campaign_donation"
            /\ DOMAIN donation' = DOMAIN donation \cup {d}
            /\ donation'[d] = DonationFor(a)
    BY <1>5, StoreDonationEffect
  <2>2. o \in Object /\ o \in PaidPayments
    BY <2>1, ObjectOfType
       DEF PaidPayments, IInv, DeliveriesHaveEvents, EntityOf, ObjectOf
  <2>3. UNCHANGED event
    BY <1>5 DEF StoreDonation, stripeVars
  <2>4. UNCHANGED <<PaidPayments, SettledPayments>>
    BY <1>g, <2>3, SameEventsAreSame
  <2>5. LedgerEntry' = Put(LedgerEntry, d, o) /\ d \notin DOMAIN LedgerEntry
    BY <1>g, <2>1 DEF LedgerEntry, Put, DonationFor, Grows
  <2>6. Ledger!Enter(d, o)
    BY <2>2, <2>4, <2>5 DEF Ledger!Enter, Ledger!Put, Put
  <2>. QED
    BY <2>1, <2>2, <2>6 DEF Ledger!Next
<1>6. ASSUME NEW a \in Delivery, Answer(a)
      PROVE  [Ledger!Next]_(Ledger!vars)
  <2>. DEFINE o == delivery[a].object
  <2>1. /\ a \in DOMAIN delivery
        /\ delivery[a].pc = "answer"
        /\ event' = [event EXCEPT ![o] = "acked"]
        /\ UNCHANGED <<object, donation>>
    BY <1>6 DEF Answer, At, dbVars
  <2>2. o \in Object /\ o \in DOMAIN event /\ Recorded(o)
    BY <2>1, ObjectOfType DEF IInv, DoneSoFar, DeliveriesHaveEvents
  <2>3. UNCHANGED PaidPayments /\ UNCHANGED LedgerEntry
    BY <2>1, EntriesStay DEF PaidPayments
  <2>4. CASE object[o].paymentEntity = "campaign_donation"
    <3>1. \E d \in DOMAIN LedgerEntry : LedgerEntry[d] = o
      BY <2>2, <2>4 DEF Recorded, DonationsOf, LedgerEntry
    <3>2. SettledPayments' = SettledPayments \cup {o}
      BY <2>1, <2>2, <2>3, <2>4 DEF SettledPayments, PaidPayments
    <3>3. Ledger!Settle(o)
      BY <2>3, <3>1, <3>2 DEF Ledger!Settle
    <3>. QED
      BY <2>2, <3>3 DEF Ledger!Next
  <2>5. CASE object[o].paymentEntity # "campaign_donation"
    <3>1. UNCHANGED SettledPayments
      BY <2>1, <2>2, <2>3, <2>5 DEF SettledPayments, PaidPayments
    <3>. QED
      BY <2>3, <3>1 DEF Ledger!vars
  <2>. QED
    BY <2>4, <2>5
<1>7. ASSUME NEW A, MustResend(A), UNCHANGED donation
      PROVE  [Ledger!Next]_(Ledger!vars)
  <2>1. DOMAIN event' = DOMAIN event
        /\ \A p \in DOMAIN event : event'[p] = "acked" <=> event[p] = "acked"
    BY <1>7 DEF MustResend
  <2>. QED
    BY <1>7, <1>g, <2>1, SameEventsAreSame, EntriesStay DEF Ledger!vars
<1>8. ASSUME NEW o \in Object, Deliver(o)
      PROVE  [Ledger!Next]_(Ledger!vars)
  <2>1. /\ DOMAIN event' = DOMAIN event /\ UNCHANGED donation
        /\ \A p \in DOMAIN event : event'[p] = "acked" <=> event[p] = "acked"
    BY <1>8 DEF Deliver, dbVars
  <2>. QED
    BY <1>g, <2>1, SameEventsAreSame, EntriesStay DEF Ledger!vars
<1>9. UNCHANGED donation \/ \E a \in Delivery : StoreDonation(a)
  BY WhoStoresDonations
<1>. QED
  BY <1>1, <1>2, <1>3, <1>4, <1>5, <1>6, <1>7, <1>8, <1>9, WhoWritesEvents

\* The webhook implements the ledger: every step is a step of DonationLedger
\* or leaves the ledger alone.
THEOREM Refinement == Spec => ImplementsLedger
<1>1. Init => Ledger!Init
  BY InitRefines
<1>2. IInv /\ [Next]_vars => [Ledger!Next]_(Ledger!vars)
  BY StepRefines
<1>. QED
  BY <1>1, <1>2, Invariance, PTL DEF Spec, ImplementsLedger, Ledger!Spec
=============================================================================
