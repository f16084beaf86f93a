------------------------- MODULE MCDonationToReward -------------------------
(***************************************************************************)
(* Four small instances of DonationToReward in one run.  In the scene      *)
(* "repeat" two payments and a repeated event meet a challenge of two      *)
(* donations; in "fail" one payment, a failure or crash anywhere and jobs  *)
(* that stall meet a challenge of one, which donor and admin go on with.   *)
(* In "split" the payment is split, by an owner who may have lost the      *)
(* campaign to one without a bank account; in "card" it names a gift card  *)
(* that was bought before, or one that does not exist.                     *)
(***************************************************************************)
EXTENDS DonationToReward

CONSTANT MCCategory

VARIABLE scene

AtMost(n, S) == Cardinality(S) <= n

TermsOf(n) ==
    [challengeType |-> "DONATION", requiredDonationAmount |-> 1,
     requiredNumOfDonation |-> n, targetCampaignCategories |-> Category,
     expiredAt |-> 0]

OneOrTwo == {TermsOf(1), TermsOf(2)}
AllOne == [c \in {"c1"} |-> MCCategory]

\* One owner has a bank account, others have none at first.
Banker == CHOOSE f \in Fundraiser : TRUE

Asks(n) == \A c \in DOMAIN challenge : challenge[c].terms = TermsOf(n)

Payments == {o \in DOMAIN object : object[o].paymentEntity = "campaign_donation"}
OneOwner == owner = [c \in Campaign |-> Banker] /\ account = {Banker}
NobodySplits == DOMAIN collaboration = {} /\ OneOwner
NoCards == \A o \in DOMAIN object :
    object[o].paymentEntity # "gift_card" /\ object[o].giftCardId = None
NoFaults == handlerFaults + runFaults = 0 /\ \A d \in DOMAIN job : job[d].stalls = 0

\* Who pays takes part already.
OnePayment ==
    /\ Asks(1)
    /\ duplicates = 0
    /\ AtMost(1, Payments)
    /\ DOMAIN object # {} => DOMAIN participant # {}

Repeat ==
    /\ NobodySplits /\ NoCards /\ NoFaults
    /\ Asks(2)
    /\ AtMost(2 - duplicates, DOMAIN object)

Fail == OnePayment /\ NobodySplits /\ NoCards

Splits == OnePayment /\ NoCards /\ NoFaults

Card ==
    /\ OnePayment /\ NobodySplits /\ NoFaults
    /\ AtMost(IF DOMAIN giftCard = {} THEN 1 ELSE 2, DOMAIN object)

Scene ==
    /\ \A p \in DOMAIN participant :
           /\ participant[p].status # "UNDER_REVIEW"
           /\ ~participant[p].rejected
           /\ participant[p].rewardEmailId # "admin"
    /\ scene = "repeat" => Repeat
    /\ scene = "fail" => Fail
    /\ scene = "split" => Splits
    /\ scene = "card" => Card

\* One step of a behaviour is a failure; a crash may end handlers and runs.
OneFault ==
    handlerFaults + runFaults > 0 => UNCHANGED <<handlerFaults, runFaults>>

MCInit == Init /\ scene \in {"repeat", "fail", "split", "card"} /\ OneOwner

MCSpec == /\ MCInit
          /\ [][Next /\ UNCHANGED scene /\ Scene' /\ OneFault]_<<vars, scene>>
          /\ Fairness
=============================================================================
