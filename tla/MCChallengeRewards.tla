------------------------- MODULE MCChallengeRewards -------------------------
(***************************************************************************)
(* Two small instances of ChallengeRewards in one run.  In the scene       *)
(* "terms" two donations and two runs meet an admin who changes the terms; *)
(* in "faults" one donation's job fails, crashes and stalls at any await.  *)
(***************************************************************************)
EXTENDS ChallengeRewards

VARIABLE scene

DonationTerms(n, amt, expiry) ==
    [challengeType |-> "DONATION", requiredDonationAmount |-> amt,
     requiredNumOfDonation |-> n, targetCampaignCategories |-> Category,
     expiredAt |-> expiry]

\* A challenge of two donations of any amount that lasts, or of one donation
\* of at least 2 that expires after the first moment: the admin changes one
\* into the other while runs are under way.  Others lack a number or an amount.
TwoOrOneDonations == {DonationTerms(2, 1, 1), DonationTerms(1, 2, 0)}
Lacking == {DonationTerms(None, 2, 0), DonationTerms(1, None, 0)}
TermsGiven == TwoOrOneDonations \cup Lacking

Asks(n) == \E c \in DOMAIN challenge : challenge[c].terms.requiredNumOfDonation = n

Scene ==
    /\ scene = "terms" =>
           /\ faults = 0 /\ \A d \in DOMAIN job : job[d].stalls = 0
           /\ \A c \in DOMAIN challenge : challenge[c].terms \in TwoOrOneDonations
    /\ scene = "faults" => Cardinality(DOMAIN donation) <= 1 /\ ~Asks(2)

MCSpec == (scene \in {"terms", "faults"} /\ Init)
          /\ [][Next /\ UNCHANGED scene /\ Scene']_<<vars, scene>>
=============================================================================
