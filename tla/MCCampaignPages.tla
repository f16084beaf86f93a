--------------------------- MODULE MCCampaignPages ---------------------------
(***************************************************************************)
(* Two small instances of CampaignPages in one run, with one campaign of   *)
(* category "k1".  In the scene "donations" one request, of any kind,      *)
(* meets donations: requests meet one another through challenges and       *)
(* caches only.  In "challenges" two requests do, there is at most one     *)
(* donation, a big one, and a challenge is created, changed and over.      *)
(***************************************************************************)
EXTENDS CampaignPages

CONSTANT MCTarget

VARIABLE scene

AllOfK1 == [c \in Campaign |-> "k1"]
AllTargets == [c \in Campaign |-> MCTarget]

Asks(type, categories) ==
    [challengeType |-> type, targetCampaignCategories |-> categories, isOpen |-> TRUE]

\* For every category, for the other category only, and of photos.
ThreeTerms == {Asks("DONATION", {}), Asks("DONATION", {"k2"}), Asks("PHOTO", {"k2"})}

AtMost(n, S) == Cardinality(S) <= n

Donations ==
    /\ AtMost(1, DOMAIN request)
    /\ AtMost(0, DOMAIN challenge)

Challenges ==
    /\ AtMost(1, DOMAIN donation)
    /\ \A d \in DOMAIN donation : IsCloseToTarget(donation[d].campaignId)

Scene ==
    CASE scene = "donations" -> Donations
      [] scene = "challenges" -> Challenges

MCSpec == (scene \in {"donations", "challenges"} /\ Init)
          /\ [][Next /\ UNCHANGED scene /\ Scene']_<<vars, scene>>
=============================================================================
