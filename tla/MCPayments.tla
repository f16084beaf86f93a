----------------------------- MODULE MCPayments -----------------------------
(***************************************************************************)
(* Two small instances of Payments in one run.  In the scene "cards" gift  *)
(* cards and payments meet and nobody collaborates; in "split" one payment *)
(* meets a collaboration that is launched, changed and cancelled, and an   *)
(* owner who may have no bank account.  Ids are taken in a fixed order     *)
(* (NewKey), so no symmetry set is needed.                                 *)
(***************************************************************************)
EXTENDS Payments

VARIABLE scene

\* One owner has a bank account all along.
Banker == CHOOSE f \in Fundraiser : TRUE

AtMost(n, S) == Cardinality(S) <= n

Cards ==
    /\ DOMAIN collaboration = {}
    /\ \A c \in Campaign : owner[c] = Banker
    /\ account = {Banker}
    /\ AtMost(1, DOMAIN object \cap Transfer)

Split ==
    /\ AtMost(1, DOMAIN object \cap Intent)
    /\ AtMost(2, DOMAIN delivery)
    /\ \A o \in DOMAIN object \cap Intent :
           object[o].paymentEntity = "campaign_donation"
    /\ Banker \in account
    /\ (\E c \in Campaign : owner[c] # Banker) => faults + duplicates = 0

Scene == (scene = "cards" => Cards) /\ (scene = "split" => Split)

MCInit == Init /\ scene \in {"cards", "split"} /\ Scene

MCSpec == MCInit /\ [][Next /\ UNCHANGED scene /\ Scene']_<<vars, scene>>
=============================================================================
