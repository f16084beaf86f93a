--------------------------- MODULE DonationLedger ---------------------------
(***************************************************************************)
(* What the payment webhook promises, without deliveries, retries, crashes *)
(* or gift cards: only payments that were made are entered as donations,   *)
(* entries are never changed or removed, and a payment that is settled     *)
(* with the payment provider has an entry.  A payment may be entered more  *)
(* than once: nothing in the code tells a repeated event from a new one.   *)
(***************************************************************************)
EXTENDS Tables

CONSTANTS Payment, Entry

VARIABLES
    paid,       \* payments that were made
    entry,      \* entries of the ledger, each naming its payment
    settled     \* payments the provider may forget about

vars == <<paid, entry, settled>>

Init ==
    /\ paid = {}
    /\ entry = EmptyTable
    /\ settled = {}

Pay(p) ==
    /\ paid' = paid \cup {p}
    /\ UNCHANGED <<entry, settled>>

Enter(e, p) ==
    /\ p \in paid
    /\ e \notin DOMAIN entry
    /\ entry' = Put(entry, e, p)
    /\ UNCHANGED <<paid, settled>>

Settle(p) ==
    /\ \E e \in DOMAIN entry : entry[e] = p
    /\ settled' = settled \cup {p}
    /\ UNCHANGED <<paid, entry>>

Next ==
    \E p \in Payment :
        \/ Pay(p)
        \/ \E e \in Entry : Enter(e, p)
        \/ Settle(p)

Spec == Init /\ [][Next]_vars
=============================================================================
