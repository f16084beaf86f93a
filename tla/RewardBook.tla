----------------------------- MODULE RewardBook -----------------------------
(***************************************************************************)
(* What the reward worker and the admin promise the participants of        *)
(* challenges, without donations, terms, jobs, stalls and crashes: whoever *)
(* rewards has found the participation open first, a reward is given only  *)
(* after its mail and told only once it is given or granted, and nothing   *)
(* is taken back.  A worker looks once and acts later, so two of them may  *)
(* both mail a participation that both have found open.                    *)
(***************************************************************************)
EXTENDS Tables

CONSTANTS Worker, Participation

VARIABLES
    book,       \* by participation: "open", "given" by a worker, "granted"
    taken,      \* what each worker has found open
    mail,       \* mails sent, with the worker
    notified    \* participations told of their reward

vars == <<book, taken, mail, notified>>

Init ==
    /\ book = EmptyTable
    /\ taken = {}
    /\ mail = {}
    /\ notified = {}

Open == {p \in DOMAIN book : book[p] = "open"}

Join(p) ==
    /\ p \notin DOMAIN book
    /\ book' = Put(book, p, "open")
    /\ UNCHANGED <<taken, mail, notified>>

Take(w, P) ==
    /\ \A p \in Participation : <<w, p>> \notin taken
    /\ P \subseteq Open
    /\ taken' = taken \cup ({w} \X P)
    /\ UNCHANGED <<book, mail, notified>>

Mail(w, p) ==
    /\ <<w, p>> \in taken
    /\ mail' = mail \cup {<<w, p>>}
    /\ UNCHANGED <<book, taken, notified>>

Give(p) ==
    /\ p \in DOMAIN book
    /\ \E w \in Worker : <<w, p>> \in mail
    /\ book' = [book EXCEPT ![p] = "given"]
    /\ UNCHANGED <<taken, mail, notified>>

Notify(p) ==
    /\ p \in DOMAIN book \ Open
    /\ notified' = notified \cup {p}
    /\ UNCHANGED <<book, taken, mail>>

Grant(p) ==
    /\ p \in DOMAIN book
    /\ book' = [book EXCEPT ![p] = "granted"]
    /\ UNCHANGED <<taken, mail, notified>>

Next ==
    \/ \E p \in Participation : Join(p) \/ Give(p) \/ Notify(p) \/ Grant(p)
    \/ \E w \in Worker :
          \/ \E P \in SUBSET Participation : Take(w, P)
          \/ \E p \in Participation : Mail(w, p)

Spec == Init /\ [][Next]_vars
=============================================================================
