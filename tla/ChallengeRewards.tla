-------------------------- MODULE ChallengeRewards --------------------------
(***************************************************************************)
(* Community challenges and the Bull worker that rewards donors            *)
(* (src/community_challenges, src/webhooks/donations).                     *)
(*                                                                         *)
(* Every stored donation gets a challenge-reward job.  A run of a job      *)
(* reads the donor's unrewarded participations once, then goes through     *)
(* them one by one; each await lets other runs, the donor and the admin    *)
(* in:                                                                     *)
(*                                                                         *)
(*   read -> next -> email -> update -> notify -> next ... -> done         *)
(*                                                                         *)
(* Bull is external: it starts a waiting job, and puts an active one back  *)
(* once (maxStalledCount) when the worker lost its lock on it, which does  *)
(* not stop the first run.  A job that throws is not tried again.          *)
(***************************************************************************)
EXTENDS Naturals, FiniteSets, Tables

CONSTANTS
    User, Challenge, Donation, Category,
    Run,            \* executions of jobs by the worker, each used once
    Amount,         \* whole ringgit
    Terms,          \* what an admin may ask of a challenge's participants
    None,           \* null
    MaxTime,        \* bound on the clock
    MaxStalls,      \* Bull's maxStalledCount
    MaxFaults       \* bound on runs that throw and on crashes

\* The fields of a challenge that decide who is rewarded.  Nobody checks that
\* a challenge of donations has an amount and a number.
TermsRow == [challengeType: {"DONATION", "PHOTO"},
             requiredDonationAmount: Nat \cup {None},
             requiredNumOfDonation: Nat \cup {None},
             targetCampaignCategories: SUBSET Category, expiredAt: Nat]

ASSUME NoneIsNoRow ==
    None \notin Donation \cup Challenge \cup {"", "admin"} \cup TermsRow
ASSUME NoneIsNoNumber == None \notin Nat
ASSUME TermsAssumption == Terms \subseteq TermsRow /\ Amount \subseteq Nat
ASSUME BoundAssumption == {MaxTime, MaxStalls, MaxFaults} \subseteq Nat

VARIABLES
    now,
    challenge,      \* table community_challenges
    participant,    \* table community_challenges_participants
    donation,       \* table campaign_donations
    job,            \* the queue donation-challenge-reward, by donation
    run,            \* runs of the processor
    mail,           \* reward emails sent
    notified,       \* reward notifications in the table notifications
    granting,       \* the admin's requests between the row and its notification
    faults

workerVars == <<job, run>>
vars == <<now, challenge, participant, donation, job, run, mail, notified,
          granting, faults>>

-----------------------------------------------------------------------------
Key == User \X Challenge
Optional(S) == S \cup {None}

ChallengeRow == [terms: TermsRow, createdAt: Nat]

\* "" is what EmailService.sendEmail answers as emailId: not null.  "admin" is
\* whatever the admin sends.
ParticipantRow == [rewardEmailId: {None, "", "admin"}, rejected: BOOLEAN,
                   status: {"IN_PROGRESS", "UNDER_REVIEW", "COMPLETED"},
                   createdAt: Nat]

DonationRow == [userId: User, amount: Nat, category: Category, createdAt: Nat]

JobRow == [state: {"waiting", "active", "completed", "failed"}, stalls: Nat]

Live == {"read", "next", "email", "update", "notify"}
RunRow == [pc: Live \cup {"done", "failed", "dead"}, donationId: Donation,
           todo: SUBSET Challenge, terms: [Challenge -> Optional(TermsRow)],
           current: Optional(Challenge)]

TypeOK ==
    /\ now \in 0..MaxTime
    /\ IsTable(challenge, Challenge, ChallengeRow)
    /\ IsTable(participant, Key, ParticipantRow)
    /\ IsTable(donation, Donation, DonationRow)
    /\ IsTable(job, Donation, JobRow)
    /\ IsTable(run, Run, RunRow)
    /\ mail \subseteq Run \X Key
    /\ notified \subseteq Key
    /\ granting \subseteq Key
    /\ faults \in 0..MaxFaults

Init ==
    /\ now = 0
    /\ challenge = EmptyTable
    /\ participant = EmptyTable
    /\ donation = EmptyTable
    /\ job = EmptyTable
    /\ run = EmptyTable
    /\ mail = {}
    /\ notified = {}
    /\ granting = {}
    /\ faults = 0

Tick ==
    /\ now < MaxTime
    /\ now' = now + 1
    /\ UNCHANGED <<challenge, participant, donation, workerVars, mail, notified,
                   granting, faults>>

-----------------------------------------------------------------------------
(* Challenges and participants                                             *)

CreateChallenge(c, t) ==
    /\ c \notin DOMAIN challenge
    /\ challenge' = Put(challenge, c, [terms |-> t, createdAt |-> now])
    /\ UNCHANGED <<now, participant, donation, workerVars, mail, notified,
                   granting, faults>>

\* x ?? undefined in the data of an update: null leaves the column.
Keeping(old, x) == IF x = None THEN old ELSE x

\* updateChallenge connects categories and never disconnects one, and no
\* amount or number becomes null.
UpdateChallenge(c, t) ==
    LET old == challenge[c].terms IN
    /\ c \in DOMAIN challenge
    /\ challenge' = [challenge EXCEPT ![c].terms =
          [t EXCEPT
              !.requiredDonationAmount = Keeping(old.requiredDonationAmount, @),
              !.requiredNumOfDonation = Keeping(old.requiredNumOfDonation, @),
              !.targetCampaignCategories = @ \cup old.targetCampaignCategories]]
    /\ UNCHANGED <<now, participant, donation, workerVars, mail, notified,
                   granting, faults>>

\* createParticipant: the pair is the primary key; expiry is not looked at.
CreateParticipant(u, c) ==
    /\ c \in DOMAIN challenge
    /\ <<u, c>> \notin DOMAIN participant
    /\ participant' = Put(participant, <<u, c>>,
          [rewardEmailId |-> None, rejected |-> FALSE,
           status |-> "IN_PROGRESS", createdAt |-> now])
    /\ UNCHANGED <<now, challenge, donation, workerVars, mail, notified,
                   granting, faults>>

\* updateChallengeParticipant, with an image or without one.
UpdateParticipant(u, c, image) ==
    /\ <<u, c>> \in DOMAIN participant
    /\ participant' = [participant EXCEPT ![<<u, c>>] =
          [@ EXCEPT !.status = "UNDER_REVIEW",
                    !.rejected = participant[<<u, c>>].rejected /\ ~image]]
    /\ UNCHANGED <<now, challenge, donation, workerVars, mail, notified,
                   granting, faults>>

\* adminUpdateChallengeParticipant with a reward email: the row, and then, by
\* another await, the notification.
AdminRewards(u, c) ==
    /\ <<u, c>> \in DOMAIN participant
    /\ participant' = [participant EXCEPT ![<<u, c>>] =
          [@ EXCEPT !.rewardEmailId = "admin", !.rejected = FALSE,
                    !.status = "COMPLETED"]]
    /\ granting' = granting \cup {<<u, c>>}
    /\ UNCHANGED <<now, challenge, donation, workerVars, mail, notified, faults>>

AdminNotifies(u, c) ==
    /\ <<u, c>> \in granting
    /\ notified' = notified \cup {<<u, c>>}
    /\ granting' = granting \ {<<u, c>>}
    /\ UNCHANGED <<now, challenge, participant, donation, workerVars, mail, faults>>

\* notification.create throws: the admin is told that the update failed.
AdminNotificationFails(u, c) ==
    /\ <<u, c>> \in granting
    /\ granting' = granting \ {<<u, c>>}
    /\ UNCHANGED <<now, challenge, participant, donation, workerVars, mail,
                   notified, faults>>

\* adminUpdateChallengeParticipant without one: the reason is written if there
\* is one.  An id that is empty is written, too, but completes nothing.
AdminRejects(u, c, emptyId, reason) ==
    /\ <<u, c>> \in DOMAIN participant
    /\ participant' = [participant EXCEPT ![<<u, c>>] =
          [@ EXCEPT !.rewardEmailId =
                        IF emptyId THEN "admin"
                                   ELSE participant[<<u, c>>].rewardEmailId,
                    !.rejected = participant[<<u, c>>].rejected \/ reason]]
    /\ UNCHANGED <<now, challenge, donation, workerVars, mail, notified,
                   granting, faults>>

-----------------------------------------------------------------------------
(* Donations and their jobs: what handleStripeWebhook does (Payments)      *)

StoreDonation(u, amt, k) ==
    LET d == NewKey(Donation, donation) IN
    /\ HasRoom(Donation, donation)
    /\ donation' = Put(donation, d,
          [userId |-> u, amount |-> amt, category |-> k, createdAt |-> now])
    /\ UNCHANGED <<now, challenge, participant, workerVars, mail, notified,
                   granting, faults>>

EnqueueReward(d) ==
    /\ d \in DOMAIN donation \ DOMAIN job
    /\ job' = Put(job, d, [state |-> "waiting", stalls |-> 0])
    /\ UNCHANGED <<now, challenge, participant, donation, run, mail, notified,
                   granting, faults>>

-----------------------------------------------------------------------------
(* Bull                                                                    *)

StartRun(d) ==
    /\ d \in DOMAIN job
    /\ job[d].state = "waiting"
    /\ HasRoom(Run, run)
    /\ job' = [job EXCEPT ![d].state = "active"]
    /\ run' = Put(run, NewKey(Run, run),
          [pc |-> "read", donationId |-> d, todo |-> {},
           terms |-> [c \in Challenge |-> None], current |-> None])
    /\ UNCHANGED <<now, challenge, participant, donation, mail, notified,
                   granting, faults>>

\* The lock of an active job ran out: the worker died, or was only slow.
Stall(d) ==
    /\ d \in DOMAIN job
    /\ job[d].state = "active"
    /\ job' = [job EXCEPT ![d] =
          IF @.stalls < MaxStalls
          THEN [state |-> "waiting", stalls |-> @.stalls + 1]
          ELSE [state |-> "failed", stalls |-> @.stalls]]
    /\ UNCHANGED <<now, challenge, participant, donation, run, mail, notified,
                   granting, faults>>

-----------------------------------------------------------------------------
(* handleChallengeRewardEmail                                              *)

At(r, pc) == r \in DOMAIN run /\ run[r].pc = pc
DonorOf(r) == donation[run[r].donationId].userId
Current(r) == <<DonorOf(r), run[r].current>>

\* Mutants of Unrewarded: keys for challenges; rewarded ones are not left out.
UnrewardedKeys(u) ==
    {p \in DOMAIN participant : p[1] = u /\ participant[p].rewardEmailId = None}
UnrewardedOrNot(u) ==
    {c \in DOMAIN challenge :
        /\ <<u, c>> \in DOMAIN participant
        /\ challenge[c].terms.challengeType = "DONATION"}

\* participatedDonationChallenges of user u: not rewarded yet.
Unrewarded(u) ==
    {c \in DOMAIN challenge :
        /\ <<u, c>> \in DOMAIN participant
        /\ participant[<<u, c>>].rewardEmailId = None
        /\ challenge[c].terms.challengeType = "DONATION"}

\* fulfilledDonations of user u for terms t.
Fulfilled(u, t) ==
    {d \in DOMAIN donation :
        /\ donation[d].userId = u
        /\ donation[d].amount >= t.requiredDonationAmount
        /\ donation[d].category \in t.targetCampaignCategories
        /\ donation[d].createdAt <= t.expiredAt}

\* n donations are as many as t asks for; n >= null is true.
IsEnough(n, t) ==
    t.requiredNumOfDonation = None \/ n >= t.requiredNumOfDonation

\* Mutant of IsFulfilled: off by one.
IsAlmostFulfilled(u, t) == IsEnough(Cardinality(Fulfilled(u, t)) + 1, t)

IsFulfilled(u, t) == IsEnough(Cardinality(Fulfilled(u, t)), t)

\* One query reads the participations with their challenges.
ReadParticipants(r) ==
    LET todo == Unrewarded(DonorOf(r)) IN
    /\ At(r, "read")
    /\ run' = [run EXCEPT ![r] =
          [@ EXCEPT !.pc = "next", !.todo = todo,
                    !.terms = [c \in Challenge |->
                        IF c \in todo THEN challenge[c].terms ELSE None]]]
    /\ UNCHANGED <<now, challenge, participant, donation, job, mail, notified,
                   granting, faults>>

\* The next participation, in whatever order the query returned them.
CountDonations(r, c) ==
    LET reward == IsFulfilled(DonorOf(r), run[r].terms[c]) IN
    /\ At(r, "next")
    /\ c \in run[r].todo
    /\ run[r].terms[c].requiredDonationAmount # None
    /\ run' = [run EXCEPT ![r] =
          [@ EXCEPT !.pc = IF reward THEN "email" ELSE "next",
                    !.todo = run[r].todo \ {c},
                    !.current = IF reward THEN c ELSE run[r].current]]
    /\ UNCHANGED <<now, challenge, participant, donation, job, mail, notified,
                   granting, faults>>

\* Mutant of SendEmail: the notification before the row.
SendEmailAndNotify(r) ==
    /\ At(r, "email")
    /\ mail' = mail \cup {<<r, Current(r)>>}
    /\ run' = [run EXCEPT ![r].pc = "notify"]
    /\ UNCHANGED <<now, challenge, participant, donation, job, notified, granting,
                   faults>>

SendEmail(r) ==
    /\ At(r, "email")
    /\ mail' = mail \cup {<<r, Current(r)>>}
    /\ run' = [run EXCEPT ![r].pc = "update"]
    /\ UNCHANGED <<now, challenge, participant, donation, job, notified, granting,
                   faults>>

\* Mutant of MarkRewarded: an emailId of undefined, which Prisma leaves out.
MarkCompletedOnly(r) ==
    /\ At(r, "update")
    /\ participant' = [participant EXCEPT ![Current(r)].status = "COMPLETED"]
    /\ run' = [run EXCEPT ![r].pc = "notify"]
    /\ UNCHANGED <<now, challenge, donation, job, mail, notified,
                   granting, faults>>

MarkRewarded(r) ==
    /\ At(r, "update")
    /\ participant' = [participant EXCEPT ![Current(r)] =
          [@ EXCEPT !.rewardEmailId = "", !.status = "COMPLETED"]]
    /\ run' = [run EXCEPT ![r].pc = "notify"]
    /\ UNCHANGED <<now, challenge, donation, job, mail, notified,
                   granting, faults>>

Notify(r) ==
    /\ At(r, "notify")
    /\ notified' = notified \cup {Current(r)}
    /\ run' = [run EXCEPT ![r].pc = "next"]
    /\ UNCHANGED <<now, challenge, participant, donation, job, mail, granting,
                   faults>>

\* What the queue makes of the end of a run: a stalled job is not its any more.
Settle(r, s) ==
    LET d == run[r].donationId IN
    job' = IF job[d].state = "active"
           THEN [job EXCEPT ![d].state = s] ELSE job

Finish(r) ==
    /\ At(r, "next")
    /\ run[r].todo = {}
    /\ run' = [run EXCEPT ![r].pc = "done"]
    /\ Settle(r, "completed")
    /\ UNCHANGED <<now, challenge, participant, donation, mail, notified,
                   granting, faults>>

\* An await throws; attempts is 1, so the job is over.
Throw(r) ==
    /\ run' = [run EXCEPT ![r].pc = "failed"]
    /\ Settle(r, "failed")
    /\ UNCHANGED <<now, challenge, participant, donation, mail, notified, granting>>

\* Prisma refuses gte: null, whatever participations are left.
CountThrows(r, c) ==
    /\ At(r, "next")
    /\ c \in run[r].todo
    /\ run[r].terms[c].requiredDonationAmount = None
    /\ Throw(r)
    /\ UNCHANGED faults

RunFails(r) ==
    /\ \E pc \in Live : At(r, pc)
    /\ faults < MaxFaults
    /\ faults' = faults + 1
    /\ Throw(r)

\* The process dies: the queue, in Redis, still says active.
Crash ==
    /\ granting # {} \/ \E r \in DOMAIN run : run[r].pc \in Live
    /\ faults < MaxFaults
    /\ faults' = faults + 1
    /\ run' = [r \in DOMAIN run |->
                  IF run[r].pc \in Live THEN [run[r] EXCEPT !.pc = "dead"]
                                        ELSE run[r]]
    /\ granting' = {}
    /\ UNCHANGED <<now, challenge, participant, donation, job, mail, notified>>

-----------------------------------------------------------------------------
People ==
    \/ \E c \in Challenge, t \in Terms : CreateChallenge(c, t) \/ UpdateChallenge(c, t)
    \/ \E u \in User, c \in Challenge :
          \/ CreateParticipant(u, c)
          \/ \E image \in BOOLEAN : UpdateParticipant(u, c, image)
          \/ AdminRewards(u, c)
          \/ AdminNotifies(u, c)
          \/ AdminNotificationFails(u, c)
          \/ \E emptyId, reason \in BOOLEAN : AdminRejects(u, c, emptyId, reason)
    \/ \E u \in User, amt \in Amount, k \in Category : StoreDonation(u, amt, k)

Work(r) ==
    \/ ReadParticipants(r)
    \/ \E c \in Challenge : CountDonations(r, c) \/ CountThrows(r, c)
    \/ SendEmail(r)
    \/ MarkRewarded(r)
    \/ Notify(r)
    \/ Finish(r)

Next ==
    \/ Tick
    \/ People
    \/ \E d \in Donation : EnqueueReward(d) \/ StartRun(d) \/ Stall(d)
    \/ \E r \in Run : Work(r) \/ RunFails(r)
    \/ Crash

Spec == Init /\ [][Next]_vars

\* No run that may still end works on the job of d (Bull will find it stalled).
Abandoned(d) == \A r \in DOMAIN run : run[r].donationId = d => run[r].pc \notin Live

-----------------------------------------------------------------------------
(* Properties                                                              *)

\* A participant marked by the worker (rewardEmailId not null and not the
\* admin's) was sent the email before: the mark is what keeps every later run
\* from sending one, so a mark without a mail is a reward nobody ever gets.
MarkedWasMailed ==
    \A p \in DOMAIN participant :
        participant[p].rewardEmailId = "" => \E r \in Run : <<r, p>> \in mail

\* A reward is only mailed to who has earned it by the terms the run had
\* read: enough donations, big enough, to the right categories, in time.  Terms
\* without an amount reward nobody; those without a number ask for nothing.
MailedHasEarned ==
    \A r \in Run, u \in User, c \in Challenge : <<r, <<u, c>>>> \in mail =>
        LET t == run[r].terms[c]
            counted == {d \in DOMAIN donation :
                           /\ donation[d].userId = u
                           /\ donation[d].amount >= t.requiredDonationAmount
                           /\ donation[d].category \in t.targetCampaignCategories
                           /\ donation[d].createdAt <= t.expiredAt}
        IN  /\ t.requiredDonationAmount # None
            /\ \/ t.requiredNumOfDonation = None
               \/ Cardinality(counted) >= t.requiredNumOfDonation

\* A challenge completed is a challenge rewarded, through every order of
\* worker, donor (updateChallengeParticipant) and admin.
CompletedIsRewarded ==
    \A p \in DOMAIN participant :
        participant[p].status = "COMPLETED" => participant[p].rewardEmailId # None

\* The reward notification never runs ahead of the reward.
NotifiedIsRewarded ==
    \A p \in notified :
        p \in DOMAIN participant /\ participant[p].rewardEmailId # None

\* Mail, mark and notification come in this order, whoever makes the last two
\* and wherever the worker is stopped between them.
RewardsInOrder == MarkedWasMailed /\ NotifiedIsRewarded

Rewarded(p) == p \in DOMAIN participant /\ participant[p].rewardEmailId # None
NotYetRead(r) == r \notin DOMAIN run \/ run[r].pc = "read"

\* The mark is what keeps a reward from being sent again: a run that has not
\* read the participations yet when p is marked never mails p, whatever other
\* runs, the donor and the admin do to the row in the meantime.
LateRunsDoNotMail ==
    \A r \in Run, p \in Key :
        [](Rewarded(p) /\ NotYetRead(r) => [](<<r, p>> \notin mail))

\* The worker and the admin keep the book of RewardBook: a participation is
\* open until its rewardEmailId is set, and a run has taken up those whose
\* terms it has read.
Standing(rewardEmailId) ==
    CASE rewardEmailId = None -> "open"
      [] rewardEmailId = "" -> "given"
      [] rewardEmailId = "admin" -> "granted"
BookOf ==
    [p \in DOMAIN participant |-> Standing(participant[p].rewardEmailId)]
TakenUp ==
    {m \in Run \X Key :
        /\ m[1] \in DOMAIN run
        /\ m[2][1] = DonorOf(m[1])
        /\ run[m[1]].terms[m[2][2]] # None}

Book == INSTANCE RewardBook WITH
    Worker <- Run, Participation <- Key, book <- BookOf, taken <- TakenUp

\* Every behaviour of worker, donors and admin, through stalls, failures and
\* crashes, is one that RewardBook allows: mail, mark and notification come in
\* this order, a run rewards only who was open when it looked, it looks once,
\* and nothing is ever taken back.
ImplementsBook == Book!Spec
=============================================================================
