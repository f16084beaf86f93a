----------------------- MODULE ChallengeRewardsProofs -----------------------
(***************************************************************************)
(* Proofs about ChallengeRewards, for any number of donors, challenges,    *)
(* donations, runs, stalled jobs, failures and crashes.                    *)
(***************************************************************************)
EXTENDS ChallengeRewards, FiniteSetTheorems, TLAPS

-----------------------------------------------------------------------------
(* The inductive invariant                                                 *)

\* A job is about a stored donation, and so is a run.
JobsHaveDonations ==
    /\ DOMAIN job \subseteq DOMAIN donation
    /\ \A r \in DOMAIN run : run[r].donationId \in DOMAIN donation

\* What a run that waits at some pc knows and has done so far.
RunSoFar(r) ==
    /\ \A c \in run[r].todo : <<DonorOf(r), c>> \in DOMAIN participant
    /\ run[r].pc \in {"email", "update", "notify"} =>
           /\ run[r].current \in Challenge
           /\ Current(r) \in DOMAIN participant
    /\ run[r].pc = "update" => <<r, Current(r)>> \in mail
    /\ run[r].pc = "notify" => participant[Current(r)].rewardEmailId # None

\* The admin notifies only whom the row has rewarded already.
GrantingIsRewarded ==
    \A p \in granting : p \in DOMAIN participant /\ participant[p].rewardEmailId # None

IInv ==
    /\ TypeOK
    /\ JobsHaveDonations
    /\ GrantingIsRewarded
    /\ \A r \in DOMAIN run : RunSoFar(r)
    /\ MarkedWasMailed
    /\ CompletedIsRewarded
    /\ NotifiedIsRewarded

\* Nothing is stored, queued, mailed or notified at first.
LEMMA InitIInv == Init => IInv
<1>. SUFFICES ASSUME Init PROVE IInv
  OBVIOUS
<1>1. TypeOK
  BY BoundAssumption DEF Init, TypeOK, IsTable, EmptyTable
<1>2. QED
  BY <1>1
     DEF Init, IInv, JobsHaveDonations, GrantingIsRewarded, MarkedWasMailed,
         CompletedIsRewarded, NotifiedIsRewarded, IsTable, EmptyTable

-----------------------------------------------------------------------------
(* Types                                                                   *)

\* A run that only moves on is still a run.
LEMMA MoveType ==
    ASSUME TypeOK, NEW r \in DOMAIN run,
           NEW pc \in Live \cup {"done", "failed", "dead"}
    PROVE  IsTable([run EXCEPT ![r].pc = pc], Run, RunRow)
<1>1. run[r] \in RunRow
  BY DEF TypeOK, IsTable
<1>2. [run[r] EXCEPT !.pc = pc] \in RunRow
  BY <1>1 DEF RunRow
<1>. QED
  BY <1>2 DEF TypeOK, IsTable

\* The end of a run leaves the queue a queue.
LEMMA SettleType ==
    ASSUME TypeOK, NEW r \in DOMAIN run, NEW s \in {"completed", "failed"},
           Settle(r, s)
    PROVE  IsTable(job', Donation, JobRow)
BY DEF TypeOK, IsTable, Settle, JobRow

\* A participant whose row becomes another row stays a participant.
LEMMA ParticipantType ==
    ASSUME TypeOK, NEW p \in DOMAIN participant, NEW row \in ParticipantRow
    PROVE  IsTable([participant EXCEPT ![p] = row], Key, ParticipantRow)
BY DEF TypeOK, IsTable

\* Every step keeps every table a table and every counter in its bounds.
LEMMA TypeStep == IInv /\ [Next]_vars => TypeOK'
<1>. SUFFICES ASSUME IInv, [Next]_vars PROVE TypeOK'
  OBVIOUS
<1>t. TypeOK
  BY DEF IInv
<1>. USE <1>t
<1>1. CASE Tick
  BY <1>1, BoundAssumption DEF Tick, TypeOK, workerVars
<1>2. ASSUME NEW c \in Challenge, NEW t \in Terms, CreateChallenge(c, t)
      PROVE  TypeOK'
  <2>1. [terms |-> t, createdAt |-> now] \in ChallengeRow
    BY TermsAssumption, BoundAssumption DEF ChallengeRow, TypeOK
  <2>2. IsTable(challenge', Challenge, ChallengeRow)
    BY <1>2, <2>1 DEF CreateChallenge, TypeOK, IsTable, Put
  <2>. QED
    BY <1>2, <2>2 DEF CreateChallenge, TypeOK, workerVars
<1>3. ASSUME NEW c \in Challenge, NEW t \in Terms, UpdateChallenge(c, t)
      PROVE  TypeOK'
  <2>1. c \in DOMAIN challenge /\ challenge[c] \in ChallengeRow
    BY <1>3 DEF UpdateChallenge, TypeOK, IsTable
  <2>2. PICK old \in TermsRow : old = challenge[c].terms
    BY <2>1 DEF ChallengeRow
  <2>. DEFINE amount == Keeping(old.requiredDonationAmount, t.requiredDonationAmount)
              number == Keeping(old.requiredNumOfDonation, t.requiredNumOfDonation)
              categories == t.targetCampaignCategories
                                \cup old.targetCampaignCategories
              terms == [t EXCEPT !.requiredDonationAmount = amount,
                                 !.requiredNumOfDonation = number,
                                 !.targetCampaignCategories = categories]
  <2>3. t \in TermsRow
    BY TermsAssumption
  <2>4. /\ amount \in Nat \cup {None} /\ number \in Nat \cup {None}
        /\ categories \in SUBSET Category
    BY <2>2, <2>3 DEF TermsRow, Keeping
  <2>5. challenge' = [challenge EXCEPT ![c].terms = terms]
    BY <1>3, <2>2 DEF UpdateChallenge
  <2>. HIDE DEF amount, number, categories
  <2>6. terms \in TermsRow
    BY <2>3, <2>4 DEF TermsRow
  <2>. HIDE DEF terms
  <2>7. [challenge[c] EXCEPT !.terms = terms] \in ChallengeRow
    BY <2>1, <2>6 DEF ChallengeRow
  <2>8. IsTable(challenge', Challenge, ChallengeRow)
    BY <2>1, <2>5, <2>7 DEF TypeOK, IsTable
  <2>. QED
    BY <1>3, <2>8 DEF UpdateChallenge, TypeOK, workerVars
<1>4. ASSUME NEW u \in User, NEW c \in Challenge, CreateParticipant(u, c)
      PROVE  TypeOK'
  <2>0. now \in Nat
    BY BoundAssumption DEF TypeOK
  <2>1. [rewardEmailId |-> None, rejected |-> FALSE,
         status |-> "IN_PROGRESS", createdAt |-> now] \in ParticipantRow
    BY <2>0 DEF ParticipantRow
  <2>2. <<u, c>> \in Key
    BY DEF Key
  <2>3. IsTable(participant', Key, ParticipantRow)
    BY <1>4, <2>1, <2>2 DEF CreateParticipant, TypeOK, IsTable, Put
  <2>. QED
    BY <1>4, <2>3 DEF CreateParticipant, TypeOK, workerVars
<1>5. ASSUME NEW u \in User, NEW c \in Challenge, NEW image \in BOOLEAN,
             UpdateParticipant(u, c, image)
      PROVE  TypeOK'
  <2>. DEFINE old == participant[<<u, c>>]
              rejected == old.rejected /\ ~image
              new == [old EXCEPT !.status = "UNDER_REVIEW",
                                 !.rejected = rejected]
  <2>1. <<u, c>> \in DOMAIN participant /\ old \in ParticipantRow
    BY <1>5 DEF UpdateParticipant, TypeOK, IsTable
  <2>2. participant' = [participant EXCEPT ![<<u, c>>] = new]
    BY <1>5 DEF UpdateParticipant
  <2>5. rejected \in BOOLEAN
    OBVIOUS
  <2>. HIDE DEF rejected
  <2>3. new \in ParticipantRow
    BY <2>1, <2>5 DEF ParticipantRow
  <2>. HIDE DEF old, new
  <2>4. IsTable(participant', Key, ParticipantRow)
    BY <2>1, <2>2, <2>3, ParticipantType
  <2>. QED
    BY <1>5, <2>4 DEF UpdateParticipant, TypeOK, workerVars
<1>6. ASSUME NEW u \in User, NEW c \in Challenge, AdminRewards(u, c)
      PROVE  TypeOK'
  <2>. DEFINE old == participant[<<u, c>>]
              new == [old EXCEPT !.rewardEmailId = "admin", !.rejected = FALSE,
                                 !.status = "COMPLETED"]
  <2>1. <<u, c>> \in DOMAIN participant /\ old \in ParticipantRow
    BY <1>6 DEF AdminRewards, TypeOK, IsTable
  <2>2. new \in ParticipantRow
    BY <2>1 DEF ParticipantRow
  <2>3. participant' = [participant EXCEPT ![<<u, c>>] = new]
    BY <1>6 DEF AdminRewards
  <2>. HIDE DEF old, new
  <2>4. IsTable(participant', Key, ParticipantRow)
    BY <2>1, <2>2, <2>3, ParticipantType
  <2>5. <<u, c>> \in Key
    BY DEF Key
  <2>. QED
    BY <1>6, <2>4, <2>5 DEF AdminRewards, TypeOK, workerVars
<1>20. ASSUME NEW u \in User, NEW c \in Challenge,
              NEW emptyId \in BOOLEAN, NEW reason \in BOOLEAN,
              AdminRejects(u, c, emptyId, reason)
       PROVE  TypeOK'
  <2>. DEFINE old == participant[<<u, c>>]
              id == IF emptyId THEN "admin" ELSE old.rewardEmailId
              rejected == old.rejected \/ reason
              new == [old EXCEPT !.rewardEmailId = id, !.rejected = rejected]
  <2>1. <<u, c>> \in DOMAIN participant /\ old \in ParticipantRow
    BY <1>20 DEF AdminRejects, TypeOK, IsTable
  <2>2. id \in {None, "", "admin"}
    BY <2>1 DEF ParticipantRow
  <2>3. rejected \in BOOLEAN
    OBVIOUS
  <2>4. participant' = [participant EXCEPT ![<<u, c>>] = new]
    BY <1>20 DEF AdminRejects
  <2>. HIDE DEF id, rejected
  <2>5. new \in ParticipantRow
    BY <2>1, <2>2, <2>3 DEF ParticipantRow
  <2>. HIDE DEF old, new
  <2>6. IsTable(participant', Key, ParticipantRow)
    BY <2>1, <2>4, <2>5, ParticipantType
  <2>. QED
    BY <1>20, <2>6 DEF AdminRejects, TypeOK, workerVars
<1>21. ASSUME NEW u \in User, NEW c \in Challenge,
              AdminNotifies(u, c) \/ AdminNotificationFails(u, c)
       PROVE  TypeOK'
  <2>1. notified' \subseteq Key /\ granting' \subseteq Key
    BY <1>21 DEF AdminNotifies, AdminNotificationFails, TypeOK
  <2>. QED
    BY <1>21, <2>1 DEF AdminNotifies, AdminNotificationFails, TypeOK, workerVars
<1>7. ASSUME NEW u \in User, NEW amt \in Amount, NEW k \in Category,
             StoreDonation(u, amt, k)
      PROVE  TypeOK'
  <2>1. [userId |-> u, amount |-> amt, category |-> k, createdAt |-> now]
            \in DonationRow
    BY TermsAssumption, BoundAssumption DEF DonationRow, TypeOK
  <2>2. IsTable(donation', Donation, DonationRow)
    BY <1>7, <2>1 DEF StoreDonation, TypeOK, IsTable, Put, NewKey, HasRoom
  <2>. QED
    BY <1>7, <2>2 DEF StoreDonation, TypeOK, workerVars
<1>8. ASSUME NEW d \in Donation, EnqueueReward(d)
      PROVE  TypeOK'
  <2>1. IsTable(job', Donation, JobRow)
    BY <1>8 DEF EnqueueReward, TypeOK, JobRow, IsTable, Put
  <2>. QED
    BY <1>8, <2>1 DEF EnqueueReward, TypeOK
<1>9. ASSUME NEW d \in Donation, StartRun(d)
      PROVE  TypeOK'
  <2>. DEFINE row == [pc |-> "read", donationId |-> d, todo |-> {},
                      terms |-> [c \in Challenge |-> None], current |-> None]
  <2>1. row \in RunRow
    BY DEF RunRow, Live, Optional
  <2>2. IsTable(run', Run, RunRow)
    BY <1>9, <2>1 DEF StartRun, TypeOK, IsTable, Put, NewKey, HasRoom
  <2>3. IsTable(job', Donation, JobRow)
    BY <1>9 DEF StartRun, TypeOK, IsTable, JobRow
  <2>. QED
    BY <1>9, <2>2, <2>3 DEF StartRun, TypeOK
<1>10. ASSUME NEW d \in Donation, Stall(d)
       PROVE  TypeOK'
  <2>1. IsTable(job', Donation, JobRow)
    BY <1>10 DEF Stall, TypeOK, IsTable, JobRow
  <2>. QED
    BY <1>10, <2>1 DEF Stall, TypeOK
<1>11. ASSUME NEW r \in Run, ReadParticipants(r)
       PROVE  TypeOK'
  <2>. DEFINE todo == Unrewarded(DonorOf(r))
              terms == [c \in Challenge |->
                          IF c \in todo THEN challenge[c].terms ELSE None]
  <2>1. r \in DOMAIN run /\ run[r] \in RunRow
    BY <1>11 DEF ReadParticipants, At, TypeOK, IsTable
  <2>2. todo \in SUBSET Challenge
    BY DEF Unrewarded, TypeOK, IsTable
  <2>3. \A c \in todo : challenge[c].terms \in TermsRow
    BY DEF Unrewarded, TypeOK, IsTable, ChallengeRow
  <2>4. terms \in [Challenge -> Optional(TermsRow)]
    BY <2>3 DEF Optional
  <2>. DEFINE new == [run[r] EXCEPT !.pc = "next", !.todo = todo,
                                    !.terms = terms]
  <2>5. run' = [run EXCEPT ![r] = new]
    BY <1>11 DEF ReadParticipants
  <2>. HIDE DEF todo, terms
  <2>6. new \in RunRow
    BY <2>1, <2>2, <2>4 DEF RunRow, Live
  <2>. HIDE DEF new
  <2>7. IsTable(run', Run, RunRow)
    BY <2>1, <2>5, <2>6 DEF TypeOK, IsTable
  <2>. QED
    BY <1>11, <2>7 DEF ReadParticipants, TypeOK
<1>12. ASSUME NEW r \in Run, NEW c \in Challenge, CountDonations(r, c)
       PROVE  TypeOK'
  <2>1. r \in DOMAIN run /\ run[r] \in RunRow
    BY <1>12 DEF CountDonations, At, TypeOK, IsTable
  <2>. DEFINE reward == IsFulfilled(DonorOf(r), run[r].terms[c])
              new == [run[r] EXCEPT !.pc = IF reward THEN "email" ELSE "next",
                                    !.todo = run[r].todo \ {c},
                                    !.current = IF reward THEN c
                                                ELSE run[r].current]
  <2>2. run' = [run EXCEPT ![r] = new]
    BY <1>12 DEF CountDonations
  <2>. HIDE DEF reward
  <2>3. new \in RunRow
    BY <2>1 DEF RunRow, Live, Optional
  <2>. HIDE DEF new
  <2>4. IsTable(run', Run, RunRow)
    BY <2>1, <2>2, <2>3 DEF TypeOK, IsTable
  <2>. QED
    BY <1>12, <2>4 DEF CountDonations, TypeOK
<1>13. ASSUME NEW r \in Run, SendEmail(r)
       PROVE  TypeOK'
  <2>1. r \in DOMAIN run /\ run[r].pc = "email"
    BY <1>13 DEF SendEmail, At
  <2>2. IsTable(run', Run, RunRow)
    BY <1>13, <2>1, MoveType DEF SendEmail, Live
  <2>3. Current(r) \in Key
    BY <2>1 DEF IInv, RunSoFar, TypeOK, IsTable
  <2>. QED
    BY <1>13, <2>2, <2>3 DEF SendEmail, TypeOK
<1>14. ASSUME NEW r \in Run, MarkRewarded(r)
       PROVE  TypeOK'
  <2>1. r \in DOMAIN run
    BY <1>14 DEF MarkRewarded, At
  <2>2. IsTable(run', Run, RunRow)
    BY <1>14, <2>1, MoveType DEF MarkRewarded, Live
  <2>. DEFINE old == participant[Current(r)]
              new == [old EXCEPT !.rewardEmailId = "", !.status = "COMPLETED"]
  <2>4. Current(r) \in DOMAIN participant
    BY <1>14, <2>1 DEF MarkRewarded, At, IInv, RunSoFar
  <2>5. old \in ParticipantRow
    BY <2>4 DEF TypeOK, IsTable
  <2>6. new \in ParticipantRow
    BY <2>5 DEF ParticipantRow
  <2>7. participant' = [participant EXCEPT ![Current(r)] = new]
    BY <1>14 DEF MarkRewarded
  <2>. HIDE DEF old, new
  <2>3. IsTable(participant', Key, ParticipantRow)
    BY <2>4, <2>6, <2>7, ParticipantType
  <2>. QED
    BY <1>14, <2>2, <2>3 DEF MarkRewarded, TypeOK
<1>15. ASSUME NEW r \in Run, Notify(r)
       PROVE  TypeOK'
  <2>1. r \in DOMAIN run /\ run[r].pc = "notify"
    BY <1>15 DEF Notify, At
  <2>2. IsTable(run', Run, RunRow)
    BY <1>15, <2>1, MoveType DEF Notify, Live
  <2>3. Current(r) \in Key
    BY <2>1 DEF IInv, RunSoFar, TypeOK, IsTable
  <2>. QED
    BY <1>15, <2>2, <2>3 DEF Notify, TypeOK
<1>16. ASSUME NEW r \in Run, Finish(r)
       PROVE  TypeOK'
  <2>1. r \in DOMAIN run
    BY <1>16 DEF Finish, At
  <2>2. IsTable(run', Run, RunRow)
    BY <1>16, <2>1, MoveType DEF Finish
  <2>3. IsTable(job', Donation, JobRow)
    BY <1>16, <2>1, SettleType DEF Finish
  <2>. QED
    BY <1>16, <2>2, <2>3 DEF Finish, TypeOK
<1>17. ASSUME NEW r \in Run, RunFails(r) \/ \E c \in Challenge : CountThrows(r, c)
       PROVE  TypeOK'
  <2>1. r \in DOMAIN run /\ Throw(r)
    BY <1>17 DEF RunFails, CountThrows, At
  <2>2. IsTable(run', Run, RunRow)
    BY <2>1, MoveType DEF Throw
  <2>3. IsTable(job', Donation, JobRow)
    BY <2>1, SettleType DEF Throw
  <2>4. faults' \in 0..MaxFaults
    BY <1>17, BoundAssumption DEF RunFails, CountThrows, TypeOK
  <2>. QED
    BY <2>1, <2>2, <2>3, <2>4 DEF Throw, TypeOK
<1>18. CASE Crash
  <2>1. IsTable(run', Run, RunRow)
    BY <1>18 DEF Crash, TypeOK, IsTable, RunRow
  <2>2. faults' \in 0..MaxFaults
    BY <1>18, BoundAssumption DEF Crash, TypeOK
  <2>. QED
    BY <1>18, <2>1, <2>2 DEF Crash, TypeOK
<1>19. CASE UNCHANGED vars
  BY <1>19 DEF vars, workerVars, TypeOK
<1>. QED
  BY <1>1, <1>2, <1>3, <1>4, <1>5, <1>6, <1>7, <1>8, <1>9, <1>10, <1>11,
     <1>12, <1>13, <1>14, <1>15, <1>16, <1>17, <1>18, <1>19, <1>20, <1>21
     DEF Next, People, Work
-----------------------------------------------------------------------------
(* Nothing recorded is ever forgotten                                      *)

\* What every step leaves as it is.
Grows ==
    /\ \A d \in DOMAIN donation : d \in DOMAIN donation' /\ donation'[d] = donation[d]
    /\ \A p \in DOMAIN participant :
          /\ p \in DOMAIN participant'
          /\ participant[p].rewardEmailId # None
                => participant'[p].rewardEmailId # None
    /\ \A r \in DOMAIN run :
          r \in DOMAIN run' /\ run'[r].donationId = run[r].donationId
    /\ mail \subseteq mail'

\* The actions that write participants.
WritesParticipants ==
    \/ \E u \in User, c \in Challenge :
          \/ CreateParticipant(u, c)
          \/ \E image \in BOOLEAN : UpdateParticipant(u, c, image)
          \/ AdminRewards(u, c)
          \/ \E emptyId, reason \in BOOLEAN : AdminRejects(u, c, emptyId, reason)
    \/ \E r \in Run : MarkRewarded(r)

\* The actions that write runs.
WritesRuns ==
    \/ \E d \in Donation : StartRun(d)
    \/ \E r \in Run : Work(r) \/ RunFails(r)
    \/ Crash

\* Nothing else writes participants.
LEMMA WhoWritesParticipants ==
    [Next]_vars => UNCHANGED participant \/ WritesParticipants
BY DEF Next, People, Work, WritesParticipants, Tick, CreateChallenge,
   UpdateChallenge, AdminNotifies, AdminNotificationFails, StoreDonation,
   EnqueueReward, StartRun, Stall, ReadParticipants, CountDonations, SendEmail,
   Notify, Finish, RunFails, CountThrows, Throw, Crash, vars

\* Nothing else writes runs.
LEMMA WhoWritesRuns ==
    [Next]_vars => UNCHANGED run \/ WritesRuns
BY DEF Next, People, WritesRuns, Tick, CreateChallenge, UpdateChallenge,
   CreateParticipant, UpdateParticipant, AdminRewards,
   AdminNotifies, AdminNotificationFails, AdminRejects,
   StoreDonation, EnqueueReward, Stall, vars, workerVars

\* Donations are only added.
LEMMA WhoWritesDonations ==
    [Next]_vars =>
        \/ UNCHANGED donation
        \/ \E u \in User, amt \in Amount, k \in Category : StoreDonation(u, amt, k)
BY DEF Next, People, Work, Tick, CreateChallenge, UpdateChallenge,
   CreateParticipant, UpdateParticipant, AdminRewards,
   AdminNotifies, AdminNotificationFails, AdminRejects,
   EnqueueReward, StartRun, Stall, ReadParticipants,
   CountDonations, SendEmail, MarkRewarded, Notify, Finish, RunFails,
   CountThrows, Throw, Crash, vars

\* Mails are only added.
LEMMA WhoSendsMail ==
    [Next]_vars => UNCHANGED mail \/ \E r \in Run : SendEmail(r)
BY DEF Next, People, Work, Tick, CreateChallenge, UpdateChallenge,
   CreateParticipant, UpdateParticipant, AdminRewards,
   AdminNotifies, AdminNotificationFails, AdminRejects,
   StoreDonation, EnqueueReward, StartRun, Stall, ReadParticipants,
   CountDonations, MarkRewarded, Notify, Finish, RunFails,
   CountThrows, Throw, Crash, vars

\* What may become of the row of a participant.
RowStep(p) ==
    \/ p \in DOMAIN participant /\ participant'[p] = participant[p]
    \/ /\ p \notin DOMAIN participant
       /\ participant'[p].rewardEmailId = None
       /\ participant'[p].status = "IN_PROGRESS"
    \/ /\ p \in DOMAIN participant
       /\ participant'[p].rewardEmailId = participant[p].rewardEmailId
       /\ participant'[p].status = "COMPLETED" => participant[p].status = "COMPLETED"
    \/ /\ p \in DOMAIN participant
       /\ participant'[p].rewardEmailId = "admin"
    \/ /\ p \in DOMAIN participant
       /\ participant'[p].rewardEmailId = ""
       /\ \E r \in Run : MarkRewarded(r) /\ p = Current(r)

RowsStep ==
    /\ DOMAIN participant \subseteq DOMAIN participant'
    /\ \A p \in DOMAIN participant' : RowStep(p)

\* Participants are never removed, and change row by row.
LEMMA ParticipantStep ==
    IInv /\ [Next]_vars => RowsStep
<1>. SUFFICES ASSUME IInv, [Next]_vars
              PROVE  RowsStep
  OBVIOUS
<1>t. \A p \in DOMAIN participant : participant[p] \in ParticipantRow
  BY DEF IInv, TypeOK, IsTable
<1>1. CASE UNCHANGED participant
  BY <1>1 DEF RowsStep, RowStep
<1>2. ASSUME NEW u \in User, NEW c \in Challenge, CreateParticipant(u, c)
      PROVE  RowsStep
  BY <1>2 DEF CreateParticipant, Put, RowsStep, RowStep
<1>3. ASSUME NEW u \in User, NEW c \in Challenge, NEW image \in BOOLEAN,
             UpdateParticipant(u, c, image)
      PROVE  RowsStep
  BY <1>t, <1>3 DEF UpdateParticipant, RowsStep, RowStep, ParticipantRow
<1>4. ASSUME NEW u \in User, NEW c \in Challenge, AdminRewards(u, c)
      PROVE  RowsStep
  <2>. DEFINE k == <<u, c>>
              new == [participant[k] EXCEPT !.rewardEmailId = "admin",
                         !.rejected = FALSE, !.status = "COMPLETED"]
  <2>1. k \in DOMAIN participant
    BY <1>4 DEF AdminRewards
  <2>2. new.rewardEmailId = "admin"
    BY <1>t, <2>1 DEF ParticipantRow
  <2>3. participant' = [participant EXCEPT ![k] = new]
    BY <1>4 DEF AdminRewards
  <2>. HIDE DEF new, k
  <2>. QED
    BY <2>1, <2>2, <2>3 DEF RowsStep, RowStep
<1>6. ASSUME NEW u \in User, NEW c \in Challenge,
             NEW emptyId \in BOOLEAN, NEW reason \in BOOLEAN,
             AdminRejects(u, c, emptyId, reason)
      PROVE  RowsStep
  BY <1>t, <1>6 DEF AdminRejects, RowsStep, RowStep, ParticipantRow
<1>5. ASSUME NEW r \in Run, MarkRewarded(r)
      PROVE  RowsStep
  <2>. DEFINE k == Current(r)
              new == [participant[k] EXCEPT !.rewardEmailId = "",
                                            !.status = "COMPLETED"]
  <2>1. k \in DOMAIN participant
    BY <1>5 DEF MarkRewarded, At, IInv, RunSoFar
  <2>2. new.rewardEmailId = ""
    BY <1>t, <2>1 DEF ParticipantRow
  <2>3. participant' = [participant EXCEPT ![k] = new]
    BY <1>5 DEF MarkRewarded
  <2>4. \A p \in DOMAIN participant' :
           IF p = k THEN participant'[p] = new ELSE participant'[p] = participant[p]
    BY <2>3
  <2>5. DOMAIN participant' = DOMAIN participant
    BY <2>3
  <2>. HIDE DEF new
  <2>. QED
    BY <1>5, <2>1, <2>2, <2>4, <2>5 DEF RowsStep, RowStep
<1>. QED
  BY WhoWritesParticipants, <1>1, <1>2, <1>3, <1>4, <1>5, <1>6 DEF WritesParticipants

\* What may become of a run: it stays, moves on, or starts.
LEMMA RunDomainStep ==
    IInv /\ [Next]_vars =>
        \A r \in DOMAIN run :
            r \in DOMAIN run' /\ run'[r].donationId = run[r].donationId
<1>. SUFFICES ASSUME IInv, [Next]_vars
              PROVE  \A r \in DOMAIN run : r \in DOMAIN run'
                        /\ run'[r].donationId = run[r].donationId
  OBVIOUS
<1>t. \A r \in DOMAIN run : run[r] \in RunRow
  BY DEF IInv, TypeOK, IsTable
<1>1. CASE UNCHANGED run
  BY <1>1
<1>2. ASSUME NEW d \in Donation, StartRun(d)
      PROVE  \A r \in DOMAIN run : r \in DOMAIN run'
                /\ run'[r].donationId = run[r].donationId
  BY <1>2 DEF StartRun, Put, NewKey, HasRoom
<1>3. ASSUME NEW s \in Run, Work(s) \/ RunFails(s)
      PROVE  \A r \in DOMAIN run : r \in DOMAIN run'
                /\ run'[r].donationId = run[r].donationId
  <2>1. CASE ReadParticipants(s)
    BY <1>t, <2>1 DEF ReadParticipants, RunRow
  <2>2. ASSUME NEW c \in Challenge, CountDonations(s, c)
        PROVE  \A r \in DOMAIN run : r \in DOMAIN run'
                  /\ run'[r].donationId = run[r].donationId
    BY <1>t, <2>2 DEF CountDonations, RunRow
  <2>3. CASE SendEmail(s) \/ MarkRewarded(s) \/ Notify(s) \/ Finish(s)
    BY <1>t, <2>3 DEF SendEmail, MarkRewarded, Notify, Finish, RunRow
  <2>4. CASE RunFails(s) \/ \E c \in Challenge : CountThrows(s, c)
    <3>1. Throw(s)
      BY <2>4 DEF RunFails, CountThrows
    <3>2. DOMAIN run' = DOMAIN run
      BY <3>1 DEF Throw
    <3>. QED
      BY <1>t, <3>1, <3>2 DEF Throw, RunRow
  <2>. QED
    BY <1>3, <2>1, <2>2, <2>3, <2>4 DEF Work
<1>4. CASE Crash
  BY <1>t, <1>4 DEF Crash, RunRow
<1>. QED
  BY WhoWritesRuns, <1>1, <1>2, <1>3, <1>4 DEF WritesRuns

\* Every step only adds to what the database, the queue and the mail hold.
LEMMA StepGrows == IInv /\ [Next]_vars => Grows
<1>. SUFFICES ASSUME IInv, [Next]_vars PROVE Grows
  OBVIOUS
<1>1. \A d \in DOMAIN donation : d \in DOMAIN donation' /\ donation'[d] = donation[d]
  <2>1. ASSUME NEW u \in User, NEW amt \in Amount, NEW k \in Category,
               StoreDonation(u, amt, k)
        PROVE  \A d \in DOMAIN donation :
                  d \in DOMAIN donation' /\ donation'[d] = donation[d]
    BY <2>1 DEF StoreDonation, Put, NewKey, HasRoom
  <2>. QED
    BY <2>1, WhoWritesDonations
<1>2. mail \subseteq mail'
  BY WhoSendsMail DEF SendEmail
<1>3. \A p \in DOMAIN participant :
          /\ p \in DOMAIN participant'
          /\ participant[p].rewardEmailId # None
                => participant'[p].rewardEmailId # None
  <2>. TAKE p \in DOMAIN participant
  <2>1. p \in DOMAIN participant' /\ RowStep(p)
    BY ParticipantStep DEF RowsStep
  <2>. QED
    BY <2>1, NoneIsNoRow DEF RowStep
<1>. QED
  BY <1>1, <1>2, <1>3, RunDomainStep DEF Grows

-----------------------------------------------------------------------------
(* Runs                                                                    *)

\* Jobs and runs keep their donations.
LEMMA JobsStep == IInv /\ [Next]_vars => JobsHaveDonations'
<1>. SUFFICES ASSUME IInv, [Next]_vars PROVE JobsHaveDonations'
  OBVIOUS
<1>1. DOMAIN job' \subseteq DOMAIN donation'
  <2>1. DOMAIN job \subseteq DOMAIN donation'
    BY StepGrows DEF Grows, IInv, JobsHaveDonations
  <2>2. DOMAIN job' = DOMAIN job \/ \E d \in Donation : EnqueueReward(d)
    BY DEF Next, People, Work, Tick, CreateChallenge, UpdateChallenge,
       CreateParticipant, UpdateParticipant, AdminRewards, AdminNotifies,
       AdminNotificationFails, AdminRejects, StoreDonation, StartRun, Stall,
       ReadParticipants, CountDonations, SendEmail, MarkRewarded, Notify, Finish,
       RunFails, CountThrows, Throw, Settle, Crash, vars, workerVars
  <2>3. ASSUME NEW d \in Donation, EnqueueReward(d)
        PROVE  DOMAIN job' \subseteq DOMAIN donation'
    BY <2>1, <2>3 DEF EnqueueReward, Put
  <2>. QED
    BY <2>1, <2>2, <2>3
<1>2. \A r \in DOMAIN run' : run'[r].donationId \in DOMAIN donation'
  <2>1. \A r \in DOMAIN run : run'[r].donationId \in DOMAIN donation'
    BY StepGrows DEF Grows, IInv, JobsHaveDonations
  <2>2. DOMAIN run' = DOMAIN run \/ \E d \in Donation : StartRun(d)
    BY WhoWritesRuns
       DEF WritesRuns, Work, ReadParticipants, CountDonations, SendEmail,
           MarkRewarded, Notify, Finish, RunFails, CountThrows, Throw, Crash
  <2>3. ASSUME NEW d \in Donation, StartRun(d)
        PROVE  \A r \in DOMAIN run' : run'[r].donationId \in DOMAIN donation'
    <3>1. d \in DOMAIN donation'
      BY <2>3 DEF StartRun, IInv, JobsHaveDonations
    <3>. QED
      BY <2>1, <2>3, <3>1 DEF StartRun, Put
  <2>. QED
    BY <2>1, <2>2, <2>3
<1>. QED
  BY <1>1, <1>2 DEF JobsHaveDonations

\* The donor of a run stays the same.
LEMMA DonorStays ==
    ASSUME IInv, Grows, NEW r \in DOMAIN run
    PROVE  DonorOf(r)' = DonorOf(r)
BY DEF Grows, DonorOf, IInv, JobsHaveDonations

\* A run that a step leaves alone has done no less.
LEMMA UntouchedStays ==
    ASSUME IInv, Grows, NEW r \in DOMAIN run, run'[r] = run[r]
    PROVE  RunSoFar(r)'
<1>1. DonorOf(r)' = DonorOf(r) /\ Current(r)' = Current(r)
  BY DonorStays DEF Current
<1>2. RunSoFar(r)
  BY DEF IInv
<1>. QED
  BY <1>1, <1>2 DEF RunSoFar, Grows

\* A run that is over owes nothing.
LEMMA OverStays ==
    ASSUME IInv, Grows, NEW r \in DOMAIN run,
           run'[r].pc \in {"done", "failed", "dead"},
           run'[r].todo = run[r].todo
    PROVE  RunSoFar(r)'
<1>1. DonorOf(r)' = DonorOf(r)
  BY DonorStays
<1>. QED
  BY <1>1 DEF RunSoFar, Grows, IInv

\* What a run that waits at some pc knows and has done so far, after any step.
LEMMA RunsStep == IInv /\ [Next]_vars => \A r \in DOMAIN run' : RunSoFar(r)'
<1>. SUFFICES ASSUME IInv, [Next]_vars PROVE \A r \in DOMAIN run' : RunSoFar(r)'
  OBVIOUS
<1>g. Grows
  BY StepGrows
<1>t. \A r \in DOMAIN run : run[r] \in RunRow
  BY DEF IInv, TypeOK, IsTable
<1>. DEFINE Others(r) == /\ DOMAIN run' = DOMAIN run
                         /\ \A s \in DOMAIN run \ {r} : run'[s] = run[s]
<1>o. ASSUME NEW r, Others(r), r \in DOMAIN run => RunSoFar(r)'
      PROVE  \A s \in DOMAIN run' : RunSoFar(s)'
  BY <1>g, <1>o, UntouchedStays
<1>1. CASE UNCHANGED run
  BY <1>1, <1>g, UntouchedStays
<1>2. ASSUME NEW d \in Donation, StartRun(d)
      PROVE  \A r \in DOMAIN run' : RunSoFar(r)'
  <2>. DEFINE row == [pc |-> "read", donationId |-> d, todo |-> {},
                      terms |-> [c \in Challenge |-> None], current |-> None]
  <2>1. PICK k \in Run : k \notin DOMAIN run /\ run' = Put(run, k, row)
    BY <1>2 DEF StartRun, NewKey, HasRoom
  <2>2. row.todo = {} /\ row.pc = "read"
    OBVIOUS
  <2>. HIDE DEF row
  <2>3. RunSoFar(k)'
    BY <2>1, <2>2 DEF RunSoFar, Put
  <2>4. \A r \in DOMAIN run' \ {k} : r \in DOMAIN run /\ run'[r] = run[r]
    BY <2>1 DEF Put
  <2>. QED
    BY <2>3, <2>4, <1>g, UntouchedStays
<1>3. ASSUME NEW r \in Run, ReadParticipants(r)
      PROVE  \A s \in DOMAIN run' : RunSoFar(s)'
  <2>1. r \in DOMAIN run
    BY <1>3 DEF ReadParticipants, At
  <2>2. run'[r].pc = "next" /\ run'[r].todo = Unrewarded(DonorOf(r))
    BY <1>3, <1>t, <2>1 DEF ReadParticipants, RunRow
  <2>3. DonorOf(r)' = DonorOf(r)
    BY <1>g, <2>1, DonorStays
  <2>4. RunSoFar(r)'
    BY <1>g, <2>2, <2>3 DEF RunSoFar, Unrewarded, Grows
  <2>5. Others(r)
    BY <1>3 DEF ReadParticipants
  <2>. QED
    BY <2>4, <2>5, <1>o
<1>4. ASSUME NEW r \in Run, NEW c \in Challenge, CountDonations(r, c)
      PROVE  \A s \in DOMAIN run' : RunSoFar(s)'
  <2>1. r \in DOMAIN run /\ c \in run[r].todo
    BY <1>4 DEF CountDonations, At
  <2>2. /\ run'[r].pc \in {"next", "email"}
        /\ run'[r].todo \subseteq run[r].todo
        /\ run'[r].pc = "email" => run'[r].current = c
    BY <1>4, <1>t, <2>1 DEF CountDonations, RunRow
  <2>3. DonorOf(r)' = DonorOf(r)
    BY <1>g, <2>1, DonorStays
  <2>4. \A x \in run[r].todo : <<DonorOf(r), x>> \in DOMAIN participant'
    BY <1>g, <2>1 DEF IInv, RunSoFar, Grows
  <2>5. RunSoFar(r)'
    BY <2>1, <2>2, <2>3, <2>4 DEF RunSoFar, Current
  <2>6. Others(r)
    BY <1>4 DEF CountDonations
  <2>. QED
    BY <2>5, <2>6, <1>o
<1>5. ASSUME NEW r \in Run, SendEmail(r) \/ MarkRewarded(r) \/ Notify(r)
      PROVE  \A s \in DOMAIN run' : RunSoFar(s)'
  <2>1. r \in DOMAIN run /\ run[r].pc \in {"email", "update", "notify"}
    BY <1>5 DEF SendEmail, MarkRewarded, Notify, At
  <2>2. run'[r].todo = run[r].todo /\ run'[r].current = run[r].current
    BY <1>5, <1>t, <2>1 DEF SendEmail, MarkRewarded, Notify, RunRow
  <2>3. DonorOf(r)' = DonorOf(r)
    BY <1>g, <2>1, DonorStays
  <2>4. Current(r)' = Current(r)
    BY <2>2, <2>3 DEF Current
  <2>5. /\ run[r].current \in Challenge
        /\ Current(r) \in DOMAIN participant'
        /\ \A x \in run[r].todo : <<DonorOf(r), x>> \in DOMAIN participant'
    BY <1>g, <2>1 DEF IInv, RunSoFar, Grows
  <2>6. ASSUME SendEmail(r) PROVE RunSoFar(r)'
    <3>1. run'[r].pc = "update" /\ <<r, Current(r)>> \in mail'
      BY <2>6, <1>t, <2>1 DEF SendEmail, RunRow
    <3>. QED
      BY <3>1, <2>2, <2>3, <2>4, <2>5 DEF RunSoFar
  <2>7. ASSUME MarkRewarded(r) PROVE RunSoFar(r)'
    <3>1. run'[r].pc = "notify"
      BY <2>7, <1>t, <2>1 DEF MarkRewarded, RunRow
    <3>2. Current(r) \in DOMAIN participant
      BY <2>1 DEF IInv, RunSoFar
    <3>3. participant[Current(r)] \in ParticipantRow
      BY <3>2 DEF IInv, TypeOK, IsTable
    <3>4. participant'[Current(r)].rewardEmailId = ""
      BY <2>7, <3>2, <3>3 DEF MarkRewarded, ParticipantRow
    <3>. QED
      BY <3>1, <3>4, <2>2, <2>3, <2>4, <2>5, NoneIsNoRow DEF RunSoFar
  <2>8. ASSUME Notify(r) PROVE RunSoFar(r)'
    <3>1. run'[r].pc = "next"
      BY <2>8, <1>t, <2>1 DEF Notify, RunRow
    <3>. QED
      BY <3>1, <2>2, <2>3, <2>5 DEF RunSoFar
  <2>9. Others(r)
    BY <1>5 DEF SendEmail, MarkRewarded, Notify
  <2>. QED
    BY <1>5, <2>6, <2>7, <2>8, <2>9, <1>o
<1>6. ASSUME NEW r \in Run,
             \/ Finish(r)
             \/ RunFails(r)
             \/ \E c \in Challenge : CountThrows(r, c)
      PROVE  \A s \in DOMAIN run' : RunSoFar(s)'
  <2>1. r \in DOMAIN run /\ (Finish(r) \/ Throw(r))
    BY <1>6 DEF Finish, RunFails, CountThrows, At
  <2>2. run'[r].pc \in {"done", "failed"} /\ run'[r].todo = run[r].todo
    BY <1>t, <2>1 DEF Finish, Throw, RunRow
  <2>3. RunSoFar(r)'
    BY <1>g, <2>1, <2>2, OverStays
  <2>4. Others(r)
    BY <2>1 DEF Finish, Throw
  <2>. QED
    BY <2>3, <2>4, <1>o
<1>7. CASE Crash
  <2>1. DOMAIN run' = DOMAIN run
    BY <1>7 DEF Crash
  <2>2. ASSUME NEW r \in DOMAIN run
        PROVE  RunSoFar(r)'
    <3>1. \/ run'[r] = run[r]
          \/ run'[r].pc = "dead" /\ run'[r].todo = run[r].todo
      BY <1>7, <1>t DEF Crash, RunRow
    <3>. QED
      BY <1>g, <3>1, UntouchedStays, OverStays
  <2>. QED
    BY <2>1, <2>2
<1>. HIDE DEF Others
<1>. QED
  BY WhoWritesRuns, <1>1, <1>2, <1>3, <1>4, <1>5, <1>6, <1>7
     DEF WritesRuns, Work

-----------------------------------------------------------------------------
(* Rewards                                                                 *)

\* Only MarkRewarded marks, and by then the mail is sent.
LEMMA MarkedStep == IInv /\ [Next]_vars => MarkedWasMailed'
<1>. SUFFICES ASSUME IInv, [Next]_vars, NEW p \in DOMAIN participant',
                     participant'[p].rewardEmailId = ""
              PROVE  \E r \in Run : <<r, p>> \in mail'
  BY DEF MarkedWasMailed
<1>1. mail \subseteq mail'
  BY StepGrows DEF Grows
<1>2. RowStep(p)
  BY ParticipantStep DEF RowsStep
<1>3. CASE p \in DOMAIN participant /\ participant[p].rewardEmailId = ""
  BY <1>1, <1>3 DEF IInv, MarkedWasMailed
<1>4. ASSUME NEW r \in Run, MarkRewarded(r), p = Current(r)
      PROVE  \E s \in Run : <<s, p>> \in mail'
  BY <1>1, <1>4 DEF MarkRewarded, At, IInv, RunSoFar
<1>. QED
  BY <1>2, <1>3, <1>4, NoneIsNoRow DEF RowStep

\* Completing and rewarding are one write, and no other write undoes it.
LEMMA CompletedStep == IInv /\ [Next]_vars => CompletedIsRewarded'
<1>. SUFFICES ASSUME IInv, [Next]_vars, NEW p \in DOMAIN participant',
                     participant'[p].status = "COMPLETED"
              PROVE  participant'[p].rewardEmailId # None
  BY DEF CompletedIsRewarded
<1>1. RowStep(p)
  BY ParticipantStep DEF RowsStep
<1>. QED
  BY <1>1, NoneIsNoRow DEF RowStep, IInv, CompletedIsRewarded

\* Worker and admin both write the participant before they notify.
LEMMA NotifiedStep == IInv /\ [Next]_vars => NotifiedIsRewarded'
<1>. SUFFICES ASSUME IInv, [Next]_vars, NEW p \in notified'
              PROVE  /\ p \in DOMAIN participant'
                     /\ participant'[p].rewardEmailId # None
  BY DEF NotifiedIsRewarded
<1>g. Grows
  BY StepGrows
<1>1. CASE p \in notified
  BY <1>1, <1>g DEF IInv, NotifiedIsRewarded, Grows
<1>2. ASSUME NEW r \in Run, Notify(r)
      PROVE  p \in notified \/ p = Current(r)
  BY <1>2 DEF Notify
<1>3. ASSUME NEW r \in Run, Notify(r), p = Current(r)
      PROVE  p \in DOMAIN participant' /\ participant'[p].rewardEmailId # None
  BY <1>3, <1>g DEF Notify, At, IInv, RunSoFar, Grows
<1>4. ASSUME NEW u \in User, NEW c \in Challenge, AdminNotifies(u, c)
      PROVE  p \in notified \/ p \in granting
  BY <1>4 DEF AdminNotifies
<1>5. CASE p \in granting
  BY <1>5, <1>g DEF IInv, GrantingIsRewarded, Grows
<1>6. \/ UNCHANGED notified
      \/ \E r \in Run : Notify(r)
      \/ \E u \in User, c \in Challenge : AdminNotifies(u, c)
  BY DEF Next, People, Work, Tick, CreateChallenge, UpdateChallenge,
     CreateParticipant, UpdateParticipant, AdminRewards, AdminNotificationFails,
     AdminRejects, StoreDonation, EnqueueReward, StartRun, Stall,
     ReadParticipants, CountDonations, SendEmail, MarkRewarded, Finish, RunFails,
     CountThrows, Throw, Crash, vars
<1>. QED
  BY <1>1, <1>2, <1>3, <1>4, <1>5, <1>6

\* The admin's request notifies after its own write of the row, which nothing
\* undoes.
LEMMA GrantingStep == IInv /\ [Next]_vars => GrantingIsRewarded'
<1>. SUFFICES ASSUME IInv, [Next]_vars, NEW p \in granting'
              PROVE  /\ p \in DOMAIN participant'
                     /\ participant'[p].rewardEmailId # None
  BY DEF GrantingIsRewarded
<1>g. Grows
  BY StepGrows
<1>1. CASE p \in granting
  BY <1>1, <1>g DEF IInv, GrantingIsRewarded, Grows
<1>2. ASSUME NEW u \in User, NEW c \in Challenge, AdminRewards(u, c), p = <<u, c>>
      PROVE  p \in DOMAIN participant' /\ participant'[p].rewardEmailId # None
  <2>1. p \in DOMAIN participant /\ participant[p] \in ParticipantRow
    BY <1>2 DEF AdminRewards, IInv, TypeOK, IsTable
  <2>. QED
    BY <1>2, <2>1, NoneIsNoRow DEF AdminRewards, ParticipantRow
<1>3. \/ granting' \subseteq granting
      \/ \E u \in User, c \in Challenge : AdminRewards(u, c)
  BY DEF Next, People, Work, Tick, CreateChallenge, UpdateChallenge,
     CreateParticipant, UpdateParticipant, AdminNotifies, AdminNotificationFails,
     AdminRejects, StoreDonation, EnqueueReward, StartRun, Stall,
     ReadParticipants, CountDonations, SendEmail, MarkRewarded, Notify, Finish,
     RunFails, CountThrows, Throw, Crash, vars
<1>4. ASSUME NEW u \in User, NEW c \in Challenge, AdminRewards(u, c)
      PROVE  p \in granting \/ p = <<u, c>>
  BY <1>4 DEF AdminRewards
<1>. QED
  BY <1>1, <1>2, <1>3, <1>4

\* The parts of IInv together survive every step.
LEMMA InductiveStep == IInv /\ [Next]_vars => IInv'
BY TypeStep, JobsStep, RunsStep, GrantingStep, MarkedStep, CompletedStep,
   NotifiedStep
   DEF IInv

\* IInv holds of every reachable state.
THEOREM Invariance == Spec => []IInv
BY InitIInv, InductiveStep, PTL DEF Spec

\* The tables keep their shape, whoever writes them in whatever order.
THEOREM TypeCorrectness == Spec => []TypeOK
<1>1. IInv => TypeOK
  BY DEF IInv
<1>. QED
  BY <1>1, Invariance, PTL

\* A participant marked by handleChallengeRewardEmail was mailed before.
THEOREM MarksFollowMails == Spec => []MarkedWasMailed
<1>1. IInv => MarkedWasMailed
  BY DEF IInv
<1>. QED
  BY <1>1, Invariance, PTL

\* A participant whose status is COMPLETED has a rewardEmailId.
THEOREM CompletionIsReward == Spec => []CompletedIsRewarded
<1>1. IInv => CompletedIsRewarded
  BY DEF IInv
<1>. QED
  BY <1>1, Invariance, PTL

\* Nobody is notified of a reward that is not recorded.
THEOREM NotificationsFollowRewards == Spec => []NotifiedIsRewarded
<1>1. IInv => NotifiedIsRewarded
  BY DEF IInv
<1>. QED
  BY <1>1, Invariance, PTL

\* The two together: mails, marks and notifications are in order, for any
\* number of runs, stalls and crashes.
THEOREM RewardsComeInOrder == Spec => []RewardsInOrder
<1>1. MarkedWasMailed /\ NotifiedIsRewarded => RewardsInOrder
  BY DEF RewardsInOrder
<1>. QED
  BY <1>1, MarksFollowMails, NotificationsFollowRewards, PTL

-----------------------------------------------------------------------------
(* No reward twice, but by runs that overlap                               *)

\* A run has mailed nobody before it has read the participations.
MailsFollowReads ==
    \A r \in Run, p \in Key :
        <<r, p>> \in mail => r \in DOMAIN run /\ run[r].pc # "read"

\* Run r is no danger to participant p any more: it is yet to read, or over,
\* or has p neither before it nor in its hands.
Harmless(r, p) ==
    r \in DOMAIN run =>
        \/ run[r].pc \in {"read", "failed", "dead"}
        \/ /\ \A c \in run[r].todo : <<DonorOf(r), c>> # p
           /\ run[r].pc = "email" => Current(r) # p

\* What protects p from run r.
Protected(r, p) ==
    Rewarded(p) /\ <<r, p>> \notin mail /\ Harmless(r, p)

\* What a step makes of a run that does not stay as it is.
LEMMA RunMoves ==
    ASSUME IInv, [Next]_vars, NEW r \in DOMAIN run
    PROVE  \/ run'[r] = run[r]
           \/ ReadParticipants(r)
           \/ \E c \in Challenge : CountDonations(r, c)
           \/ /\ run'[r].todo = run[r].todo
              /\ run[r].pc \notin {"read", "failed", "dead"}
              /\ run'[r].pc \notin {"read", "email"}
           \/ run'[r].pc \in {"failed", "dead"}
<1>t. \A s \in DOMAIN run : run[s] \in RunRow
  BY DEF IInv, TypeOK, IsTable
<1>. DEFINE Moves == \/ run'[r] = run[r]
                     \/ ReadParticipants(r)
                     \/ \E c \in Challenge : CountDonations(r, c)
                     \/ /\ run'[r].todo = run[r].todo
                        /\ run[r].pc \notin {"read", "failed", "dead"}
                        /\ run'[r].pc \notin {"read", "email"}
                     \/ run'[r].pc \in {"failed", "dead"}
<1>1. ASSUME UNCHANGED run PROVE Moves
  BY <1>1
<1>2. ASSUME NEW d \in Donation, StartRun(d) PROVE Moves
  <2>1. run'[r] = run[r]
    BY <1>2 DEF StartRun, Put, NewKey, HasRoom
  <2>. QED
    BY <2>1
<1>3. ASSUME NEW s \in Run, s # r, Work(s) \/ RunFails(s) PROVE Moves
  <2>1. run'[r] = run[r]
    BY <1>3 DEF Work, ReadParticipants, CountDonations, SendEmail, MarkRewarded,
       Notify, Finish, RunFails, CountThrows, Throw
  <2>. QED
    BY <2>1
<1>4. ASSUME \/ SendEmail(r) \/ MarkRewarded(r) \/ Notify(r) \/ Finish(r)
             \/ RunFails(r)
             \/ \E c \in Challenge : CountThrows(r, c)
      PROVE  Moves
  <2>1. CASE RunFails(r) \/ \E c \in Challenge : CountThrows(r, c)
    BY <2>1, <1>t DEF RunFails, CountThrows, Throw, RunRow
  <2>2. ASSUME SendEmail(r) \/ MarkRewarded(r) \/ Notify(r) \/ Finish(r)
        PROVE  /\ run'[r].todo = run[r].todo
               /\ run[r].pc \notin {"read", "failed", "dead"}
               /\ run'[r].pc \notin {"read", "email"}
    BY <2>2, <1>t DEF SendEmail, MarkRewarded, Notify, Finish, RunRow, At
  <2>. QED
    BY <1>4, <2>1, <2>2
<1>5. ASSUME Crash PROVE Moves
  <2>1. \/ run'[r] = run[r]
        \/ run'[r].pc = "dead"
    BY <1>5, <1>t DEF Crash, RunRow
  <2>. QED
    BY <2>1
<1>6. ASSUME ReadParticipants(r) \/ \E c \in Challenge : CountDonations(r, c)
      PROVE  Moves
  BY <1>6
<1>. HIDE DEF Moves
<1>7. Moves
  BY WhoWritesRuns, <1>1, <1>2, <1>3, <1>4, <1>5, <1>6 DEF WritesRuns, Work
<1>. QED
  BY <1>7 DEF Moves

\* What a step makes of a run's place: once past "read", never back.
LEMMA MailsFollowReadsStep ==
    IInv /\ MailsFollowReads /\ [Next]_vars => MailsFollowReads'
<1>. SUFFICES ASSUME IInv, MailsFollowReads, [Next]_vars,
                     NEW r \in Run, NEW p \in Key, <<r, p>> \in mail'
              PROVE  r \in DOMAIN run' /\ run'[r].pc # "read"
  BY DEF MailsFollowReads
<1>t. \A s \in DOMAIN run : run[s] \in RunRow
  BY DEF IInv, TypeOK, IsTable
<1>1. CASE <<r, p>> \in mail
  <2>1. r \in DOMAIN run /\ run[r].pc # "read" /\ r \in DOMAIN run'
    BY <1>1, RunDomainStep DEF MailsFollowReads
  <2>2. ~ReadParticipants(r)
    BY <2>1 DEF ReadParticipants, At
  <2>3. ASSUME NEW c \in Challenge, CountDonations(r, c)
        PROVE  run'[r].pc # "read"
    BY <2>1, <2>3, <1>t DEF CountDonations, RunRow
  <2>. QED
    BY <2>1, <2>2, <2>3, RunMoves
<1>2. ASSUME NEW s \in Run, SendEmail(s), <<r, p>> \notin mail
      PROVE  r \in DOMAIN run' /\ run'[r].pc # "read"
  <2>1. r = s /\ r \in DOMAIN run
    BY <1>2 DEF SendEmail, At
  <2>. QED
    BY <1>2, <2>1, <1>t DEF SendEmail, RunRow
<1>. QED
  BY <1>1, <1>2, WhoSendsMail

\* A protected participant stays protected.
LEMMA ProtectedStep ==
    ASSUME NEW r \in Run, NEW p \in Key
    PROVE  IInv /\ Protected(r, p) /\ [Next]_vars => Protected(r, p)'
<1>. SUFFICES ASSUME IInv, Protected(r, p), [Next]_vars PROVE Protected(r, p)'
  OBVIOUS
<1>g. Grows
  BY StepGrows
<1>t. \A s \in DOMAIN run : run[s] \in RunRow
  BY DEF IInv, TypeOK, IsTable
<1>1. Rewarded(p)'
  BY <1>g DEF Protected, Rewarded, Grows
<1>2. <<r, p>> \notin mail'
  <2>1. ASSUME NEW s \in Run, SendEmail(s) PROVE <<r, p>> \notin mail'
    <3>1. s = r => Current(r) # p
      BY <2>1 DEF SendEmail, At, Protected, Harmless
    <3>. QED
      BY <2>1, <3>1 DEF SendEmail, Protected
  <2>. QED
    BY <2>1, WhoSendsMail DEF Protected
<1>3. Harmless(r, p)'
  <2>1. CASE r \notin DOMAIN run
    <3>1. ASSUME NEW d \in Donation, StartRun(d), r \in DOMAIN run'
          PROVE  run'[r].pc = "read"
      BY <2>1, <3>1 DEF StartRun, Put
    <3>2. DOMAIN run' = DOMAIN run \/ \E d \in Donation : StartRun(d)
      BY WhoWritesRuns
         DEF WritesRuns, Work, ReadParticipants, CountDonations, SendEmail,
             MarkRewarded, Notify, Finish, RunFails, CountThrows, Throw, Crash
    <3>. QED
      BY <2>1, <3>1, <3>2 DEF Harmless
  <2>2. CASE r \in DOMAIN run
    <3>d. DonorOf(r)' = DonorOf(r)
      BY <2>2, <1>g, DonorStays
    <3>1. ASSUME run'[r] = run[r] PROVE Harmless(r, p)'
      <4>1. Current(r)' = Current(r)
        BY <3>1, <3>d DEF Current
      <4>. QED
        BY <2>2, <3>1, <3>d, <4>1 DEF Protected, Harmless
    <3>2. ASSUME ReadParticipants(r) PROVE Harmless(r, p)'
      <4>1. run'[r].pc = "next" /\ run'[r].todo = Unrewarded(DonorOf(r))
        BY <2>2, <3>2, <1>t DEF ReadParticipants, RunRow
      <4>2. \A c \in Unrewarded(DonorOf(r)) : <<DonorOf(r), c>> # p
        BY DEF Unrewarded, Protected, Rewarded
      <4>. QED
        BY <4>1, <4>2, <3>d DEF Harmless
    <3>3. ASSUME NEW c \in Challenge, CountDonations(r, c) PROVE Harmless(r, p)'
      <4>1. /\ run[r].pc = "next" /\ c \in run[r].todo
            /\ run'[r].todo \subseteq run[r].todo
            /\ run'[r].pc = "email" => run'[r].current = c
        BY <2>2, <3>3, <1>t DEF CountDonations, At, RunRow
      <4>2. \A x \in run[r].todo : <<DonorOf(r), x>> # p
        BY <2>2, <4>1 DEF Protected, Harmless
      <4>. QED
        BY <4>1, <4>2, <3>d DEF Harmless, Current
    <3>4. ASSUME run'[r].todo = run[r].todo, run'[r].pc \notin {"read", "email"},
                 run[r].pc \notin {"read", "failed", "dead"}
          PROVE  Harmless(r, p)'
      BY <2>2, <3>4, <3>d DEF Protected, Harmless
    <3>5. ASSUME run'[r].pc \in {"failed", "dead"}
          PROVE  Harmless(r, p)'
      BY <3>5 DEF Harmless
    <3>. QED
      BY <2>2, <3>1, <3>2, <3>3, <3>4, <3>5, RunMoves
  <2>. QED
    BY <2>1, <2>2
<1>. QED
  BY <1>1, <1>2, <1>3 DEF Protected

\* The mark protects: a run that reads after a participant was rewarded never
\* mails that participant, whatever the worker, the donor and the admin do.
THEOREM NoLateMail == Spec => LateRunsDoNotMail
<1>1. Spec => []MailsFollowReads
  <2>1. Init => MailsFollowReads
    BY DEF Init, MailsFollowReads
  <2>. QED
    BY <2>1, MailsFollowReadsStep, Invariance, PTL DEF Spec
<1>2. ASSUME NEW r \in Run, NEW p \in Key
      PROVE  Spec => [](Rewarded(p) /\ NotYetRead(r) => [](<<r, p>> \notin mail))
  <2>1. MailsFollowReads /\ Rewarded(p) /\ NotYetRead(r) => Protected(r, p)
    BY DEF MailsFollowReads, NotYetRead, Protected, Harmless
  <2>2. Protected(r, p) => <<r, p>> \notin mail
    BY DEF Protected
  <2>3. IInv /\ Protected(r, p) /\ [Next]_vars => Protected(r, p)'
    BY ProtectedStep
  <2>. QED
    BY <1>1, <2>1, <2>2, <2>3, Invariance, PTL DEF Spec
<1>. QED
  BY <1>2 DEF LateRunsDoNotMail
-----------------------------------------------------------------------------
(* Rewards are earned                                                      *)

\* By the terms that run r has read of challenge c, user u has earned it.
HasEarned(r, u, c) ==
    /\ run[r].terms[c] \in TermsRow
    /\ run[r].terms[c].requiredDonationAmount # None
    /\ IsFulfilled(u, run[r].terms[c])

\* A run knows the terms of what is before it; whoever is about to be mailed
\* and whoever was mailed has earned it.  Only finitely many donations are
\* stored, so that counting them means something.
EarnedSoFar ==
    /\ IsFiniteSet(DOMAIN donation)
    /\ \A r \in DOMAIN run :
           /\ \A c \in run[r].todo : run[r].terms[c] \in TermsRow
           /\ run[r].pc = "email" => HasEarned(r, DonorOf(r), run[r].current)
    /\ \A r \in Run, u \in User, c \in Challenge :
           <<r, <<u, c>>>> \in mail => HasEarned(r, u, c)

\* Donations stay what they are: what has been earned stays earned.
LEMMA FulfilledGrows ==
    ASSUME Grows, IsFiniteSet(DOMAIN donation'), NEW u, NEW t \in TermsRow,
           IsFulfilled(u, t)
    PROVE  IsFulfilled(u, t)'
<1>. DEFINE S == Fulfilled(u, t)
            T == Fulfilled(u, t)'
<1>1. S \subseteq T
  BY DEF Grows, Fulfilled
<1>2. T \subseteq DOMAIN donation'
  BY DEF Fulfilled
<1>. HIDE DEF S, T
<1>3. IsFiniteSet(T) /\ IsFiniteSet(S) /\ Cardinality(S) <= Cardinality(T)
  BY <1>1, <1>2, FS_Subset
<1>4. Cardinality(S) \in Nat /\ Cardinality(T) \in Nat
  BY <1>3, FS_CardinalityType
<1>5. t.requiredNumOfDonation = None \/ t.requiredNumOfDonation \in Nat
  BY DEF TermsRow
<1>6. IsEnough(Cardinality(S), t)
  BY DEF IsFulfilled, S
<1>7. IsEnough(Cardinality(T), t)
  BY <1>3, <1>4, <1>5, <1>6 DEF IsEnough
<1>. QED
  BY <1>7 DEF IsFulfilled, IsEnough, T

\* A run reads the terms once and then only goes through them.
LEMMA TermsStep ==
    ASSUME IInv, [Next]_vars, NEW r \in DOMAIN run
    PROVE  \/ ReadParticipants(r)
           \/ run'[r].terms = run[r].terms /\ run'[r].todo \subseteq run[r].todo
<1>t. \A s \in DOMAIN run : run[s] \in RunRow
  BY DEF IInv, TypeOK, IsTable
<1>. DEFINE Keeps == \/ ReadParticipants(r)
                     \/ /\ run'[r].terms = run[r].terms
                        /\ run'[r].todo \subseteq run[r].todo
<1>1. ASSUME UNCHANGED run PROVE Keeps
  BY <1>1
<1>2. ASSUME NEW d \in Donation, StartRun(d) PROVE Keeps
  <2>1. run'[r] = run[r]
    BY <1>2 DEF StartRun, Put, NewKey, HasRoom
  <2>. QED
    BY <2>1
<1>3. ASSUME NEW s \in Run, s # r, Work(s) \/ RunFails(s) PROVE Keeps
  <2>1. run'[r] = run[r]
    BY <1>3 DEF Work, ReadParticipants, CountDonations, SendEmail, MarkRewarded,
       Notify, Finish, RunFails, CountThrows, Throw
  <2>. QED
    BY <2>1
<1>4. ASSUME \/ SendEmail(r) \/ MarkRewarded(r) \/ Notify(r) \/ Finish(r)
             \/ RunFails(r)
             \/ \E c \in Challenge : CountThrows(r, c)
      PROVE  Keeps
  BY <1>4, <1>t
     DEF SendEmail, MarkRewarded, Notify, Finish, RunFails, CountThrows, Throw,
         RunRow
<1>5. ASSUME NEW c \in Challenge, CountDonations(r, c) PROVE Keeps
  BY <1>5, <1>t DEF CountDonations, RunRow
<1>6. ASSUME Crash PROVE Keeps
  BY <1>6, <1>t DEF Crash, RunRow
<1>7. ASSUME ReadParticipants(r) PROVE Keeps
  BY <1>7
<1>. HIDE DEF Keeps
<1>8. Keeps
  BY WhoWritesRuns, <1>1, <1>2, <1>3, <1>4, <1>5, <1>6, <1>7 DEF WritesRuns, Work
<1>. QED
  BY <1>8 DEF Keeps

\* Donations are stored one by one.
LEMMA FiniteStep ==
    IsFiniteSet(DOMAIN donation) /\ [Next]_vars => IsFiniteSet(DOMAIN donation')
<1>. SUFFICES ASSUME IsFiniteSet(DOMAIN donation), [Next]_vars
              PROVE  IsFiniteSet(DOMAIN donation')
  OBVIOUS
<1>1. ASSUME NEW u \in User, NEW amt \in Amount, NEW k \in Category,
             StoreDonation(u, amt, k)
      PROVE  IsFiniteSet(DOMAIN donation')
  <2>1. DOMAIN donation' = DOMAIN donation \cup {NewKey(Donation, donation)}
    BY <1>1 DEF StoreDonation, Put
  <2>. QED
    BY <2>1, FS_AddElement
<1>. QED
  BY <1>1, WhoWritesDonations

\* What was earned by terms a run has read stays earned, as long as the run
\* does not read them again.
LEMMA EarnedStays ==
    ASSUME IInv, EarnedSoFar, [Next]_vars, NEW r \in DOMAIN run,
           run[r].pc # "read", NEW u, NEW c \in Challenge, HasEarned(r, u, c)
    PROVE  HasEarned(r, u, c)'
<1>1. ~ReadParticipants(r)
  BY DEF ReadParticipants, At
<1>2. run'[r].terms = run[r].terms
  BY <1>1, TermsStep
<1>3. run[r].terms[c] \in TermsRow
  BY DEF HasEarned
<1>4. Grows /\ IsFiniteSet(DOMAIN donation')
  BY StepGrows, FiniteStep DEF EarnedSoFar
<1>5. IsFulfilled(u, run[r].terms[c])
  BY DEF HasEarned
<1>6. PICK t \in TermsRow : t = run[r].terms[c]
  BY <1>3
<1>7. IsFulfilled(u, t)'
  BY <1>4, <1>5, <1>6, FulfilledGrows
<1>. QED
  BY <1>2, <1>6, <1>7 DEF HasEarned, IsFulfilled, IsEnough, Fulfilled

\* The worker counts before it mails, and nothing undoes what it counted.
LEMMA EarnedStep ==
    IInv /\ MailsFollowReads /\ EarnedSoFar /\ [Next]_vars => EarnedSoFar'
<1>. SUFFICES ASSUME IInv, MailsFollowReads, EarnedSoFar, [Next]_vars
              PROVE  EarnedSoFar'
  OBVIOUS
<1>t. \A s \in DOMAIN run : run[s] \in RunRow
  BY DEF IInv, TypeOK, IsTable
<1>1. IsFiniteSet(DOMAIN donation')
  BY FiniteStep DEF EarnedSoFar
<1>n. ASSUME NEW r \in DOMAIN run', r \notin DOMAIN run
      PROVE  run'[r].todo = {} /\ run'[r].pc = "read"
  <2>1. ASSUME NEW d \in Donation, StartRun(d)
        PROVE  run'[r].todo = {} /\ run'[r].pc = "read"
    BY <1>n, <2>1 DEF StartRun, Put
  <2>2. DOMAIN run' = DOMAIN run \/ \E d \in Donation : StartRun(d)
    BY WhoWritesRuns
       DEF WritesRuns, Work, ReadParticipants, CountDonations, SendEmail,
           MarkRewarded, Notify, Finish, RunFails, CountThrows, Throw, Crash
  <2>. QED
    BY <1>n, <2>1, <2>2
<1>2. ASSUME NEW r \in DOMAIN run', NEW c \in run'[r].todo
      PROVE  run'[r].terms[c] \in TermsRow
  <2>1. CASE r \notin DOMAIN run
    BY <1>2, <1>n, <2>1
  <2>2. CASE r \in DOMAIN run /\ ReadParticipants(r)
    <3>1. /\ run'[r].todo = Unrewarded(DonorOf(r))
          /\ run'[r].terms = [x \in Challenge |->
                 IF x \in Unrewarded(DonorOf(r)) THEN challenge[x].terms ELSE None]
      BY <2>2, <1>t DEF ReadParticipants, RunRow
    <3>2. c \in DOMAIN challenge /\ c \in Challenge
      BY <1>2, <3>1 DEF Unrewarded, IInv, TypeOK, IsTable
    <3>3. challenge[c].terms \in TermsRow
      BY <3>2 DEF IInv, TypeOK, IsTable, ChallengeRow
    <3>. QED
      BY <1>2, <3>1, <3>2, <3>3
  <2>3. CASE r \in DOMAIN run /\ run'[r].terms = run[r].terms
                /\ run'[r].todo \subseteq run[r].todo
    BY <1>2, <2>3 DEF EarnedSoFar
  <2>. QED
    BY <2>1, <2>2, <2>3, TermsStep
<1>3. ASSUME NEW r \in DOMAIN run', run'[r].pc = "email"
      PROVE  HasEarned(r, DonorOf(r), run[r].current)'
  <2>1. r \in DOMAIN run
    BY <1>3, <1>n
  <2>2. DonorOf(r)' = DonorOf(r)
    BY <2>1, StepGrows, DonorStays
  <2>3. CASE run'[r] = run[r]
    <3>1. /\ run[r].pc = "email" /\ run[r].current \in Challenge
          /\ HasEarned(r, DonorOf(r), run[r].current)
      BY <1>3, <2>1, <2>3 DEF EarnedSoFar, IInv, RunSoFar
    <3>2. PICK u, c : u = DonorOf(r) /\ c = run[r].current
      OBVIOUS
    <3>3. u = DonorOf(r)' /\ c = run'[r].current
      BY <2>2, <2>3, <3>2
    <3>4. HasEarned(r, u, c)'
      BY <2>1, <3>1, <3>2, EarnedStays
    <3>. QED
      BY <3>3, <3>4 DEF HasEarned, IsFulfilled, IsEnough, Fulfilled
  <2>4. ASSUME NEW c \in Challenge, CountDonations(r, c)
        PROVE  HasEarned(r, DonorOf(r), run[r].current)'
    <3>u. PICK u : u = DonorOf(r)
      OBVIOUS
    <3>1. /\ run[r].pc = "next" /\ c \in run[r].todo
          /\ run[r].terms[c].requiredDonationAmount # None
          /\ IsFulfilled(u, run[r].terms[c]) /\ run'[r].current = c
      BY <1>3, <2>1, <2>4, <1>t, <3>u DEF CountDonations, At, RunRow
    <3>2. HasEarned(r, u, c)
      BY <2>1, <3>1 DEF HasEarned, EarnedSoFar
    <3>3. u = DonorOf(r)'
      BY <2>2, <3>u
    <3>4. HasEarned(r, u, c)'
      BY <2>1, <3>1, <3>2, EarnedStays
    <3>. QED
      BY <3>1, <3>3, <3>4 DEF HasEarned, IsFulfilled, IsEnough, Fulfilled
  <2>5. ~ReadParticipants(r)
    BY <1>3, <2>1, <1>t DEF ReadParticipants, RunRow
  <2>. QED
    BY <1>3, <2>1, <2>3, <2>4, <2>5, RunMoves
<1>4. ASSUME NEW r \in Run, NEW u \in User, NEW c \in Challenge,
             <<r, <<u, c>>>> \in mail'
      PROVE  HasEarned(r, u, c)'
  <2>1. CASE <<r, <<u, c>>>> \in mail
    <3>1. r \in DOMAIN run /\ run[r].pc # "read"
      BY <2>1 DEF MailsFollowReads, Key
    <3>2. HasEarned(r, u, c)
      BY <2>1 DEF EarnedSoFar
    <3>. QED
      BY <3>1, <3>2, EarnedStays
  <2>2. ASSUME NEW s \in Run, SendEmail(s), <<r, <<u, c>>>> \notin mail
        PROVE  HasEarned(r, u, c)'
    <3>1. /\ s = r /\ r \in DOMAIN run /\ run[r].pc = "email"
          /\ u = DonorOf(r) /\ c = run[r].current
      BY <1>4, <2>2 DEF SendEmail, At, Current
    <3>2. HasEarned(r, u, c)
      BY <3>1 DEF EarnedSoFar
    <3>3. run[r].pc # "read" /\ r \in DOMAIN run
      BY <3>1
    <3>. QED
      BY <3>2, <3>3, EarnedStays
  <2>. QED
    BY <1>4, <2>1, <2>2, WhoSendsMail
<1>. QED
  BY <1>1, <1>2, <1>3, <1>4 DEF EarnedSoFar

\* EarnedSoFar holds of every reachable state.
THEOREM EarnedInvariance == Spec => []EarnedSoFar
<1>1. Init => MailsFollowReads /\ EarnedSoFar
  BY FS_EmptySet DEF Init, MailsFollowReads, EarnedSoFar, IsTable, EmptyTable
<1>. QED
  BY <1>1, MailsFollowReadsStep, EarnedStep, Invariance, PTL DEF Spec

\* Nobody is mailed a reward that the donations stored do not earn by the
\* terms the run had read, however many runs go through the donor's
\* participations while donations, edits of the challenge and crashes go on.
THEOREM RewardsAreEarned == Spec => []MailedHasEarned
<1>1. EarnedSoFar => MailedHasEarned
  BY DEF EarnedSoFar, HasEarned, IsFulfilled, IsEnough, Fulfilled, MailedHasEarned
<1>. QED
  BY <1>1, EarnedInvariance, PTL

-----------------------------------------------------------------------------
(* The worker and the admin keep the book                                  *)

\* A run that has yet to read knows no terms.
UnreadKnowsNothing ==
    \A r \in DOMAIN run, c \in Challenge :
        run[r].pc = "read" => run[r].terms[c] = None

\* A run that starts has yet to read.
LEMMA NewRunsAreUnread ==
    ASSUME [Next]_vars, NEW r \in DOMAIN run', r \notin DOMAIN run
    PROVE  \A c \in Challenge : run'[r].terms[c] = None
<1>1. ASSUME NEW d \in Donation, StartRun(d)
      PROVE  \A c \in Challenge : run'[r].terms[c] = None
  BY <1>1 DEF StartRun, Put
<1>2. DOMAIN run' = DOMAIN run \/ \E d \in Donation : StartRun(d)
  BY WhoWritesRuns
     DEF WritesRuns, Work, ReadParticipants, CountDonations, SendEmail,
         MarkRewarded, Notify, Finish, RunFails, CountThrows, Throw, Crash
<1>. QED
  BY <1>1, <1>2

\* Only reading tells a run the terms.
LEMMA UnreadStep ==
    IInv /\ UnreadKnowsNothing /\ [Next]_vars => UnreadKnowsNothing'
<1>. SUFFICES ASSUME IInv, UnreadKnowsNothing, [Next]_vars,
                     NEW r \in DOMAIN run', NEW c \in Challenge,
                     run'[r].pc = "read"
              PROVE  run'[r].terms[c] = None
  BY DEF UnreadKnowsNothing
<1>t. \A s \in DOMAIN run : run[s] \in RunRow
  BY DEF IInv, TypeOK, IsTable
<1>1. CASE r \notin DOMAIN run
  BY <1>1, NewRunsAreUnread
<1>2. CASE r \in DOMAIN run
  <2>1. ~ReadParticipants(r)
    BY <1>2, <1>t DEF ReadParticipants, RunRow
  <2>2. ASSUME NEW x \in Challenge, CountDonations(r, x) PROVE FALSE
    BY <1>2, <1>t, <2>2 DEF CountDonations, RunRow
  <2>3. run'[r] = run[r]
    BY <1>2, <2>1, <2>2, RunMoves
  <2>. QED
    BY <1>2, <2>3 DEF UnreadKnowsNothing
<1>. QED
  BY <1>1, <1>2

\* What the book says of a participant.
LEMMA BookSays ==
    ASSUME IInv, NEW p \in DOMAIN participant
    PROVE  /\ participant[p].rewardEmailId = None => BookOf[p] = "open"
           /\ participant[p].rewardEmailId = "" => BookOf[p] = "given"
           /\ participant[p].rewardEmailId = "admin" => BookOf[p] = "granted"
           /\ participant[p].rewardEmailId \in {None, "", "admin"}
BY NoneIsNoRow DEF BookOf, Standing, IInv, TypeOK, IsTable, ParticipantRow

\* The participations that are open in the book are those not rewarded yet.
LEMMA OpenInBook ==
    ASSUME IInv
    PROVE  Book!Open = {p \in DOMAIN participant : participant[p].rewardEmailId = None}
<1>1. DOMAIN BookOf = DOMAIN participant
  BY DEF BookOf
<1>. QED
  BY <1>1, BookSays DEF Book!Open

\* The book looks at rewardEmailId alone.
LEMMA BookStays ==
    ASSUME DOMAIN participant' = DOMAIN participant,
           \A p \in DOMAIN participant :
               participant'[p].rewardEmailId = participant[p].rewardEmailId
    PROVE  BookOf' = BookOf
BY DEF BookOf

\* Nobody is taken up but by reading.
LEMMA TakenStays ==
    ASSUME IInv, [Next]_vars, \A r \in Run : ~ReadParticipants(r)
    PROVE  TakenUp' = TakenUp
<1>1. ASSUME NEW r \in DOMAIN run
      PROVE  /\ r \in DOMAIN run'
             /\ run'[r].terms = run[r].terms
             /\ DonorOf(r)' = DonorOf(r)
  <2>1. r \in Run
    BY DEF IInv, TypeOK, IsTable
  <2>. QED
    BY <2>1, TermsStep, StepGrows, DonorStays DEF Grows
<1>2. \A r \in DOMAIN run', c \in Challenge :
          r \notin DOMAIN run => run'[r].terms[c] = None
  BY NewRunsAreUnread
<1>3. \A m \in Run \X Key : m[2][2] \in Challenge
  BY DEF Key
<1>. QED
  BY <1>1, <1>2, <1>3 DEF TakenUp

\* The participations a reading run finds.
Found(r) == {DonorOf(r)} \X Unrewarded(DonorOf(r))

\* A run that reads takes up all that it finds, and had taken up nothing.
LEMMA ReadingTakes ==
    ASSUME IInv, UnreadKnowsNothing, [Next]_vars, NEW r \in Run, ReadParticipants(r)
    PROVE  /\ \A p \in Key : <<r, p>> \notin TakenUp
           /\ TakenUp' = TakenUp \cup ({r} \X Found(r))
           /\ Found(r) \subseteq Key
<1>t. \A s \in DOMAIN run : run[s] \in RunRow
  BY DEF IInv, TypeOK, IsTable
<1>1. r \in DOMAIN run /\ run[r].pc = "read"
  BY DEF ReadParticipants, At
<1>2. \A p \in Key : p[2] \in Challenge
  BY DEF Key
<1>3. \A p \in Key : <<r, p>> \notin TakenUp
  BY <1>1, <1>2 DEF TakenUp, UnreadKnowsNothing
<1>4. DOMAIN run' = DOMAIN run /\ \A s \in DOMAIN run \ {r} : run'[s] = run[s]
  BY DEF ReadParticipants
<1>5. \A s \in DOMAIN run : DonorOf(s)' = DonorOf(s)
  BY StepGrows, DonorStays
<1>6. PICK found : found = Unrewarded(DonorOf(r))
  OBVIOUS
<1>7. run'[r].terms = [c \in Challenge |-> IF c \in found THEN challenge[c].terms ELSE None]
  BY <1>1, <1>6, <1>t DEF ReadParticipants, RunRow
<1>8. \A c \in found : c \in Challenge /\ challenge[c].terms # None
  <2>. SUFFICES ASSUME NEW c \in found PROVE c \in Challenge /\ challenge[c].terms # None
    OBVIOUS
  <2>1. c \in DOMAIN challenge /\ c \in Challenge
    BY <1>6 DEF Unrewarded, IInv, TypeOK, IsTable
  <2>2. challenge[c].terms \in TermsRow
    BY <2>1 DEF IInv, TypeOK, IsTable, ChallengeRow
  <2>. QED
    BY <2>1, <2>2, NoneIsNoRow
<1>9. \A c \in Challenge : run'[r].terms[c] # None <=> c \in found
  BY <1>7, <1>8
<1>10. DonorOf(r) \in User
  BY <1>1 DEF DonorOf, IInv, JobsHaveDonations, TypeOK, IsTable, DonationRow
<1>11. Found(r) \subseteq Key
  BY <1>6, <1>8, <1>10 DEF Found, Key
<1>12. ASSUME NEW s \in Run, NEW p \in Key
       PROVE  <<s, p>> \in TakenUp' <=> <<s, p>> \in TakenUp \cup ({r} \X Found(r))
  <2>1. CASE s = r
    <3>1. <<r, p>> \in TakenUp' <=> p[1] = DonorOf(r) /\ p[2] \in found
      BY <1>1, <1>2, <1>4, <1>5, <1>9 DEF TakenUp
    <3>2. p \in Found(r) <=> p[1] = DonorOf(r) /\ p[2] \in found
      BY <1>6 DEF Found, Key
    <3>. QED
      BY <2>1, <1>3, <3>1, <3>2
  <2>2. CASE s # r
    BY <2>2, <1>4, <1>5 DEF TakenUp
  <2>. QED
    BY <2>1, <2>2
<1>13. TakenUp \subseteq Run \X Key /\ TakenUp' \subseteq Run \X Key
  BY DEF TakenUp
<1>14. {r} \X Found(r) \subseteq Run \X Key
  BY <1>11
<1>15. TakenUp' = TakenUp \cup ({r} \X Found(r))
  BY <1>12, <1>13, <1>14
<1>. QED
  BY <1>3, <1>11, <1>15

\* Steps that leave participants, mails and notifications alone and read
\* nothing are not in the book.
LEMMA OffTheBook ==
    ASSUME IInv, [Next]_vars, \A r \in Run : ~ReadParticipants(r),
           UNCHANGED <<participant, mail, notified>>
    PROVE  UNCHANGED Book!vars
BY TakenStays, BookStays DEF Book!vars

\* A participation whose id the admin writes is granted in the book.
LEMMA GrantIsInBook ==
    ASSUME NEW k \in Key, k \in DOMAIN participant, TakenUp' = TakenUp,
           UNCHANGED <<mail, notified>>,
           DOMAIN participant' = DOMAIN participant,
           participant'[k].rewardEmailId = "admin",
           \A p \in DOMAIN participant \ {k} : participant'[p] = participant[p]
    PROVE  [Book!Next]_(Book!vars)
<1>1. Standing("admin") = "granted"
  BY NoneIsNoRow DEF Standing
<1>2. BookOf' = [BookOf EXCEPT ![k] = "granted"]
  BY <1>1 DEF BookOf
<1>3. k \in DOMAIN BookOf
  BY DEF BookOf
<1>4. Book!Grant(k)
  BY <1>2, <1>3 DEF Book!Grant
<1>. QED
  BY <1>4 DEF Book!Next

\* What the donor and the admin do to a participant is in the book.
LEMMA PeopleKeepBook ==
    ASSUME IInv, [Next]_vars, \A r \in Run : ~ReadParticipants(r),
           NEW u \in User, NEW c \in Challenge,
           \/ CreateParticipant(u, c)
           \/ \E image \in BOOLEAN : UpdateParticipant(u, c, image)
           \/ AdminRewards(u, c)
           \/ AdminNotifies(u, c)
           \/ \E emptyId, reason \in BOOLEAN : AdminRejects(u, c, emptyId, reason)
    PROVE  [Book!Next]_(Book!vars)
<1>. DEFINE k == <<u, c>>
<1>k. k \in Key
  BY DEF Key
<1>t. \A p \in DOMAIN participant : participant[p] \in ParticipantRow
  BY DEF IInv, TypeOK, IsTable
<1>d. DOMAIN BookOf = DOMAIN participant
  BY DEF BookOf
<1>n. TakenUp' = TakenUp
  BY TakenStays
<1>1. CASE CreateParticipant(u, c)
  <2>1. /\ k \notin DOMAIN participant
        /\ DOMAIN participant' = DOMAIN participant \cup {k}
        /\ participant'[k].rewardEmailId = None
        /\ \A p \in DOMAIN participant : participant'[p] = participant[p]
        /\ UNCHANGED <<mail, notified>>
    BY <1>1 DEF CreateParticipant, Put
  <2>2. Standing(None) = "open"
    BY NoneIsNoRow DEF Standing
  <2>3. BookOf' = Put(BookOf, k, "open")
    BY <2>1, <2>2 DEF BookOf, Put
  <2>4. Book!Join(k)
    BY <2>1, <2>3, <1>d, <1>n DEF Book!Join, Book!Put, Put
  <2>. QED
    BY <2>4, <1>k DEF Book!Next
<1>2. ASSUME NEW image \in BOOLEAN, UpdateParticipant(u, c, image)
      PROVE  UNCHANGED Book!vars
  <2>1. \A p \in DOMAIN participant :
            participant'[p].rewardEmailId = participant[p].rewardEmailId
    BY <1>2, <1>t DEF UpdateParticipant, ParticipantRow
  <2>. QED
    BY <1>2, <2>1, <1>n, BookStays DEF UpdateParticipant, Book!vars
<1>3. ASSUME NEW emptyId \in BOOLEAN, NEW reason \in BOOLEAN,
             AdminRejects(u, c, emptyId, reason)
      PROVE  [Book!Next]_(Book!vars)
  <2>1. /\ k \in DOMAIN participant
        /\ UNCHANGED <<mail, notified>>
    BY <1>3 DEF AdminRejects
  <2>2. CASE ~emptyId
    <3>1. \A p \in DOMAIN participant :
              participant'[p].rewardEmailId = participant[p].rewardEmailId
      BY <1>3, <2>2, <1>t DEF AdminRejects, ParticipantRow
    <3>2. DOMAIN participant' = DOMAIN participant
      BY <1>3 DEF AdminRejects
    <3>. QED
      BY <2>1, <3>1, <3>2, <1>n, BookStays DEF Book!vars
  <2>3. CASE emptyId
    <3>1. /\ DOMAIN participant' = DOMAIN participant
          /\ participant'[k].rewardEmailId = "admin"
          /\ \A p \in DOMAIN participant \ {k} : participant'[p] = participant[p]
      BY <1>3, <2>1, <2>3, <1>t DEF AdminRejects, ParticipantRow
    <3>. QED
      BY <2>1, <3>1, <1>k, <1>n, GrantIsInBook
  <2>. QED
    BY <2>2, <2>3
<1>4. CASE AdminRewards(u, c)
  <2>1. /\ k \in DOMAIN participant
        /\ UNCHANGED <<mail, notified>>
        /\ DOMAIN participant' = DOMAIN participant
        /\ participant'[k].rewardEmailId = "admin"
        /\ \A p \in DOMAIN participant \ {k} : participant'[p] = participant[p]
    BY <1>4, <1>t DEF AdminRewards, ParticipantRow
  <2>. QED
    BY <2>1, <1>k, <1>n, GrantIsInBook
<1>5. CASE AdminNotifies(u, c)
  <2>1. /\ k \in granting /\ notified' = notified \cup {k}
        /\ UNCHANGED <<participant, mail>>
    BY <1>5 DEF AdminNotifies
  <2>2. k \in DOMAIN participant /\ participant[k].rewardEmailId # None
    BY <2>1 DEF IInv, GrantingIsRewarded
  <2>3. k \in DOMAIN BookOf \ Book!Open
    BY <1>d, <2>2, OpenInBook
  <2>4. Book!Notify(k)
    BY <2>1, <2>3, <1>n, BookStays DEF Book!Notify
  <2>. QED
    BY <2>4, <1>k DEF Book!Next
<1>. QED
  BY <1>1, <1>2, <1>3, <1>4, <1>5

\* So is what a run does once it has read.
LEMMA WorkKeepsBook ==
    ASSUME IInv, EarnedSoFar, [Next]_vars, \A s \in Run : ~ReadParticipants(s),
           NEW r \in Run, SendEmail(r) \/ MarkRewarded(r) \/ Notify(r)
    PROVE  [Book!Next]_(Book!vars)
<1>t. \A p \in DOMAIN participant : participant[p] \in ParticipantRow
  BY DEF IInv, TypeOK, IsTable
<1>d. DOMAIN BookOf = DOMAIN participant
  BY DEF BookOf
<1>n. TakenUp' = TakenUp
  BY TakenStays
<1>0. PICK k : k = Current(r)
  OBVIOUS
<1>1. r \in DOMAIN run /\ run[r].pc \in {"email", "update", "notify"}
  BY DEF SendEmail, MarkRewarded, Notify, At
<1>2. /\ run[r].current \in Challenge /\ k \in DOMAIN participant /\ k \in Key
      /\ k[1] = DonorOf(r) /\ k[2] = run[r].current
  BY <1>0, <1>1 DEF IInv, RunSoFar, TypeOK, IsTable, Current
<1>3. CASE SendEmail(r)
  <2>1. run[r].pc = "email" /\ mail' = mail \cup {<<r, k>>}
        /\ UNCHANGED <<participant, notified>>
    BY <1>0, <1>3 DEF SendEmail, At
  <2>2. run[r].terms[k[2]] # None
    BY <1>1, <1>2, <2>1, NoneIsNoRow DEF EarnedSoFar, HasEarned
  <2>3. <<r, k>> \in TakenUp
    BY <1>1, <1>2, <2>2 DEF TakenUp
  <2>4. Book!Mail(r, k)
    BY <2>1, <2>3, <1>n, BookStays DEF Book!Mail
  <2>. QED
    BY <2>4, <1>2 DEF Book!Next
<1>4. CASE MarkRewarded(r)
  <2>. DEFINE row == [participant[k] EXCEPT !.rewardEmailId = "",
                                            !.status = "COMPLETED"]
  <2>1. /\ participant' = [participant EXCEPT ![k] = row]
        /\ run[r].pc = "update"
        /\ UNCHANGED <<mail, notified>>
    BY <1>0, <1>4 DEF MarkRewarded, At
  <2>2. row.rewardEmailId = ""
    BY <1>2, <1>t DEF ParticipantRow
  <2>3. Standing("") = "given"
    BY NoneIsNoRow DEF Standing
  <2>. HIDE DEF row
  <2>4. BookOf' = [BookOf EXCEPT ![k] = "given"]
    BY <1>2, <2>1, <2>2, <2>3 DEF BookOf
  <2>5. <<r, k>> \in mail
    BY <1>0, <1>1, <2>1 DEF IInv, RunSoFar
  <2>6. Book!Give(k)
    BY <1>2, <2>1, <2>4, <2>5, <1>d, <1>n DEF Book!Give
  <2>. QED
    BY <2>6, <1>2 DEF Book!Next
<1>5. CASE Notify(r)
  <2>1. /\ run[r].pc = "notify" /\ notified' = notified \cup {k}
        /\ UNCHANGED <<participant, mail>>
    BY <1>0, <1>5 DEF Notify, At
  <2>2. participant[k].rewardEmailId # None
    BY <1>0, <1>1, <2>1 DEF IInv, RunSoFar
  <2>3. k \in DOMAIN BookOf \ Book!Open
    BY <1>2, <1>d, <2>2, OpenInBook
  <2>4. Book!Notify(k)
    BY <2>1, <2>3, <1>n, BookStays DEF Book!Notify
  <2>. QED
    BY <2>4, <1>2 DEF Book!Next
<1>. QED
  BY <1>3, <1>4, <1>5

\* Every step of worker, Bull, donors and admin is a step of the book or a
\* stutter of it.
LEMMA StepKeepsBook ==
    IInv /\ UnreadKnowsNothing /\ EarnedSoFar /\ [Next]_vars
        => [Book!Next]_(Book!vars)
<1>. SUFFICES ASSUME IInv, UnreadKnowsNothing, EarnedSoFar, [Next]_vars
              PROVE  [Book!Next]_(Book!vars)
  OBVIOUS
<1>1. ASSUME NEW r \in Run, ReadParticipants(r) PROVE [Book!Next]_(Book!vars)
  <2>1. /\ \A p \in Key : <<r, p>> \notin TakenUp
        /\ TakenUp' = TakenUp \cup ({r} \X Found(r))
        /\ Found(r) \subseteq Key
    BY <1>1, ReadingTakes
  <2>2. Found(r) \subseteq Book!Open
    BY OpenInBook DEF Found, Unrewarded
  <2>3. UNCHANGED <<participant, mail, notified>>
    BY <1>1 DEF ReadParticipants
  <2>4. Book!Take(r, Found(r))
    BY <2>1, <2>2, <2>3, BookStays DEF Book!Take
  <2>. QED
    BY <2>1, <2>4 DEF Book!Next
<1>2. ASSUME \A r \in Run : ~ReadParticipants(r) PROVE [Book!Next]_(Book!vars)
  <2>1. \/ UNCHANGED <<participant, mail, notified>>
        \/ \E u \in User, c \in Challenge :
              \/ CreateParticipant(u, c)
              \/ \E image \in BOOLEAN : UpdateParticipant(u, c, image)
              \/ AdminRewards(u, c)
              \/ AdminNotifies(u, c)
              \/ \E emptyId, reason \in BOOLEAN :
                    AdminRejects(u, c, emptyId, reason)
        \/ \E r \in Run : SendEmail(r) \/ MarkRewarded(r) \/ Notify(r)
    BY DEF Next, People, Work, Tick, CreateChallenge, UpdateChallenge,
       AdminNotificationFails, StoreDonation, EnqueueReward, StartRun, Stall,
       ReadParticipants, CountDonations, Finish, RunFails, CountThrows, Throw,
       Crash, vars
  <2>. QED
    BY <1>2, <2>1, OffTheBook, PeopleKeepBook, WorkKeepsBook
<1>. QED
  BY <1>1, <1>2

\* The book opens empty.
LEMMA InitKeepsBook == Init => Book!Init
<1>. SUFFICES ASSUME Init PROVE Book!Init
  OBVIOUS
<1>1. DOMAIN participant = {} /\ DOMAIN run = {}
  BY DEF Init, IsTable, EmptyTable
<1>2. BookOf = EmptyTable
  BY <1>1 DEF BookOf, EmptyTable
<1>3. TakenUp = {}
  BY <1>1 DEF TakenUp
<1>. QED
  BY <1>2, <1>3 DEF Init, Book!Init, Book!EmptyTable, EmptyTable

\* handleChallengeRewardEmail and the admin's endpoints implement RewardBook:
\* whatever stalls, fails, crashes or overlaps, a reward is mailed by a run
\* that found the participation open, marked after a mail and told after a
\* mark or a grant, and nothing of it is ever taken back.
THEOREM BookRefinement == Spec => ImplementsBook
<1>1. Init => Book!Init
  BY InitKeepsBook
<1>2. Spec => []UnreadKnowsNothing
  <2>1. Init => UnreadKnowsNothing
    BY DEF Init, UnreadKnowsNothing, IsTable, EmptyTable
  <2>. QED
    BY <2>1, UnreadStep, Invariance, PTL DEF Spec
<1>3. IInv /\ UnreadKnowsNothing /\ EarnedSoFar /\ [Next]_vars
          => [Book!Next]_(Book!vars)
  BY StepKeepsBook
<1>. QED
  BY <1>1, <1>2, <1>3, Invariance, EarnedInvariance, PTL
     DEF Spec, ImplementsBook, Book!Spec
=============================================================================
