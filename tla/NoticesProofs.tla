---------------------------- MODULE NoticesProofs ----------------------------
(***************************************************************************)
(* Proofs about Notices, for any number of users, campaigns, donations,    *)
(* updates and requests, and any bound on verdicts and alerts.             *)
(*                                                                         *)
(* A request acts on what it has read, while the tables go on changing.    *)
(* The invariant says of each request what of its reading still holds:     *)
(* nothing that matters to it is ever taken back (Further), and the only   *)
(* news that could come between, of the update whose hook it handles, can  *)
(* only be its own (OneHook).  So a step needs a proof for the request     *)
(* that takes it, and none for the others (MoveRight).                     *)
(***************************************************************************)
EXTENDS Notices, FiniteSetTheorems, TLAPS

-----------------------------------------------------------------------------
(* The inductive invariant                                                 *)

\* A request that tells of a verdict knows the campaign, the status and the
\* owner to tell; before the interested are told, an owner has been.  Whom it
\* is due to are interested still, or among those it has read.
Verdict == {"find", "owner", "match", "tell"}

VerdictRight(q) ==
    /\ q.pc \in Verdict =>
           q.entityId \in Campaign /\ q.status \in Status \ {"PENDING"}
    /\ q.pc \notin Verdict => q.status = None
    /\ q.pc = "owner" => q.users # {}
    /\ q.pc \in {"match", "tell"} =>
           /\ q.status = "PUBLISHED"
           /\ \E u \in User : IsTold(StatusNotice(q.entityId, u, "PUBLISHED"))
    /\ q.pc \in Verdict \ {"tell"} => q.due \subseteq interested
    /\ q.pc = "tell" => q.due \subseteq q.users

\* The gifts that were read hold one of everybody an alert is due to.
AlertRight(q) ==
    /\ q.pc \in {"check", "donors", "alert"} => q.entityId \in Campaign
    /\ q.donations \subseteq DOMAIN donation
    /\ q.pc = "alert" => q.due \subseteq {donation[d].userId : d \in q.donations}

\* A hook has been called for its update, for good.  Nobody is told before
\* the loop; in it, who is left has not been told, and of those due who is
\* not left was told or missed.
Hook == {"hook", "loop"}

HookRight(q) ==
    LET p == q.entityId IN
    /\ q.pc \in Hook => p \in DOMAIN post /\ ~ post[p].hook
    /\ q.pc = "hook" =>
           /\ q.due \subseteq Donors(post[p].campaignId)
           /\ \A u \in User : ~ IsTold(UpdateNotice(p, u))
    /\ q.pc = "loop" =>
           /\ \A u \in q.users : ~ IsTold(UpdateNotice(p, u))
           /\ \A u \in q.due : \/ u \in q.users
                               \/ IsTold(UpdateNotice(p, u))
                               \/ <<p, u>> \in missed

Right(q) == VerdictRight(q) /\ AlertRight(q) /\ HookRight(q)

\* An update has one hook at most, and no news before its hook was called.
OneHook ==
    \A r, s \in DOMAIN request :
        /\ request[r].pc \in Hook
        /\ request[s].pc \in Hook
        /\ request[r].entityId = request[s].entityId
        => r = s

NewsByHook ==
    \A p \in Post, u \in User : IsTold(UpdateNotice(p, u)) =>
        p \in DOMAIN post /\ ~ post[p].hook

IInv ==
    /\ TypeOK /\ IsFiniteSet(DOMAIN donation)
    /\ VerdictsAreTold /\ AlertsReachDonors /\ HookTellsDonorsOnce
    /\ OneHook /\ NewsByHook
    /\ \A r \in DOMAIN request : Right(request[r])

-----------------------------------------------------------------------------
(* What steps do not take back                                             *)

\* Gifts stay, updates stay called for, and nobody is untold; preferences are
\* changed by a step of their own.
Further ==
    /\ interested' = interested
    /\ \A d \in DOMAIN donation : d \in DOMAIN donation' /\ donation'[d] = donation[d]
    /\ \A p \in DOMAIN post :
           /\ p \in DOMAIN post' /\ post'[p].campaignId = post[p].campaignId
           /\ ~ post[p].hook => ~ post'[p].hook
    /\ DOMAIN notification \subseteq DOMAIN notification'
    /\ missed \subseteq missed'

\* No update is told of, but those of P.
NoNewsBut(P) ==
    \A p \in Post \ P, u \in User :
        UpdateNotice(p, u) \in DOMAIN notification' =>
            /\ UpdateNotice(p, u) \in DOMAIN notification
            /\ notification'[UpdateNotice(p, u)] = notification[UpdateNotice(p, u)]

\* Requests start, go on and end one at a time.
Only(r) ==
    \A x \in Request \ {r} :
        /\ x \in DOMAIN request <=> x \in DOMAIN request'
        /\ x \in DOMAIN request => request'[x] = request[x]

\* What donors of a campaign there are only grows.
LEMMA DonorsStay ==
    ASSUME Further, NEW c
    PROVE  Donors(c) \subseteq Donors(c)'
BY DEF Further, Donors, GiftsTo

\* What is right of a request stays right, unless its update is told of.
LEMMA FurtherStaysRight ==
    ASSUME Further, NEW q, Right(q), q.users \subseteq User,
           NEW P, NoNewsBut(P), DOMAIN post \subseteq Post,
           q.pc \in Hook => q.entityId \notin P
    PROVE  Right(q)'
<1>1. VerdictRight(q)'
  BY DEF Right, VerdictRight, Verdict, Further, IsTold
<1>2. AlertRight(q)'
  <2>1. PICK c : c = q.entityId
    OBVIOUS
  <2>2. Donors(c) \subseteq Donors(c)'
    BY DonorsStay
  <2>3. q.pc = "alert" => q.due \subseteq {donation'[d].userId : d \in q.donations}
    BY DEF Right, AlertRight, Further
  <2>. QED
    BY <2>1, <2>2, <2>3 DEF Right, AlertRight, Further
<1>3. HookRight(q)'
  <2>1. PICK p : p = q.entityId
    OBVIOUS
  <2>2. ASSUME q.pc \in Hook
        PROVE  /\ p \in DOMAIN post' /\ ~ post'[p].hook
               /\ post'[p].campaignId = post[p].campaignId
               /\ \A u \in User : UpdateNotice(p, u) \in DOMAIN notification' =>
                      UpdateNotice(p, u) \in DOMAIN notification
    BY <2>1, <2>2 DEF Right, HookRight, Further, NoNewsBut
  <2>3. PICK c : c = post[p].campaignId
    OBVIOUS
  <2>4. Donors(c) \subseteq Donors(c)'
    BY DonorsStay
  <2>5. ASSUME q.pc = "hook" PROVE q.due \subseteq Donors(post[p].campaignId)'
    <3>1. q.due \subseteq Donors(c) /\ c = post'[p].campaignId
      BY <2>1, <2>2, <2>3, <2>5 DEF Right, HookRight, Hook
    <3>. QED
      BY <3>1, <2>4
  <2>6. ASSUME q.pc = "hook", NEW u \in User PROVE ~ IsTold(UpdateNotice(p, u))'
    BY <2>1, <2>2, <2>6 DEF Right, HookRight, Hook, IsTold
  <2>7. ASSUME q.pc = "loop"
        PROVE  /\ \A u \in User : u \in q.users => ~ IsTold(UpdateNotice(p, u))'
               /\ \A u \in q.due : \/ u \in q.users
                                   \/ IsTold(UpdateNotice(p, u))'
                                   \/ <<p, u>> \in missed'
    BY <2>1, <2>2, <2>7 DEF Right, HookRight, Hook, IsTold, Further
  <2>. QED
    BY <2>1, <2>2, <2>5, <2>6, <2>7 DEF HookRight, Hook
<1>. QED
  BY <1>1, <1>2, <1>3 DEF Right

-----------------------------------------------------------------------------
(* What a step of one request leaves alone                                 *)

\* Requests that do not move stay right, and one hook stays one: it is enough
\* that the request that moves is right, and has no hook it did not have.
LEMMA MoveRight ==
    ASSUME IInv, Further, NEW P, NoNewsBut(P), NEW r \in Request, Only(r),
           DOMAIN request' \subseteq Request,
           \A x \in DOMAIN request \ {r} :
               request[x].pc \in Hook => request[x].entityId \notin P,
           r \in DOMAIN request' => Right(request[r])',
           r \in DOMAIN request' /\ request'[r].pc \in Hook =>
               \A x \in DOMAIN request \ {r} :
                   request[x].pc \in Hook => request[x].entityId # request'[r].entityId
    PROVE  OneHook' /\ (\A x \in DOMAIN request : Right(request[x]))'
<1>1. OneHook'
  <2>. SUFFICES ASSUME NEW x \in DOMAIN request', NEW y \in DOMAIN request',
                       request'[x].pc \in Hook, request'[y].pc \in Hook,
                       request'[x].entityId = request'[y].entityId
                PROVE  x = y
    BY DEF OneHook
  <2>1. CASE x # r /\ y # r
    BY <2>1 DEF IInv, OneHook, Only
  <2>2. CASE x = r \/ y = r
    BY <2>2 DEF Only
  <2>. QED
    BY <2>1, <2>2
<1>2. ASSUME NEW x \in DOMAIN request' PROVE Right(request[x])'
  <2>1. CASE x = r
    BY <2>1
  <2>2. CASE x # r
    <3>1. x \in DOMAIN request /\ request'[x] = request[x]
      BY <2>2 DEF Only
    <3>2. PICK q : q = request[x]
      OBVIOUS
    <3>3. Right(q) /\ q.users \subseteq User /\ (q.pc \in Hook => q.entityId \notin P)
      BY <3>1, <3>2, <2>2 DEF IInv, TypeOK, IsTable, RequestRow
    <3>4. DOMAIN post \subseteq Post
      BY DEF IInv, TypeOK, IsTable
    <3>5. Right(q)'
      BY <3>3, <3>4, FurtherStaysRight
    <3>. QED
      BY <3>1, <3>2, <3>5
  <2>. QED
    BY <2>1, <2>2
<1>. QED
  BY <1>1, <1>2

\* Verdicts stay told when only request r moves (it goes on telling, fails, or
\* has told), and a new verdict is told of by a request.
LEMMA ToldStays ==
    ASSUME IInv, Further, NEW r \in Request, Only(r),
           failed \subseteq failed', told \subseteq told',
           \A j \in told' \ told : \A u \in j.users :
               MatchNotice(j.entityId, u) \in DOMAIN notification',
           \A c \in Campaign :
               \/ status'[c] = status[c] \/ status'[c] = "PENDING"
               \/ \E x \in DOMAIN request' :
                      request'[x].entityId = c /\ request'[x].status = status'[c],
           r \in DOMAIN request /\ request[r].status # None =>
               \/ /\ r \in DOMAIN request'
                  /\ request'[r].entityId = request[r].entityId
                  /\ request'[r].status = request[r].status
               \/ <<request[r].entityId, request[r].status>> \in failed'
               \/ /\ \E u \in User :
                         StatusNotice(request[r].entityId, u, request[r].status)
                             \in DOMAIN notification'
                  /\ request[r].status = "PUBLISHED" =>
                         \E j \in told' : j.entityId = request[r].entityId
    PROVE  VerdictsAreTold'
<1>6. \A j \in told' : \A u \in j.users :
          MatchNotice(j.entityId, u) \in DOMAIN notification'
  BY DEF IInv, VerdictsAreTold, IsTold, Further
<1>. SUFFICES ASSUME NEW c \in Campaign, status'[c] # "PENDING",
                     ~ \E x \in DOMAIN request' :
                           request'[x].entityId = c /\ request'[x].status = status'[c]
              PROVE  \/ <<c, status'[c]>> \in failed'
                     \/ /\ \E u \in User :
                               StatusNotice(c, u, status'[c]) \in DOMAIN notification'
                        /\ status'[c] = "PUBLISHED" =>
                               \E j \in told' : j.entityId = c
  BY <1>6 DEF VerdictsAreTold, IsTold, IsTelling
<1>0. PICK s : s = status[c]
  OBVIOUS
<1>. status'[c] = s /\ s # "PENDING"
  BY <1>0
<1>1. s \in Status /\ s # None
  BY <1>0, NoticesAssumption DEF IInv, TypeOK, Status
<1>2. \/ <<c, s>> \in failed
      \/ \E x \in DOMAIN request : IsTelling(x, c, s)
      \/ /\ \E u \in User : IsTold(StatusNotice(c, u, s))
         /\ s = "PUBLISHED" => \E j \in told : j.entityId = c
  BY <1>0 DEF IInv, VerdictsAreTold
<1>3. CASE <<c, s>> \in failed
  BY <1>0, <1>3
<1>4. ASSUME NEW x \in DOMAIN request, IsTelling(x, c, s)
      PROVE  \/ <<c, s>> \in failed'
             \/ /\ \E u \in User : StatusNotice(c, u, s) \in DOMAIN notification'
                /\ s = "PUBLISHED" => \E j \in told' : j.entityId = c
  <2>1. x \in Request
    BY DEF IInv, TypeOK, IsTable
  <2>2. CASE x # r
    BY <1>4, <2>1, <2>2 DEF Only, IsTelling
  <2>3. CASE x = r
    BY <1>1, <1>4, <2>3 DEF IsTelling
  <2>. QED
    BY <2>2, <2>3
<1>5. CASE /\ \E u \in User : IsTold(StatusNotice(c, u, s))
           /\ s = "PUBLISHED" => \E j \in told : j.entityId = c
  BY <1>0, <1>5 DEF IsTold, Further
<1>. QED
  BY <1>0, <1>2, <1>3, <1>4, <1>5

\* Nothing else to prove of what is told, when no update is told of and
\* neither an alert nor a hook is answered.
LEMMA QuietStep ==
    ASSUME IInv, Further, NoNewsBut({}), alerted' = alerted, heard' = heard
    PROVE  AlertsReachDonors' /\ HookTellsDonorsOnce' /\ NewsByHook'
<1>1. AlertsReachDonors'
  BY DEF IInv, AlertsReachDonors, IsTold, Further
<1>2. HookTellsDonorsOnce'
  BY DEF IInv, HookTellsDonorsOnce, IsTold, Further, NoNewsBut
<1>3. NewsByHook'
  BY DEF IInv, NewsByHook, IsTold, Further, NoNewsBut
<1>. QED
  BY <1>1, <1>2, <1>3

\* Sending notices that are not of an update.
LEMMA OthersAdd ==
    ASSUME IInv, NEW B, IsABag(B), DOMAIN B \subseteq Notice,
           \A n \in DOMAIN B : n.type # "CAMPAIGN_UPDATE",
           notification' = notification (+) B
    PROVE  /\ IsABag(notification') /\ DOMAIN notification' \subseteq Notice
           /\ DOMAIN notification' = DOMAIN notification \cup DOMAIN B
           /\ NoNewsBut({})
<1>1. IsABag(notification) /\ DOMAIN notification \subseteq Notice
  BY DEF IInv, TypeOK
<1>2. /\ DOMAIN notification' = DOMAIN notification \cup DOMAIN B
      /\ IsABag(notification')
  BY <1>1 DEF IsABag, (+)
<1>3. ASSUME NEW n \in DOMAIN notification', n \notin DOMAIN B
      PROVE  notification'[n] = notification[n]
  BY <1>1, <1>2, <1>3 DEF IsABag, (+)
<1>4. NoNewsBut({})
  BY <1>2, <1>3 DEF NoNewsBut, UpdateNotice
<1>. QED
  BY <1>1, <1>2, <1>4

\* Telling one user of one update.
LEMMA NewsAdd ==
    ASSUME IInv, NEW p \in Post, NEW u \in User,
           notification' = notification (+) SetToBag({UpdateNotice(p, u)})
    PROVE  /\ IsABag(notification') /\ DOMAIN notification' \subseteq Notice
           /\ DOMAIN notification' = DOMAIN notification \cup {UpdateNotice(p, u)}
           /\ NoNewsBut({p})
           /\ \A v \in User : v # u /\ UpdateNotice(p, v) \in DOMAIN notification' =>
                  /\ UpdateNotice(p, v) \in DOMAIN notification
                  /\ notification'[UpdateNotice(p, v)] = notification[UpdateNotice(p, v)]
           /\ UpdateNotice(p, u) \notin DOMAIN notification =>
                  notification'[UpdateNotice(p, u)] = 1
<1>1. IsABag(notification) /\ DOMAIN notification \subseteq Notice
  BY DEF IInv, TypeOK
<1>2. UpdateNotice(p, u) \in Notice
  BY DEF UpdateNotice, Notice, Entity
<1>3. PICK n : n = UpdateNotice(p, u)
  OBVIOUS
<1>4. /\ DOMAIN notification' = DOMAIN notification \cup {n}
      /\ IsABag(notification')
      /\ \A m \in DOMAIN notification \ {n} : notification'[m] = notification[m]
      /\ n \notin DOMAIN notification => notification'[n] = 1
  BY <1>1, <1>3 DEF IsABag, (+), SetToBag
<1>5. \A q \in Post, v \in User : UpdateNotice(q, v) = n => q = p /\ v = u
  BY <1>3 DEF UpdateNotice
<1>6. NoNewsBut({p})
  BY <1>4, <1>5 DEF NoNewsBut
<1>. QED
  BY <1>1, <1>2, <1>3, <1>4, <1>5, <1>6

-----------------------------------------------------------------------------
(* How requests start, move and end                                        *)

\* A new request has a free id, and what it starts with.
LEMMA StartShape ==
    ASSUME IInv, NEW pc, NEW x, NEW s, NEW due, Start(pc, x, s, due),
           pc \in {"find", "check", "hook"}, x \in Entity,
           s \in Status \cup {None}, due \subseteq User
    PROVE  \E k \in Request \ DOMAIN request :
               /\ IsTable(request', Request, RequestRow)
               /\ DOMAIN request' = DOMAIN request \cup {k}
               /\ Only(k)
               /\ request'[k] = [pc |-> pc, entityId |-> x, status |-> s,
                                 donations |-> {}, users |-> {}, due |-> due]
<1>1. PICK k : k = NewKey(Request, request)
  OBVIOUS
<1>2. k \in Request \ DOMAIN request
  BY <1>1 DEF Start, NewKey, HasRoom
<1>3. PICK q : q = [pc |-> pc, entityId |-> x, status |-> s,
                    donations |-> {}, users |-> {}, due |-> due]
  OBVIOUS
<1>4. q \in RequestRow
  BY <1>3 DEF RequestRow
<1>5. request' = Put(request, k, q)
  BY <1>1, <1>3 DEF Start
<1>6. IsTable(request, Request, RequestRow)
  BY DEF IInv, TypeOK
<1>7. IsTable(request', Request, RequestRow)
  BY <1>2, <1>4, <1>5, <1>6 DEF IsTable, Put
<1>8. DOMAIN request' = DOMAIN request \cup {k} /\ request'[k] = q /\ Only(k)
  BY <1>2, <1>5 DEF Put, Only
<1>. QED
  BY <1>2, <1>3, <1>7, <1>8

LEMMA MoveShape ==
    ASSUME IInv, NEW r \in DOMAIN request, NEW q \in RequestRow,
           request' = [request EXCEPT ![r] = q]
    PROVE  /\ IsTable(request', Request, RequestRow)
           /\ DOMAIN request' = DOMAIN request
           /\ Only(r) /\ request'[r] = q
<1>1. IsTable(request, Request, RequestRow)
  BY DEF IInv, TypeOK
<1>2. IsTable(request', Request, RequestRow)
  BY <1>1 DEF IsTable
<1>. QED
  BY <1>2 DEF Only

\* A request that ends leaves nothing to prove but what it told.
LEMMA EndRight ==
    ASSUME IInv, NEW r \in DOMAIN request, End(r), Further, NoNewsBut({})
    PROVE  /\ IsTable(request', Request, RequestRow)
           /\ r \in Request /\ Only(r) /\ r \notin DOMAIN request'
           /\ OneHook' /\ (\A x \in DOMAIN request : Right(request[x]))'
<1>1. /\ IsTable(request, Request, RequestRow)
      /\ r \in Request /\ DOMAIN request \subseteq Request
  BY DEF IInv, TypeOK, IsTable
<1>2. IsTable(request', Request, RequestRow)
  BY <1>1 DEF End, IsTable, Drop
<1>3. /\ DOMAIN request' = DOMAIN request \ {r}
      /\ \A x \in DOMAIN request' : request'[x] = request[x]
  BY DEF End, Drop
<1>4. Only(r)
  BY <1>3 DEF Only
<1>5. DOMAIN request' \subseteq Request /\ r \notin DOMAIN request'
  BY <1>1, <1>3
<1>6. OneHook' /\ (\A x \in DOMAIN request : Right(request[x]))'
  BY <1>1, <1>4, <1>5, MoveRight
<1>. QED
  BY <1>1, <1>2, <1>4, <1>5, <1>6

\* Requests that do not move stay right.
LEMMA StillRight ==
    ASSUME IInv, Further, NoNewsBut({}), UNCHANGED request
    PROVE  OneHook' /\ (\A x \in DOMAIN request : Right(request[x]))'
<1>1. OneHook'
  BY DEF IInv, OneHook
<1>2. ASSUME NEW x \in DOMAIN request' PROVE Right(request[x])'
  <2>1. PICK q : q = request[x]
    OBVIOUS
  <2>2. Right(q) /\ q.users \subseteq User /\ DOMAIN post \subseteq Post
    BY <2>1 DEF IInv, TypeOK, IsTable, RequestRow
  <2>3. Right(q)'
    BY <2>2, FurtherStaysRight
  <2>. QED
    BY <2>1, <2>3
<1>. QED
  BY <1>1, <1>2

\* Donors are users.
LEMMA DonorsAreUsers ==
    ASSUME IInv, NEW c
    PROVE  Donors(c) \subseteq User
BY DEF IInv, TypeOK, IsTable, DonationRow, Donors, GiftsTo

-----------------------------------------------------------------------------
(* Users                                                                   *)

LEMMA DonateIInv ==
    ASSUME IInv, NEW u \in User, NEW c \in Campaign, Donate(u, c)
    PROVE  IInv'
<1>1. PICK d : d = NewKey(Donation, donation)
  OBVIOUS
<1>2. d \in Donation /\ d \notin DOMAIN donation
  BY <1>1 DEF Donate, NewKey, HasRoom
<1>3. PICK row : row = [userId |-> u, campaignId |-> c]
  OBVIOUS
<1>4. row \in DonationRow
  BY <1>3 DEF DonationRow
<1>5. donation' = Put(donation, d, row)
  BY <1>1, <1>3 DEF Donate
<1>6. IsTable(donation', Donation, DonationRow)
  BY <1>2, <1>4, <1>5 DEF IInv, TypeOK, IsTable, Put
<1>7. /\ DOMAIN donation' = DOMAIN donation \cup {d}
      /\ \A e \in DOMAIN donation : donation'[e] = donation[e]
  BY <1>2, <1>5 DEF Put
<1>8. IsFiniteSet(DOMAIN donation')
  <2>1. IsFiniteSet(DOMAIN donation)
    BY DEF IInv
  <2>. QED
    BY <1>7, <2>1, FS_AddElement
<1>9. TypeOK'
  BY <1>6 DEF IInv, TypeOK, Donate, historyVars
<1>10. Further /\ NoNewsBut({})
  BY <1>7 DEF Further, NoNewsBut, Donate, historyVars
<1>11. AlertsReachDonors' /\ HookTellsDonorsOnce' /\ NewsByHook'
  BY <1>10, QuietStep DEF Donate, historyVars
<1>12. OneHook' /\ (\A x \in DOMAIN request : Right(request[x]))'
  BY <1>10, StillRight DEF Donate
<1>13. VerdictsAreTold'
  BY DEF IInv, VerdictsAreTold, IsTelling, IsTold, Donate, historyVars
<1>. QED
  BY <1>8, <1>9, <1>11, <1>12, <1>13 DEF IInv

LEMMA TakeOverIInv ==
    ASSUME IInv, NEW u \in User, NEW c \in Campaign, TakeOver(u, c)
    PROVE  IInv'
<1>1. TypeOK'
  BY DEF IInv, TypeOK, TakeOver, historyVars
<1>2. Further /\ NoNewsBut({})
  BY DEF Further, NoNewsBut, TakeOver, historyVars
<1>3. AlertsReachDonors' /\ HookTellsDonorsOnce' /\ NewsByHook'
  BY <1>2, QuietStep DEF TakeOver, historyVars
<1>4. OneHook' /\ (\A x \in DOMAIN request : Right(request[x]))'
  BY <1>2, StillRight DEF TakeOver
<1>5. VerdictsAreTold'
  BY DEF IInv, VerdictsAreTold, IsTelling, IsTold, TakeOver, historyVars
<1>. QED
  BY <1>1, <1>3, <1>4, <1>5 DEF IInv, TakeOver

\* Whoever leaves the category is no longer due a notice of a publication, so
\* who is due one still prefers it.
LEMMA ChangePreferenceIInv ==
    ASSUME IInv, NEW u \in User, ChangePreference(u)
    PROVE  IInv'
<1>1. PICK I : I = interested'
  OBVIOUS
<1>2. I \subseteq User
  BY <1>1 DEF ChangePreference, IInv, TypeOK
<1>3. /\ DOMAIN request' = DOMAIN request
      /\ DOMAIN request \subseteq Request /\ IsFiniteSet(DOMAIN donation)
  BY DEF ChangePreference, IInv, TypeOK, IsTable
<1>4. UNCHANGED <<owner, status, donation, post, notification, asked, historyVars>>
  BY DEF ChangePreference
<1>5. ASSUME NEW x \in DOMAIN request
      PROVE  /\ request'[x] \in RequestRow /\ Right(request[x])'
             /\ request'[x].pc = request[x].pc
             /\ request'[x].entityId = request[x].entityId
             /\ request'[x].status = request[x].status
  <2>1. PICK q : q = request[x]
    OBVIOUS
  <2>2. q \in RequestRow /\ Right(q) /\ q.due \subseteq User
    BY <2>1 DEF IInv, TypeOK, IsTable, RequestRow
  <2>3. PICK w : w = IF q.status = None THEN q ELSE [q EXCEPT !.due = q.due \cap I]
    OBVIOUS
  <2>4. request'[x] = w
    BY <1>1, <2>1, <2>3 DEF ChangePreference
  <2>5. /\ w \in RequestRow
        /\ w.pc = q.pc /\ w.entityId = q.entityId /\ w.status = q.status
        /\ w.users = q.users /\ w.donations = q.donations
        /\ w.due \subseteq q.due
        /\ q.status # None => w.due \subseteq I
    BY <1>2, <2>2, <2>3 DEF RequestRow
  <2>6. q.pc \notin Verdict => w = q
    BY <2>2, <2>3 DEF Right, VerdictRight
  <2>7. q.pc \in Verdict => q.status # None
    BY <2>2, NoticesAssumption DEF Right, VerdictRight, Status
  <2>8. VerdictRight(w)'
    BY <1>1, <1>4, <2>2, <2>5, <2>7 DEF Right, VerdictRight, Verdict, IsTold
  <2>9. AlertRight(w)'
    BY <1>4, <2>2, <2>5 DEF Right, AlertRight
  <2>10. HookRight(w)'
    <3>1. CASE q.pc \in Hook
      <4>1. w = q
        BY <2>6, <3>1 DEF Hook, Verdict
      <4>. QED
        BY <1>4, <2>2, <4>1
           DEF Right, HookRight, IsTold, Donors, GiftsTo, historyVars
    <3>2. CASE q.pc \notin Hook
      BY <2>5, <3>2 DEF HookRight, Hook
    <3>. QED
      BY <3>1, <3>2
  <2>. QED
    BY <2>1, <2>4, <2>5, <2>8, <2>9, <2>10 DEF Right
<1>6. IsTable(request', Request, RequestRow)
  <2>1. request' = [x \in DOMAIN request |-> request'[x]]
    BY DEF ChangePreference
  <2>. QED
    BY <1>3, <1>5, <2>1 DEF IsTable
<1>7. TypeOK'
  BY <1>1, <1>2, <1>4, <1>6 DEF IInv, TypeOK, historyVars
<1>8. OneHook'
  BY <1>3, <1>5 DEF IInv, OneHook
<1>9. (\A x \in DOMAIN request : Right(request[x]))'
  BY <1>3, <1>5
<1>10. VerdictsAreTold'
  BY <1>3, <1>4, <1>5
     DEF IInv, VerdictsAreTold, IsTelling, IsTold, historyVars
<1>11. AlertsReachDonors' /\ HookTellsDonorsOnce' /\ NewsByHook'
  BY <1>4 DEF IInv, AlertsReachDonors, HookTellsDonorsOnce, NewsByHook, IsTold,
              historyVars
<1>. QED
  BY <1>3, <1>4, <1>7, <1>8, <1>9, <1>10, <1>11 DEF IInv

LEMMA PostUpdateIInv ==
    ASSUME IInv, NEW p \in Post, NEW c \in Campaign, PostUpdate(p, c)
    PROVE  IInv'
<1>1. PICK row : row = [campaignId |-> c, hook |-> TRUE]
  OBVIOUS
<1>2. row \in PostRow
  BY <1>1 DEF PostRow
<1>3. post' = Put(post, p, row)
  BY <1>1 DEF PostUpdate
<1>4. IsTable(post', Post, PostRow)
  BY <1>2, <1>3 DEF IInv, TypeOK, IsTable, Put
<1>5. TypeOK'
  BY <1>4 DEF IInv, TypeOK, PostUpdate, historyVars
<1>6. DOMAIN post \subseteq DOMAIN post' /\ \A q \in DOMAIN post : post'[q] = post[q]
  BY <1>3 DEF Put, PostUpdate
<1>7. Further /\ NoNewsBut({})
  BY <1>6 DEF Further, NoNewsBut, PostUpdate, historyVars
<1>8. AlertsReachDonors' /\ HookTellsDonorsOnce' /\ NewsByHook'
  BY <1>7, QuietStep DEF PostUpdate, historyVars
<1>9. OneHook' /\ (\A x \in DOMAIN request : Right(request[x]))'
  BY <1>7, StillRight DEF PostUpdate
<1>10. VerdictsAreTold'
  BY DEF IInv, VerdictsAreTold, IsTelling, IsTold, PostUpdate, historyVars
<1>. QED
  BY <1>5, <1>8, <1>9, <1>10 DEF IInv, PostUpdate

-----------------------------------------------------------------------------
(* Verdicts                                                                *)

LEMMA AdminUpdateCampaignIInv ==
    ASSUME IInv, NEW c \in Campaign, NEW s \in Status \cup {None},
           AdminUpdateCampaign(c, s)
    PROVE  IInv'
<1>1. Further /\ NoNewsBut({})
  BY DEF Further, NoNewsBut, AdminUpdateCampaign, historyVars
<1>2. AlertsReachDonors' /\ HookTellsDonorsOnce' /\ NewsByHook'
  BY <1>1, QuietStep DEF AdminUpdateCampaign, historyVars
<1>3. /\ status' \in [Campaign -> Status] /\ asked' \in 0..MaxAsked
      /\ \A x \in Campaign \ {c} : status'[x] = status[x]
      /\ status'[c] = IF s = None THEN status[c] ELSE s
  BY NoticesAssumption DEF IInv, TypeOK, AdminUpdateCampaign, AskOnceMore
<1>4. CASE s \in {None, "PENDING"}
  <2>1. UNCHANGED request
    BY <1>4 DEF AdminUpdateCampaign
  <2>2. TypeOK'
    BY <1>3, <2>1 DEF IInv, TypeOK, AdminUpdateCampaign, historyVars
  <2>3. OneHook' /\ (\A x \in DOMAIN request : Right(request[x]))'
    BY <1>1, <2>1, StillRight
  <2>4. \A x \in Campaign : status'[x] = status[x] \/ status'[x] = "PENDING"
    BY <1>3, <1>4
  <2>5. VerdictsAreTold'
    BY <2>1, <2>4 DEF IInv, VerdictsAreTold, IsTelling, IsTold,
                      AdminUpdateCampaign, historyVars
  <2>. QED
    BY <1>2, <2>2, <2>3, <2>5 DEF IInv, AdminUpdateCampaign
<1>5. CASE s \notin {None, "PENDING"}
  <2>1. Start("find", c, s, interested)
    BY <1>5 DEF AdminUpdateCampaign
  <2>2. PICK k \in Request \ DOMAIN request :
            /\ IsTable(request', Request, RequestRow)
            /\ DOMAIN request' = DOMAIN request \cup {k}
            /\ Only(k)
            /\ request'[k] = [pc |-> "find", entityId |-> c, status |-> s,
                              donations |-> {}, users |-> {},
                              due |-> interested]
    BY <2>1, StartShape DEF Entity, IInv, TypeOK
  <2>3. TypeOK'
    BY <1>3, <2>2 DEF IInv, TypeOK, AdminUpdateCampaign, historyVars
  <2>4. Right(request[k])'
    BY <1>5, <2>2 DEF Right, VerdictRight, Verdict, AlertRight, HookRight, Hook,
                      AdminUpdateCampaign
  <2>5. DOMAIN request' \subseteq Request /\ request'[k].pc \notin Hook
    BY <2>2 DEF IsTable, Hook
  <2>6. OneHook' /\ (\A x \in DOMAIN request : Right(request[x]))'
    BY <1>1, <2>2, <2>4, <2>5, MoveRight
  <2>7. k \in DOMAIN request' /\ request'[k].entityId = c /\ request'[k].status = s
    BY <2>2
  <2>8. \A x \in Campaign :
            \/ status'[x] = status[x] \/ status'[x] = "PENDING"
            \/ \E y \in DOMAIN request' :
                   request'[y].entityId = x /\ request'[y].status = status'[x]
    BY <1>3, <1>5, <2>7
  <2>9. failed \subseteq failed' /\ told' = told
    BY DEF AdminUpdateCampaign, historyVars
  <2>10. VerdictsAreTold'
    BY <1>1, <2>2, <2>8, <2>9, ToldStays
  <2>. QED
    BY <1>2, <2>3, <2>6, <2>10 DEF IInv, AdminUpdateCampaign
<1>. QED
  BY <1>4, <1>5

\* What is right of a request that tells of a verdict.
LEMMA TellsRight ==
    ASSUME IInv, NEW r \in DOMAIN request, request[r].pc \in Verdict
    PROVE  /\ request[r].entityId \in Campaign
           /\ request[r].status \in Status \ {"PENDING"} /\ request[r].status # None
           /\ request[r].pc = "owner" => \E u \in User : u \in request[r].users
           /\ request[r].pc \in {"match", "tell"} =>
                  /\ request[r].status = "PUBLISHED"
                  /\ \E u \in User :
                         IsTold(StatusNotice(request[r].entityId, u, "PUBLISHED"))
<1>1. PICK q : q = request[r]
  OBVIOUS
<1>2. q \in RequestRow /\ VerdictRight(q)
  BY <1>1 DEF IInv, TypeOK, IsTable, Right
<1>3. q.users \subseteq User
  BY <1>2 DEF RequestRow
<1>. QED
  BY <1>1, <1>2, <1>3, NoticesAssumption DEF VerdictRight, Verdict, Status

LEMMA FindOwnerIInv ==
    ASSUME IInv, NEW r \in Request, FindOwner(r)
    PROVE  IInv'
<1>1. r \in DOMAIN request /\ request[r].pc = "find"
  BY DEF FindOwner, At
<1>2. PICK p : p = request[r]
  OBVIOUS
<1>3. /\ p \in RequestRow /\ p.entityId \in Campaign
      /\ p.status \in Status \ {"PENDING"} /\ Right(p)
  BY <1>1, <1>2, TellsRight DEF IInv, TypeOK, IsTable, Verdict
<1>4. PICK q : q = [p EXCEPT !.pc = "owner", !.users = {owner[p.entityId]}]
  OBVIOUS
<1>5. owner[p.entityId] \in User
  BY <1>3 DEF IInv, TypeOK
<1>6. /\ q \in RequestRow /\ q.pc = "owner" /\ q.users = {owner[p.entityId]}
      /\ q.entityId = p.entityId /\ q.status = p.status
      /\ q.donations = p.donations /\ q.due = p.due
  BY <1>3, <1>4, <1>5 DEF RequestRow
<1>7. request' = [request EXCEPT ![r] = q]
  BY <1>1, <1>2, <1>4 DEF FindOwner
<1>8. /\ IsTable(request', Request, RequestRow)
      /\ DOMAIN request' = DOMAIN request
      /\ Only(r) /\ request'[r] = q
  BY <1>1, <1>6, <1>7, MoveShape
<1>9. TypeOK'
  BY <1>8 DEF IInv, TypeOK, FindOwner, historyVars
<1>10. Further /\ NoNewsBut({})
  BY DEF Further, NoNewsBut, FindOwner, historyVars
<1>11. AlertsReachDonors' /\ HookTellsDonorsOnce' /\ NewsByHook'
  BY <1>10, QuietStep DEF FindOwner, historyVars
<1>12. Right(request[r])'
  BY <1>1, <1>2, <1>3, <1>6, <1>8
     DEF Right, VerdictRight, Verdict, AlertRight, HookRight, Hook, FindOwner, IsTold
<1>13. DOMAIN request' \subseteq Request /\ request'[r].pc \notin Hook
  BY <1>6, <1>8 DEF IsTable, Hook
<1>14. OneHook' /\ (\A x \in DOMAIN request : Right(request[x]))'
  BY <1>10, <1>8, <1>12, <1>13, MoveRight
<1>15. VerdictsAreTold'
  BY <1>1, <1>2, <1>6, <1>8, <1>10, ToldStays DEF FindOwner, historyVars
<1>. QED
  BY <1>9, <1>11, <1>14, <1>15 DEF IInv, FindOwner

LEMMA TellOwnerIInv ==
    ASSUME IInv, NEW r \in Request, TellOwner(r)
    PROVE  IInv'
<1>1. r \in DOMAIN request /\ request[r].pc = "owner"
  BY DEF TellOwner, At
<1>2. PICK p : p = request[r]
  OBVIOUS
<1>3. /\ p \in RequestRow /\ p.entityId \in Campaign
      /\ p.status \in Status \ {"PENDING"} /\ Right(p)
      /\ p.users \subseteq User /\ \E u \in User : u \in p.users
  BY <1>1, <1>2, TellsRight DEF IInv, TypeOK, IsTable, Verdict, RequestRow
<1>4. PICK B : B = SetToBag({StatusNotice(p.entityId, u, p.status) : u \in p.users})
  OBVIOUS
<1>5. /\ IsABag(B)
      /\ DOMAIN B = {StatusNotice(p.entityId, u, p.status) : u \in p.users}
  BY <1>4 DEF IsABag, SetToBag
<1>6. DOMAIN B \subseteq Notice /\ \A n \in DOMAIN B : n.type # "CAMPAIGN_UPDATE"
  BY <1>3, <1>5 DEF StatusNotice, Notice, Entity
<1>7. notification' = notification (+) B
  BY <1>2, <1>4 DEF TellOwner
<1>8. /\ IsABag(notification') /\ DOMAIN notification' \subseteq Notice
      /\ DOMAIN notification' = DOMAIN notification \cup DOMAIN B
      /\ NoNewsBut({})
  BY <1>5, <1>6, <1>7, OthersAdd
<1>9. Further
  BY <1>8 DEF Further, TellOwner, historyVars
<1>10. AlertsReachDonors' /\ HookTellsDonorsOnce' /\ NewsByHook'
  BY <1>8, <1>9, QuietStep DEF TellOwner, historyVars
<1>11. \E u \in User : StatusNotice(p.entityId, u, p.status) \in DOMAIN notification'
  BY <1>3, <1>5, <1>8
<1>12. CASE p.status = "PUBLISHED"
  <2>1. PICK q : q = [p EXCEPT !.pc = "match"]
    OBVIOUS
  <2>2. /\ q \in RequestRow /\ q.pc = "match" /\ q.users = p.users
        /\ q.entityId = p.entityId /\ q.status = p.status
        /\ q.donations = p.donations /\ q.due = p.due
    BY <1>3, <2>1 DEF RequestRow
  <2>3. request' = [request EXCEPT ![r] = q]
    BY <1>1, <1>2, <1>12, <2>1 DEF TellOwner
  <2>4. /\ IsTable(request', Request, RequestRow)
        /\ DOMAIN request' = DOMAIN request
        /\ Only(r) /\ request'[r] = q
    BY <1>1, <2>2, <2>3, MoveShape
  <2>5. TypeOK'
    BY <1>8, <2>4 DEF IInv, TypeOK, TellOwner, historyVars
  <2>6. Right(request[r])'
    BY <1>1, <1>2, <1>3, <1>11, <1>12, <2>2, <2>4
       DEF Right, VerdictRight, Verdict, AlertRight, HookRight, Hook, TellOwner, IsTold
  <2>7. DOMAIN request' \subseteq Request /\ request'[r].pc \notin Hook
    BY <2>2, <2>4 DEF IsTable, Hook
  <2>8. OneHook' /\ (\A x \in DOMAIN request : Right(request[x]))'
    BY <1>8, <1>9, <2>4, <2>6, <2>7, MoveRight
  <2>9. VerdictsAreTold'
    BY <1>1, <1>2, <1>9, <2>2, <2>4, ToldStays DEF TellOwner, historyVars
  <2>. QED
    BY <1>10, <2>5, <2>8, <2>9 DEF IInv, TellOwner
<1>13. CASE p.status # "PUBLISHED"
  <2>1. End(r)
    BY <1>2, <1>13 DEF TellOwner
  <2>2. /\ IsTable(request', Request, RequestRow)
        /\ r \in Request /\ Only(r) /\ r \notin DOMAIN request'
        /\ OneHook' /\ (\A x \in DOMAIN request : Right(request[x]))'
    BY <1>1, <1>8, <1>9, <2>1, EndRight
  <2>3. TypeOK'
    BY <1>8, <2>2 DEF IInv, TypeOK, TellOwner, historyVars
  <2>4. VerdictsAreTold'
    BY <1>2, <1>9, <1>11, <1>13, <2>2, ToldStays DEF TellOwner, historyVars
  <2>. QED
    BY <1>10, <2>2, <2>3, <2>4 DEF IInv, TellOwner
<1>. QED
  BY <1>12, <1>13

\* Whom the notice is due to are among the users read just now.
LEMMA FindInterestedIInv ==
    ASSUME IInv, NEW r \in Request, FindInterested(r)
    PROVE  IInv'
<1>1. r \in DOMAIN request /\ request[r].pc = "match"
  BY DEF FindInterested, At
<1>2. PICK p : p = request[r]
  OBVIOUS
<1>3. /\ p \in RequestRow /\ p.entityId \in Campaign
      /\ p.status \in Status \ {"PENDING"} /\ Right(p)
  BY <1>1, <1>2, TellsRight DEF IInv, TypeOK, IsTable, Verdict
<1>4. PICK q : q = [p EXCEPT !.pc = "tell", !.users = interested]
  OBVIOUS
<1>5. interested \subseteq User
  BY DEF IInv, TypeOK
<1>6. /\ q \in RequestRow /\ q.pc = "tell" /\ q.users = interested
      /\ q.entityId = p.entityId /\ q.status = p.status
      /\ q.donations = p.donations /\ q.due = p.due
  BY <1>3, <1>4, <1>5 DEF RequestRow
<1>7. request' = [request EXCEPT ![r] = q]
  BY <1>1, <1>2, <1>4 DEF FindInterested
<1>8. /\ IsTable(request', Request, RequestRow)
      /\ DOMAIN request' = DOMAIN request
      /\ Only(r) /\ request'[r] = q
  BY <1>1, <1>6, <1>7, MoveShape
<1>9. TypeOK'
  BY <1>8 DEF IInv, TypeOK, FindInterested, historyVars
<1>10. Further /\ NoNewsBut({})
  BY DEF Further, NoNewsBut, FindInterested, historyVars
<1>11. AlertsReachDonors' /\ HookTellsDonorsOnce' /\ NewsByHook'
  BY <1>10, QuietStep DEF FindInterested, historyVars
<1>12. Right(request[r])'
  BY <1>1, <1>2, <1>3, <1>6, <1>8
     DEF Right, VerdictRight, Verdict, AlertRight, HookRight, Hook, FindInterested, IsTold
<1>13. DOMAIN request' \subseteq Request /\ request'[r].pc \notin Hook
  BY <1>6, <1>8 DEF IsTable, Hook
<1>14. OneHook' /\ (\A x \in DOMAIN request : Right(request[x]))'
  BY <1>10, <1>8, <1>12, <1>13, MoveRight
<1>15. VerdictsAreTold'
  BY <1>1, <1>2, <1>6, <1>8, <1>10, ToldStays DEF FindInterested, historyVars
<1>. QED
  BY <1>9, <1>11, <1>14, <1>15 DEF IInv, FindInterested

LEMMA TellInterestedIInv ==
    ASSUME IInv, NEW r \in Request, TellInterested(r)
    PROVE  IInv'
<1>1. r \in DOMAIN request /\ request[r].pc = "tell"
  BY DEF TellInterested, At
<1>2. PICK p : p = request[r]
  OBVIOUS
<1>3. /\ p.entityId \in Campaign /\ p.status = "PUBLISHED"
      /\ \E u \in User : IsTold(StatusNotice(p.entityId, u, "PUBLISHED"))
  BY <1>1, <1>2, TellsRight DEF Verdict
<1>4. p.users \subseteq User /\ p.due \subseteq p.users
  BY <1>1, <1>2 DEF IInv, TypeOK, IsTable, RequestRow, Right, VerdictRight
<1>5. PICK B : B = SetToBag({MatchNotice(p.entityId, u) : u \in p.users})
  OBVIOUS
<1>6. IsABag(B) /\ DOMAIN B = {MatchNotice(p.entityId, u) : u \in p.users}
  BY <1>5 DEF IsABag, SetToBag
<1>7. DOMAIN B \subseteq Notice /\ \A n \in DOMAIN B : n.type # "CAMPAIGN_UPDATE"
  BY <1>3, <1>6, <1>4 DEF MatchNotice, Notice, Entity
<1>8. notification' = notification (+) B
  BY <1>2, <1>5 DEF TellInterested
<1>9. /\ IsABag(notification') /\ DOMAIN notification' \subseteq Notice
      /\ DOMAIN notification' = DOMAIN notification \cup DOMAIN B
      /\ NoNewsBut({})
  BY <1>6, <1>7, <1>8, OthersAdd
<1>10. Further
  BY <1>9 DEF Further, TellInterested
<1>11. AlertsReachDonors' /\ HookTellsDonorsOnce' /\ NewsByHook'
  BY <1>9, <1>10, QuietStep DEF TellInterested
<1>12. /\ IsTable(request', Request, RequestRow)
       /\ r \in Request /\ Only(r) /\ r \notin DOMAIN request'
       /\ OneHook' /\ (\A x \in DOMAIN request : Right(request[x]))'
  BY <1>1, <1>9, <1>10, EndRight DEF TellInterested
<1>13. /\ told' = told \cup {[entityId |-> p.entityId, users |-> p.due]}
       /\ [entityId |-> p.entityId, users |-> p.due] \in Due
  BY <1>2, <1>3, <1>4 DEF TellInterested, Due, Entity
<1>14. TypeOK'
  BY <1>9, <1>12, <1>13 DEF IInv, TypeOK, TellInterested
<1>15. /\ \E u \in User : StatusNotice(p.entityId, u, p.status) \in DOMAIN notification'
       /\ \A u \in p.due : MatchNotice(p.entityId, u) \in DOMAIN notification'
       /\ \E j \in told' : j.entityId = p.entityId
  BY <1>3, <1>6, <1>9, <1>4, <1>13 DEF IsTold
<1>16. VerdictsAreTold'
  <2>1. \A j \in told' \ told : \A u \in j.users :
            MatchNotice(j.entityId, u) \in DOMAIN notification'
    BY <1>15, <1>13
  <2>2. failed \subseteq failed' /\ told \subseteq told' /\ status' = status
    BY <1>13 DEF TellInterested
  <2>. QED
    BY <1>2, <1>10, <1>12, <1>15, <2>1, <2>2, ToldStays
<1>. QED
  BY <1>11, <1>12, <1>14, <1>16 DEF IInv, TellInterested

\* A verdict whose request fails is on record as failed.
LEMMA RequestFailsIInv ==
    ASSUME IInv, NEW r \in Request, RequestFails(r)
    PROVE  IInv'
<1>1. r \in DOMAIN request
  BY DEF RequestFails
<1>2. PICK p : p = request[r]
  OBVIOUS
<1>3. p.status # None => p.entityId \in Campaign /\ p.status \in Status
  BY <1>1, <1>2 DEF IInv, Right, VerdictRight
<1>4. Further /\ NoNewsBut({})
  BY DEF Further, NoNewsBut, RequestFails
<1>5. AlertsReachDonors' /\ HookTellsDonorsOnce' /\ NewsByHook'
  BY <1>4, QuietStep DEF RequestFails
<1>6. /\ IsTable(request', Request, RequestRow)
      /\ r \in Request /\ Only(r) /\ r \notin DOMAIN request'
      /\ OneHook' /\ (\A x \in DOMAIN request : Right(request[x]))'
  BY <1>1, <1>4, EndRight DEF RequestFails
<1>7. /\ failed \subseteq failed' /\ failed' \subseteq Campaign \X Status
      /\ p.status # None => <<p.entityId, p.status>> \in failed'
  BY <1>2, <1>3 DEF RequestFails, IInv, TypeOK
<1>8. TypeOK'
  BY <1>6, <1>7 DEF IInv, TypeOK, RequestFails
<1>9. VerdictsAreTold'
  BY <1>2, <1>4, <1>6, <1>7, ToldStays DEF RequestFails
<1>. QED
  BY <1>5, <1>6, <1>8, <1>9 DEF IInv, RequestFails

-----------------------------------------------------------------------------
(* Alerts                                                                  *)

\* A request that tells of no verdict has none to lose.
LEMMA NoVerdictToTell ==
    ASSUME IInv, NEW r \in DOMAIN request, request[r].pc \notin Verdict
    PROVE  request[r].status = None
BY DEF IInv, Right, VerdictRight

LEMMA AskToAlertIInv ==
    ASSUME IInv, NEW c \in Campaign, AskToAlert(c)
    PROVE  IInv'
<1>1. Further /\ NoNewsBut({})
  BY DEF Further, NoNewsBut, AskToAlert, historyVars
<1>2. AlertsReachDonors' /\ HookTellsDonorsOnce' /\ NewsByHook'
  BY <1>1, QuietStep DEF AskToAlert, historyVars
<1>3. Start("check", c, None, {})
  BY DEF AskToAlert
<1>4. PICK k \in Request \ DOMAIN request :
          /\ IsTable(request', Request, RequestRow)
          /\ DOMAIN request' = DOMAIN request \cup {k}
          /\ Only(k)
          /\ request'[k] = [pc |-> "check", entityId |-> c, status |-> None,
                            donations |-> {}, users |-> {}, due |-> {}]
  BY <1>3, StartShape DEF Entity
<1>5. asked' \in 0..MaxAsked
  BY NoticesAssumption DEF IInv, TypeOK, AskToAlert, AskOnceMore
<1>6. TypeOK'
  BY <1>4, <1>5 DEF IInv, TypeOK, AskToAlert, historyVars
<1>7. Right(request[k])'
  BY <1>4 DEF Right, VerdictRight, Verdict, AlertRight, HookRight, Hook
<1>8. DOMAIN request' \subseteq Request /\ request'[k].pc \notin Hook
  BY <1>4 DEF IsTable, Hook
<1>9. OneHook' /\ (\A x \in DOMAIN request : Right(request[x]))'
  BY <1>1, <1>4, <1>7, <1>8, MoveRight
<1>10. VerdictsAreTold'
  BY <1>1, <1>4, ToldStays DEF AskToAlert, historyVars
<1>. QED
  BY <1>2, <1>6, <1>9, <1>10 DEF IInv, AskToAlert

LEMMA CheckAlertIInv ==
    ASSUME IInv, NEW r \in Request, CheckAlert(r)
    PROVE  IInv'
<1>1. r \in DOMAIN request /\ request[r].pc = "check"
  BY DEF CheckAlert, At
<1>2. PICK p : p = request[r]
  OBVIOUS
<1>3. p \in RequestRow /\ Right(p) /\ p.status = None
  BY <1>1, <1>2, NoVerdictToTell DEF IInv, TypeOK, IsTable, Verdict
<1>4. Further /\ NoNewsBut({})
  BY DEF Further, NoNewsBut, CheckAlert, historyVars
<1>5. AlertsReachDonors' /\ HookTellsDonorsOnce' /\ NewsByHook'
  BY <1>4, QuietStep DEF CheckAlert, historyVars
<1>6. CASE End(r)
  <2>1. /\ IsTable(request', Request, RequestRow)
        /\ r \in Request /\ Only(r) /\ r \notin DOMAIN request'
        /\ OneHook' /\ (\A x \in DOMAIN request : Right(request[x]))'
    BY <1>1, <1>4, <1>6, EndRight
  <2>2. TypeOK'
    BY <2>1 DEF IInv, TypeOK, CheckAlert, historyVars
  <2>3. VerdictsAreTold'
    BY <1>2, <1>3, <1>4, <2>1, ToldStays DEF CheckAlert, historyVars
  <2>. QED
    BY <1>5, <2>1, <2>2, <2>3 DEF IInv, CheckAlert
<1>7. CASE request' = [request EXCEPT ![r].pc = "donors"]
  <2>1. PICK q : q = [p EXCEPT !.pc = "donors"]
    OBVIOUS
  <2>2. /\ q \in RequestRow /\ q.pc = "donors" /\ q.users = p.users
        /\ q.entityId = p.entityId /\ q.status = p.status
        /\ q.donations = p.donations /\ q.due = p.due
    BY <1>3, <2>1 DEF RequestRow
  <2>3. request' = [request EXCEPT ![r] = q]
    BY <1>1, <1>2, <1>7, <2>1
  <2>4. /\ IsTable(request', Request, RequestRow)
        /\ DOMAIN request' = DOMAIN request
        /\ Only(r) /\ request'[r] = q
    BY <1>1, <2>2, <2>3, MoveShape
  <2>5. TypeOK'
    BY <2>4 DEF IInv, TypeOK, CheckAlert, historyVars
  <2>6. p.entityId \in Campaign
    BY <1>1, <1>2, <1>3 DEF Right, AlertRight
  <2>9. Right(request[r])'
    BY <1>3, <2>2, <2>4, <2>6
       DEF Right, VerdictRight, Verdict, AlertRight, HookRight, Hook, CheckAlert
  <2>10. DOMAIN request' \subseteq Request /\ request'[r].pc \notin Hook
    BY <2>2, <2>4 DEF IsTable, Hook
  <2>11. OneHook' /\ (\A x \in DOMAIN request : Right(request[x]))'
    BY <1>4, <2>4, <2>9, <2>10, MoveRight
  <2>12. VerdictsAreTold'
    BY <1>2, <1>3, <1>4, <2>4, ToldStays DEF CheckAlert, historyVars
  <2>. QED
    BY <1>5, <2>5, <2>11, <2>12 DEF IInv, CheckAlert
<1>. QED
  BY <1>6, <1>7 DEF CheckAlert

\* The gifts that are read hold those of every donor the alert is due to.
LEMMA FindGiftsIInv ==
    ASSUME IInv, NEW r \in Request, FindGifts(r)
    PROVE  IInv'
<1>1. r \in DOMAIN request /\ request[r].pc = "donors"
  BY DEF FindGifts, At
<1>2. PICK p : p = request[r]
  OBVIOUS
<1>3. p \in RequestRow /\ Right(p) /\ p.status = None
  BY <1>1, <1>2, NoVerdictToTell DEF IInv, TypeOK, IsTable, Verdict
<1>4. PICK gifts : gifts = GiftsTo(p.entityId)
  OBVIOUS
<1>5. gifts \subseteq DOMAIN donation /\ gifts \subseteq Donation
  BY <1>4 DEF GiftsTo, IInv, TypeOK, IsTable
<1>6. PICK due : due = Donors(p.entityId)
  OBVIOUS
<1>7. due \subseteq User /\ due = {donation[d].userId : d \in gifts}
  BY <1>4, <1>6, DonorsAreUsers DEF Donors
<1>8. PICK q : q = [p EXCEPT !.pc = "alert", !.donations = gifts, !.due = due]
  OBVIOUS
<1>9. /\ q \in RequestRow /\ q.pc = "alert" /\ q.users = p.users
      /\ q.entityId = p.entityId /\ q.status = p.status
      /\ q.donations = gifts /\ q.due = due
  BY <1>3, <1>5, <1>8, <1>7 DEF RequestRow
<1>10. request' = [request EXCEPT ![r] = q]
  BY <1>1, <1>2, <1>4, <1>8, <1>6 DEF FindGifts
<1>11. /\ IsTable(request', Request, RequestRow)
      /\ DOMAIN request' = DOMAIN request
      /\ Only(r) /\ request'[r] = q
  BY <1>1, <1>9, <1>10, MoveShape
<1>12. TypeOK'
  BY <1>11 DEF IInv, TypeOK, FindGifts, historyVars
<1>13. Further /\ NoNewsBut({})
  BY DEF Further, NoNewsBut, FindGifts, historyVars
<1>14. AlertsReachDonors' /\ HookTellsDonorsOnce' /\ NewsByHook'
  BY <1>13, QuietStep DEF FindGifts, historyVars
<1>15. p.entityId \in Campaign
  BY <1>1, <1>2, <1>3 DEF Right, AlertRight
<1>16. UNCHANGED <<donation, post, notification>>
  BY DEF FindGifts
<1>17. VerdictRight(q)' /\ HookRight(q)'
  BY <1>3, <1>9 DEF VerdictRight, Verdict, HookRight, Hook
<1>18. AlertRight(q)'
  BY <1>5, <1>9, <1>7, <1>15, <1>16 DEF AlertRight
<1>19. Right(request[r])'
  BY <1>11, <1>17, <1>18 DEF Right
<1>20. DOMAIN request' \subseteq Request /\ request'[r].pc \notin Hook
  BY <1>9, <1>11 DEF IsTable, Hook
<1>21. OneHook' /\ (\A x \in DOMAIN request : Right(request[x]))'
  BY <1>13, <1>11, <1>19, <1>20, MoveRight
<1>22. VerdictsAreTold'
  BY <1>2, <1>3, <1>11, <1>13, ToldStays DEF FindGifts, historyVars
<1>. QED
  BY <1>12, <1>14, <1>21, <1>22 DEF IInv, FindGifts

\* The alerts for finitely many gifts are a bag, with one for each donor.
LEMMA AlertsAreABag ==
    ASSUME TypeOK, IsFiniteSet(DOMAIN donation), NEW c \in Campaign,
           NEW gifts \in SUBSET DOMAIN donation
    PROVE  /\ IsABag(ScamNotices(c, gifts))
           /\ DOMAIN ScamNotices(c, gifts) =
                  {ScamNotice(c, donation[d].userId) : d \in gifts}
           /\ DOMAIN ScamNotices(c, gifts) \subseteq Notice
           /\ \A n \in DOMAIN ScamNotices(c, gifts) : n.type # "CAMPAIGN_UPDATE"
<1>1. \A d \in gifts : donation[d].userId \in User
  BY DEF TypeOK, IsTable, DonationRow
<1>2. ASSUME NEW e \in gifts
      PROVE  Cardinality({d \in gifts :
                 donation[d].userId = ScamNotice(c, donation[e].userId).receiverId})
                 \in {m \in Nat : m > 0}
  <2>1. PICK G : G = {d \in gifts :
                 donation[d].userId = ScamNotice(c, donation[e].userId).receiverId}
    OBVIOUS
  <2>2. e \in G /\ G \subseteq DOMAIN donation
    BY <2>1 DEF ScamNotice
  <2>3. IsFiniteSet(G)
    BY <2>2, FS_Subset
  <2>4. Cardinality(G) \in Nat /\ Cardinality(G) # 0
    BY <2>2, <2>3, FS_CardinalityType, FS_EmptySet
  <2>. QED
    BY <2>1, <2>4
<1>3. DOMAIN ScamNotices(c, gifts) = {ScamNotice(c, donation[d].userId) : d \in gifts}
  BY DEF ScamNotices
<1>4. \A n \in DOMAIN ScamNotices(c, gifts) :
          ScamNotices(c, gifts)[n] \in {m \in Nat : m > 0}
  BY <1>2 DEF ScamNotices
<1>5. IsABag(ScamNotices(c, gifts))
  BY <1>4 DEF IsABag, ScamNotices
<1>. QED
  BY <1>1, <1>3, <1>5 DEF ScamNotice, Notice, Entity

\* Everybody the alert is due to has a gift among those that were read.
LEMMA AlertIInv ==
    ASSUME IInv, NEW r \in Request, Alert(r)
    PROVE  IInv'
<1>1. r \in DOMAIN request /\ request[r].pc = "alert"
  BY DEF Alert, At
<1>2. PICK p : p = request[r]
  OBVIOUS
<1>3. p \in RequestRow /\ Right(p) /\ p.status = None
  BY <1>1, <1>2, NoVerdictToTell DEF IInv, TypeOK, IsTable, Verdict
<1>4. /\ p.entityId \in Campaign /\ p.donations \in SUBSET DOMAIN donation
      /\ p.due \subseteq {donation[d].userId : d \in p.donations}
      /\ p.due \subseteq User
  BY <1>1, <1>2, <1>3 DEF Right, AlertRight, RequestRow
<1>5. PICK B : B = ScamNotices(p.entityId, p.donations)
  OBVIOUS
<1>6. /\ IsABag(B)
      /\ DOMAIN B = {ScamNotice(p.entityId, donation[d].userId) : d \in p.donations}
      /\ DOMAIN B \subseteq Notice /\ \A n \in DOMAIN B : n.type # "CAMPAIGN_UPDATE"
  BY <1>4, <1>5, AlertsAreABag DEF IInv
<1>7. notification' = notification (+) B
  BY <1>2, <1>5 DEF Alert
<1>8. /\ IsABag(notification') /\ DOMAIN notification' \subseteq Notice
      /\ DOMAIN notification' = DOMAIN notification \cup DOMAIN B
      /\ NoNewsBut({})
  BY <1>6, <1>7, OthersAdd
<1>9. Further
  BY <1>8 DEF Further, Alert
<1>10. /\ IsTable(request', Request, RequestRow)
       /\ r \in Request /\ Only(r) /\ r \notin DOMAIN request'
       /\ OneHook' /\ (\A x \in DOMAIN request : Right(request[x]))'
  BY <1>1, <1>8, <1>9, EndRight DEF Alert
<1>11. alerted' = alerted \cup {[entityId |-> p.entityId, users |-> p.due]}
  BY <1>2 DEF Alert
<1>12. [entityId |-> p.entityId, users |-> p.due] \in Due
  BY <1>4 DEF Due, Entity
<1>13. TypeOK'
  BY <1>8, <1>10, <1>11, <1>12 DEF IInv, TypeOK, Alert
<1>14. AlertsReachDonors'
  <2>1. \A u \in p.due : ScamNotice(p.entityId, u) \in DOMAIN notification'
    BY <1>4, <1>6, <1>8
  <2>2. \A a \in alerted : \A u \in a.users :
            ScamNotice(a.entityId, u) \in DOMAIN notification'
    BY <1>9 DEF IInv, AlertsReachDonors, IsTold, Further
  <2>. QED
    BY <1>11, <2>1, <2>2 DEF AlertsReachDonors, IsTold
<1>15. HookTellsDonorsOnce'
  BY <1>8, <1>9 DEF IInv, HookTellsDonorsOnce, IsTold, Further, NoNewsBut, Alert
<1>16. NewsByHook'
  BY <1>8 DEF IInv, NewsByHook, IsTold, NoNewsBut, Alert
<1>17. VerdictsAreTold'
  BY <1>2, <1>3, <1>9, <1>10, ToldStays DEF Alert
<1>. QED
  BY <1>10, <1>13, <1>14, <1>15, <1>16, <1>17 DEF IInv, Alert

-----------------------------------------------------------------------------
(* Hooks                                                                   *)

\* What is right of a request that handles a hook.
LEMMA HandlesRight ==
    ASSUME IInv, NEW r \in DOMAIN request, request[r].pc \in Hook
    PROVE  /\ request[r].entityId \in DOMAIN post /\ request[r].entityId \in Post
           /\ ~ post[request[r].entityId].hook
           /\ \A x \in DOMAIN request \ {r} :
                  request[x].pc \in Hook => request[x].entityId # request[r].entityId
<1>1. request[r].entityId \in DOMAIN post /\ ~ post[request[r].entityId].hook
  BY DEF IInv, Right, HookRight, Hook
<1>2. request[r].entityId \in Post
  BY <1>1 DEF IInv, TypeOK, IsTable
<1>. QED
  BY <1>1, <1>2 DEF IInv, OneHook

\* A hook is called once for its update, so no other request handles it, and
\* nobody has been told.
LEMMA CallHookIInv ==
    ASSUME IInv, NEW p \in Post, CallHook(p)
    PROVE  IInv'
<1>1. p \in DOMAIN post /\ post[p].hook
  BY DEF CallHook
<1>2. PICK row : row = [post[p] EXCEPT !.hook = FALSE]
  OBVIOUS
<1>3. /\ row \in PostRow /\ row.campaignId = post[p].campaignId /\ row.hook = FALSE
  BY <1>1, <1>2 DEF IInv, TypeOK, IsTable, PostRow
<1>4. post' = [post EXCEPT ![p] = row]
  BY <1>1, <1>2 DEF CallHook
<1>5. IsTable(post', Post, PostRow)
  BY <1>1, <1>3, <1>4 DEF IInv, TypeOK, IsTable
<1>6. /\ DOMAIN post' = DOMAIN post /\ post'[p] = row
      /\ \A q \in DOMAIN post \ {p} : post'[q] = post[q]
  BY <1>1, <1>4
<1>7. Further /\ NoNewsBut({})
  BY <1>3, <1>6 DEF Further, NoNewsBut, CallHook, historyVars
<1>8. AlertsReachDonors' /\ HookTellsDonorsOnce' /\ NewsByHook'
  BY <1>7, QuietStep DEF CallHook, historyVars
<1>9. PICK due : due = Donors(post[p].campaignId)
  OBVIOUS
<1>10. due \subseteq User
  BY <1>9, DonorsAreUsers
<1>11. Start("hook", p, None, due)
  BY <1>9 DEF CallHook
<1>12. PICK k \in Request \ DOMAIN request :
          /\ IsTable(request', Request, RequestRow)
          /\ DOMAIN request' = DOMAIN request \cup {k}
          /\ Only(k)
          /\ request'[k] = [pc |-> "hook", entityId |-> p, status |-> None,
                            donations |-> {}, users |-> {}, due |-> due]
  BY <1>10, <1>11, StartShape DEF Entity
<1>13. TypeOK'
  BY <1>5, <1>12 DEF IInv, TypeOK, CallHook, historyVars
<1>14. PICK c : c = post[p].campaignId
  OBVIOUS
<1>15. Donors(c) \subseteq Donors(c)'
  BY <1>7, DonorsStay
<1>16. due \subseteq Donors(post[p].campaignId)'
  BY <1>3, <1>6, <1>9, <1>14, <1>15
<1>17. \A u \in User : ~ IsTold(UpdateNotice(p, u))'
  BY <1>1 DEF IInv, NewsByHook, IsTold, CallHook
<1>18. Right(request[k])'
  BY <1>3, <1>6, <1>1, <1>12, <1>16, <1>17
     DEF Right, VerdictRight, Verdict, AlertRight, HookRight, Hook
<1>19. \A x \in DOMAIN request \ {k} :
           request[x].pc \in Hook => request[x].entityId # request'[k].entityId
  BY <1>1, <1>12, HandlesRight
<1>20. k \in Request /\ Only(k) /\ DOMAIN request' \subseteq Request
  BY <1>12 DEF IsTable
<1>21. OneHook' /\ (\A x \in DOMAIN request : Right(request[x]))'
  BY <1>7, <1>18, <1>19, <1>20, MoveRight
<1>22. VerdictsAreTold'
  BY <1>7, <1>12, ToldStays DEF CallHook, historyVars
<1>. QED
  BY <1>8, <1>13, <1>21, <1>22 DEF IInv, CallHook

LEMMA FindReceiversIInv ==
    ASSUME IInv, NEW r \in Request, FindReceivers(r)
    PROVE  IInv'
<1>1. r \in DOMAIN request /\ request[r].pc = "hook"
  BY DEF FindReceivers, At
<1>2. PICK p : p = request[r]
  OBVIOUS
<1>3. p \in RequestRow /\ Right(p) /\ p.status = None
  BY <1>1, <1>2, NoVerdictToTell DEF IInv, TypeOK, IsTable, Verdict
<1>4. PICK users : users = Donors(post[p.entityId].campaignId)
  OBVIOUS
<1>5. /\ users \subseteq User /\ p.due \subseteq users
      /\ \A u \in User : ~ IsTold(UpdateNotice(p.entityId, u))
  BY <1>1, <1>2, <1>3, <1>4, DonorsAreUsers DEF Right, HookRight
<1>6. PICK q : q = [p EXCEPT !.pc = "loop", !.users = users]
  OBVIOUS
<1>7. /\ q \in RequestRow /\ q.pc = "loop" /\ q.users = users
      /\ q.entityId = p.entityId /\ q.status = p.status
      /\ q.donations = p.donations /\ q.due = p.due
  BY <1>3, <1>5, <1>6 DEF RequestRow
<1>8. request' = [request EXCEPT ![r] = q]
  BY <1>1, <1>2, <1>4, <1>6 DEF FindReceivers
<1>9. /\ IsTable(request', Request, RequestRow)
      /\ DOMAIN request' = DOMAIN request
      /\ Only(r) /\ request'[r] = q
  BY <1>1, <1>7, <1>8, MoveShape
<1>10. TypeOK'
  BY <1>9 DEF IInv, TypeOK, FindReceivers, historyVars
<1>11. Further /\ NoNewsBut({})
  BY DEF Further, NoNewsBut, FindReceivers, historyVars
<1>12. AlertsReachDonors' /\ HookTellsDonorsOnce' /\ NewsByHook'
  BY <1>11, QuietStep DEF FindReceivers, historyVars
<1>13. UNCHANGED <<donation, post, notification, missed>>
  BY DEF FindReceivers, historyVars
<1>14. VerdictRight(q)' /\ AlertRight(q)'
  BY <1>3, <1>7, <1>13 DEF Right, VerdictRight, Verdict, AlertRight
<1>15. p.entityId \in DOMAIN post /\ ~ post[p.entityId].hook
  BY <1>1, <1>2, HandlesRight DEF Hook
<1>16. HookRight(q)'
  BY <1>5, <1>7, <1>13, <1>15 DEF HookRight, Hook, IsTold
<1>17. Right(request[r])'
  BY <1>9, <1>14, <1>16 DEF Right
<1>18. DOMAIN request' \subseteq Request
  BY <1>9 DEF IsTable
<1>19. \A x \in DOMAIN request \ {r} :
           request[x].pc \in Hook => request[x].entityId # request'[r].entityId
  BY <1>1, <1>2, <1>7, <1>9, HandlesRight DEF Hook
<1>20. OneHook' /\ (\A x \in DOMAIN request : Right(request[x]))'
  BY <1>9, <1>11, <1>17, <1>18, <1>19, MoveRight
<1>21. VerdictsAreTold'
  BY <1>2, <1>3, <1>9, <1>11, ToldStays DEF FindReceivers, historyVars
<1>. QED
  BY <1>10, <1>12, <1>20, <1>21 DEF IInv, FindReceivers

\* A receiver is done with: the request of the loop, once its notice is
\* created or has failed.
LEMMA NextReceiverRight ==
    ASSUME IInv, NEW r \in Request, At(r, "loop"), NEW u \in User,
           NextReceiver(r, u), Further, NoNewsBut({request[r].entityId}),
           UNCHANGED <<donation, post>>,
           \A v \in User \ {u} :
               UpdateNotice(request[r].entityId, v) \in DOMAIN notification' =>
                   UpdateNotice(request[r].entityId, v) \in DOMAIN notification,
           \/ UpdateNotice(request[r].entityId, u) \in DOMAIN notification'
           \/ <<request[r].entityId, u>> \in missed'
    PROVE  /\ IsTable(request', Request, RequestRow)
           /\ OneHook' /\ (\A x \in DOMAIN request : Right(request[x]))'
           /\ failed' = failed /\ told' = told /\ status' = status => VerdictsAreTold'
<1>1. r \in DOMAIN request /\ request[r].pc = "loop"
  BY DEF At
<1>2. PICK p : p = request[r]
  OBVIOUS
<1>3. /\ p \in RequestRow /\ Right(p) /\ p.status = None
      /\ p.users \subseteq User /\ p.due \subseteq User /\ p.pc = "loop"
  BY <1>1, <1>2, NoVerdictToTell DEF IInv, TypeOK, IsTable, Verdict, RequestRow
<1>4. PICK q : q = [p EXCEPT !.users = p.users \ {u}]
  OBVIOUS
<1>5. /\ q \in RequestRow /\ q.pc = "loop" /\ q.users = p.users \ {u}
      /\ q.entityId = p.entityId /\ q.status = p.status
      /\ q.donations = p.donations /\ q.due = p.due
  BY <1>3, <1>4 DEF RequestRow
<1>6. request' = [request EXCEPT ![r] = q]
  BY <1>1, <1>2, <1>4 DEF NextReceiver
<1>7. /\ IsTable(request', Request, RequestRow)
      /\ DOMAIN request' = DOMAIN request
      /\ Only(r) /\ request'[r] = q
  BY <1>1, <1>5, <1>6, MoveShape
<1>8. PICK e : e = p.entityId
  OBVIOUS
<1>9. /\ e \in DOMAIN post /\ ~ post[e].hook
      /\ \A x \in DOMAIN request \ {r} :
             request[x].pc \in Hook => request[x].entityId # e
  BY <1>1, <1>2, <1>8, HandlesRight DEF Hook
<1>10. /\ \A v \in p.users : ~ IsTold(UpdateNotice(e, v))
       /\ \A v \in p.due : \/ v \in p.users \/ IsTold(UpdateNotice(e, v))
                           \/ <<e, v>> \in missed
  BY <1>3, <1>8 DEF Right, HookRight
<1>11. VerdictRight(q)' /\ AlertRight(q)'
  BY <1>3, <1>5 DEF Right, VerdictRight, Verdict, AlertRight
<1>12. /\ \A v \in User : v # u /\ UpdateNotice(e, v) \in DOMAIN notification' =>
               UpdateNotice(e, v) \in DOMAIN notification
       /\ UpdateNotice(e, u) \in DOMAIN notification' \/ <<e, u>> \in missed'
       /\ NoNewsBut({e})
  BY <1>2, <1>8
<1>13. \A v \in q.users : ~ IsTold(UpdateNotice(e, v))'
  BY <1>3, <1>5, <1>10, <1>12 DEF IsTold
<1>14. \A v \in q.due : \/ v \in q.users \/ IsTold(UpdateNotice(e, v))'
                        \/ <<e, v>> \in missed'
  BY <1>3, <1>5, <1>10, <1>12 DEF IsTold, Further
<1>15. HookRight(q)'
  BY <1>5, <1>8, <1>9, <1>13, <1>14 DEF HookRight, Hook
<1>16. Right(request[r])'
  BY <1>7, <1>11, <1>15 DEF Right
<1>17. DOMAIN request' \subseteq Request
  BY <1>7 DEF IsTable
<1>18. request'[r].entityId = e
  BY <1>5, <1>7, <1>8
<1>19. OneHook' /\ (\A x \in DOMAIN request : Right(request[x]))'
  BY <1>7, <1>9, <1>12, <1>16, <1>17, <1>18, MoveRight
<1>20. ASSUME failed' = failed, told' = told, status' = status PROVE VerdictsAreTold'
  BY <1>2, <1>3, <1>7, <1>20, ToldStays
<1>. QED
  BY <1>7, <1>19, <1>20

LEMMA TellReceiverIInv ==
    ASSUME IInv, NEW r \in Request, NEW u \in User, TellReceiver(r, u)
    PROVE  IInv'
<1>1. r \in DOMAIN request /\ request[r].pc = "loop" /\ u \in request[r].users
  BY DEF TellReceiver, At
<1>2. PICK p : p = request[r].entityId
  OBVIOUS
<1>3. p \in Post /\ p \in DOMAIN post /\ ~ post[p].hook
  BY <1>1, <1>2, HandlesRight DEF Hook
<1>4. UpdateNotice(p, u) \notin DOMAIN notification
  BY <1>1, <1>2 DEF IInv, Right, HookRight, IsTold
<1>5. notification' = notification (+) SetToBag({UpdateNotice(p, u)})
  BY <1>2 DEF TellReceiver
<1>6. /\ IsABag(notification') /\ DOMAIN notification' \subseteq Notice
      /\ DOMAIN notification' = DOMAIN notification \cup {UpdateNotice(p, u)}
      /\ NoNewsBut({p})
      /\ \A v \in User : v # u /\ UpdateNotice(p, v) \in DOMAIN notification' =>
             /\ UpdateNotice(p, v) \in DOMAIN notification
             /\ notification'[UpdateNotice(p, v)] = notification[UpdateNotice(p, v)]
      /\ notification'[UpdateNotice(p, u)] = 1
  BY <1>3, <1>4, <1>5, NewsAdd
<1>7. Further
  BY <1>6 DEF Further, TellReceiver, historyVars
<1>8. At(r, "loop") /\ NextReceiver(r, u) /\ UNCHANGED <<donation, post>>
  BY DEF TellReceiver
<1>9. UpdateNotice(p, u) \in DOMAIN notification'
  BY <1>6
<1>10. /\ IsTable(request', Request, RequestRow)
       /\ OneHook' /\ (\A x \in DOMAIN request : Right(request[x]))'
       /\ failed' = failed /\ told' = told /\ status' = status => VerdictsAreTold'
  BY <1>2, <1>6, <1>7, <1>8, <1>9, NextReceiverRight
<1>11. TypeOK'
  BY <1>6, <1>10 DEF IInv, TypeOK, TellReceiver, historyVars
<1>12. VerdictsAreTold'
  BY <1>10 DEF TellReceiver, historyVars
<1>13. AlertsReachDonors'
  BY <1>7 DEF IInv, AlertsReachDonors, IsTold, Further, TellReceiver, historyVars
<1>14. HookTellsDonorsOnce'
  <2>1. ASSUME NEW q \in Post, NEW v \in User,
               UpdateNotice(q, v) \in DOMAIN notification'
        PROVE  notification'[UpdateNotice(q, v)] = 1
    <3>1. CASE q # p
      BY <2>1, <3>1, <1>6 DEF NoNewsBut, IInv, HookTellsDonorsOnce, IsTold
    <3>2. CASE q = p /\ v # u
      BY <2>1, <3>2, <1>6 DEF IInv, HookTellsDonorsOnce, IsTold
    <3>3. CASE q = p /\ v = u
      BY <3>3, <1>6
    <3>. QED
      BY <3>1, <3>2, <3>3
  <2>2. \A h \in heard' : \A v \in h.users :
            \/ UpdateNotice(h.entityId, v) \in DOMAIN notification'
            \/ <<h.entityId, v>> \in missed'
    BY <1>7 DEF IInv, HookTellsDonorsOnce, IsTold, Further, TellReceiver, historyVars
  <2>. QED
    BY <2>1, <2>2 DEF HookTellsDonorsOnce, IsTold
<1>15. NewsByHook'
  BY <1>3, <1>6, <1>8 DEF IInv, NewsByHook, IsTold, NoNewsBut
<1>. QED
  BY <1>10, <1>11, <1>12, <1>13, <1>14, <1>15 DEF IInv, TellReceiver

LEMMA TellReceiverFailsIInv ==
    ASSUME IInv, NEW r \in Request, NEW u \in User, TellReceiverFails(r, u)
    PROVE  IInv'
<1>1. r \in DOMAIN request /\ request[r].pc = "loop"
  BY DEF TellReceiverFails, At
<1>2. PICK p : p = request[r].entityId
  OBVIOUS
<1>3. p \in Post
  BY <1>1, <1>2, HandlesRight DEF Hook
<1>4. missed' = missed \cup {<<p, u>>} /\ UNCHANGED notification
  BY <1>2 DEF TellReceiverFails
<1>5. Further /\ NoNewsBut({}) /\ NoNewsBut({p})
  BY <1>4 DEF Further, NoNewsBut, TellReceiverFails
<1>6. At(r, "loop") /\ NextReceiver(r, u) /\ UNCHANGED <<donation, post>>
  BY DEF TellReceiverFails
<1>7. /\ IsTable(request', Request, RequestRow)
      /\ OneHook' /\ (\A x \in DOMAIN request : Right(request[x]))'
      /\ failed' = failed /\ told' = told /\ status' = status => VerdictsAreTold'
  BY <1>2, <1>4, <1>5, <1>6, NextReceiverRight
<1>8. missed' \subseteq Post \X User
  BY <1>3, <1>4 DEF IInv, TypeOK
<1>9. TypeOK'
  BY <1>7, <1>8 DEF IInv, TypeOK, TellReceiverFails
<1>10. VerdictsAreTold'
  BY <1>7 DEF TellReceiverFails
<1>11. AlertsReachDonors' /\ HookTellsDonorsOnce' /\ NewsByHook'
  BY <1>5, QuietStep DEF TellReceiverFails
<1>. QED
  BY <1>7, <1>9, <1>10, <1>11 DEF IInv, TellReceiverFails

\* When nobody is left, everybody the hook was due to was told or missed.
LEMMA FinishLoopIInv ==
    ASSUME IInv, NEW r \in Request, FinishLoop(r)
    PROVE  IInv'
<1>1. r \in DOMAIN request /\ request[r].pc = "loop" /\ request[r].users = {}
  BY DEF FinishLoop, At
<1>2. PICK p : p = request[r]
  OBVIOUS
<1>3. /\ p \in RequestRow /\ Right(p) /\ p.status = None
      /\ p.pc = "loop" /\ p.users = {}
  BY <1>1, <1>2, NoVerdictToTell DEF IInv, TypeOK, IsTable, Verdict
<1>4. \A u \in p.due : IsTold(UpdateNotice(p.entityId, u)) \/ <<p.entityId, u>> \in missed
  BY <1>3 DEF Right, HookRight
<1>5. [entityId |-> p.entityId, users |-> p.due] \in Due
  BY <1>3 DEF RequestRow, Due
<1>6. heard' = heard \cup {[entityId |-> p.entityId, users |-> p.due]}
  BY <1>2 DEF FinishLoop
<1>7. Further /\ NoNewsBut({})
  BY DEF Further, NoNewsBut, FinishLoop
<1>8. /\ IsTable(request', Request, RequestRow)
      /\ r \in Request /\ Only(r) /\ r \notin DOMAIN request'
      /\ OneHook' /\ (\A x \in DOMAIN request : Right(request[x]))'
  BY <1>1, <1>7, EndRight DEF FinishLoop
<1>9. TypeOK'
  BY <1>5, <1>6, <1>8 DEF IInv, TypeOK, FinishLoop
<1>10. AlertsReachDonors' /\ NewsByHook'
  BY DEF IInv, AlertsReachDonors, NewsByHook, IsTold, FinishLoop
<1>11. HookTellsDonorsOnce'
  BY <1>4, <1>6 DEF IInv, HookTellsDonorsOnce, IsTold, FinishLoop
<1>12. VerdictsAreTold'
  BY <1>2, <1>3, <1>7, <1>8, ToldStays DEF FinishLoop
<1>. QED
  BY <1>8, <1>9, <1>10, <1>11, <1>12 DEF IInv, FinishLoop

LEMMA LoopDiesIInv ==
    ASSUME IInv, NEW r \in Request, LoopDies(r)
    PROVE  IInv'
<1>1. r \in DOMAIN request /\ request[r].pc = "loop"
  BY DEF LoopDies, At
<1>2. request[r].status = None
  BY <1>1, NoVerdictToTell DEF Verdict
<1>3. Further /\ NoNewsBut({})
  BY DEF Further, NoNewsBut, LoopDies, historyVars
<1>4. /\ IsTable(request', Request, RequestRow)
      /\ r \in Request /\ Only(r) /\ r \notin DOMAIN request'
      /\ OneHook' /\ (\A x \in DOMAIN request : Right(request[x]))'
  BY <1>1, <1>3, EndRight DEF LoopDies
<1>5. TypeOK'
  BY <1>4 DEF IInv, TypeOK, LoopDies, historyVars
<1>6. AlertsReachDonors' /\ HookTellsDonorsOnce' /\ NewsByHook'
  BY <1>3, QuietStep DEF LoopDies, historyVars
<1>7. VerdictsAreTold'
  BY <1>2, <1>3, <1>4, ToldStays DEF LoopDies, historyVars
<1>. QED
  BY <1>4, <1>5, <1>6, <1>7 DEF IInv, LoopDies

-----------------------------------------------------------------------------
(* Results                                                                 *)

LEMMA InitIInv == Init => IInv
<1>. SUFFICES ASSUME Init PROVE IInv
  OBVIOUS
<1>1. IsTable(EmptyTable, Donation, DonationRow) /\ DOMAIN EmptyTable = {}
  BY DEF IsTable, EmptyTable
<1>2. IsTable(EmptyTable, Post, PostRow) /\ IsTable(EmptyTable, Request, RequestRow)
  BY DEF IsTable, EmptyTable
<1>3. IsABag(EmptyBag) /\ DOMAIN EmptyBag = {}
  BY DEF IsABag, EmptyBag, SetToBag
<1>4. TypeOK
  BY <1>1, <1>2, <1>3, NoticesAssumption DEF Init, TypeOK, Status
<1>5. IsFiniteSet(DOMAIN donation)
  BY <1>1, FS_EmptySet DEF Init
<1>6. /\ VerdictsAreTold /\ AlertsReachDonors /\ HookTellsDonorsOnce
      /\ OneHook /\ NewsByHook
      /\ \A r \in DOMAIN request : Right(request[r])
  BY <1>1, <1>3
     DEF Init, VerdictsAreTold, AlertsReachDonors, HookTellsDonorsOnce, OneHook,
         NewsByHook, IsTold
<1>. QED
  BY <1>4, <1>5, <1>6 DEF IInv

LEMMA StepIInv == IInv /\ [Next]_vars => IInv'
<1>. SUFFICES ASSUME IInv, [Next]_vars PROVE IInv'
  OBVIOUS
<1>1. ASSUME NEW u \in User, NEW c \in Campaign, Donate(u, c) \/ TakeOver(u, c)
      PROVE  IInv'
  BY <1>1, DonateIInv, TakeOverIInv
<1>2. ASSUME NEW p \in Post, NEW c \in Campaign, PostUpdate(p, c) PROVE IInv'
  BY <1>2, PostUpdateIInv
<1>3. ASSUME NEW c \in Campaign, NEW s \in Status \cup {None}, AdminUpdateCampaign(c, s)
      PROVE  IInv'
  BY <1>3, AdminUpdateCampaignIInv
<1>4. ASSUME NEW c \in Campaign, AskToAlert(c) PROVE IInv'
  BY <1>4, AskToAlertIInv
<1>5. ASSUME NEW p \in Post, CallHook(p) PROVE IInv'
  BY <1>5, CallHookIInv
<1>6. ASSUME NEW r \in Request, Continue(r) PROVE IInv'
  <2>1. CASE FindOwner(r) \/ TellOwner(r) \/ FindInterested(r) \/ TellInterested(r)
    BY <2>1, FindOwnerIInv, TellOwnerIInv, FindInterestedIInv, TellInterestedIInv
  <2>2. CASE CheckAlert(r) \/ FindGifts(r) \/ Alert(r)
    BY <2>2, CheckAlertIInv, FindGiftsIInv, AlertIInv
  <2>3. CASE FindReceivers(r) \/ FinishLoop(r)
    BY <2>3, FindReceiversIInv, FinishLoopIInv
  <2>4. ASSUME NEW u \in User, TellReceiver(r, u) \/ TellReceiverFails(r, u)
        PROVE  IInv'
    BY <2>4, TellReceiverIInv, TellReceiverFailsIInv
  <2>5. CASE RequestFails(r) \/ LoopDies(r)
    BY <2>5, RequestFailsIInv, LoopDiesIInv
  <2>. QED
    BY <1>6, <2>1, <2>2, <2>3, <2>4, <2>5 DEF Continue
<1>7. CASE UNCHANGED vars
  <2>1. Further /\ NoNewsBut({}) /\ UNCHANGED request
    BY <1>7 DEF Further, NoNewsBut, vars
  <2>2. OneHook' /\ (\A x \in DOMAIN request : Right(request[x]))'
    BY <2>1, StillRight
  <2>3. AlertsReachDonors' /\ HookTellsDonorsOnce' /\ NewsByHook'
    BY <1>7, <2>1, QuietStep DEF vars
  <2>4. TypeOK' /\ VerdictsAreTold'
    BY <1>7 DEF IInv, TypeOK, VerdictsAreTold, IsTelling, IsTold, vars
  <2>. QED
    BY <1>7, <2>2, <2>3, <2>4 DEF IInv, vars
<1>8. ASSUME NEW u \in User, ChangePreference(u) PROVE IInv'
  BY <1>8, ChangePreferenceIInv
<1>. QED
  BY <1>1, <1>2, <1>3, <1>4, <1>5, <1>6, <1>7, <1>8 DEF Next

LEMMA Invariance == Spec => []IInv
BY InitIInv, StepIInv, PTL DEF Spec

\* Campaigns, updates, notices and requests stay what they are declared to be.
THEOREM TypeCorrect == Spec => []TypeOK
<1>1. IInv => TypeOK
  BY DEF IInv
<1>. QED
  BY <1>1, Invariance, PTL

\* adminUpdateCampaign hides its errors; still, whoever donates, takes over or
\* judges in between, a verdict is told of, being told of, or failed, and a
\* publication told of has reached who preferred the category all along.
THEOREM VerdictsDoReach == Spec => []VerdictsAreTold
<1>1. IInv => VerdictsAreTold
  BY DEF IInv
<1>. QED
  BY <1>1, Invariance, PTL

\* An alert that was answered has reached every donor there was when its
\* request read the gifts, whichever request made it.
THEOREM AlertsDoReach == Spec => []AlertsReachDonors
<1>1. IInv => AlertsReachDonors
  BY DEF IInv
<1>. QED
  BY <1>1, Invariance, PTL

\* The hook of an update tells its donors once each, and misses only those
\* whose own notice failed.
THEOREM HooksTellOnce == Spec => []HookTellsDonorsOnce
<1>1. IInv => HookTellsDonorsOnce
  BY DEF IInv
<1>. QED
  BY <1>1, Invariance, PTL
=============================================================================
