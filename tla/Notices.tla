------------------------------- MODULE Notices -------------------------------
(***************************************************************************)
(* Who is told what: the admin's verdict on a campaign and its notices,    *)
(* scam alerts, and the hook that tells donors of a campaign's update      *)
(* (src/notifications, CampaignsService.adminUpdateCampaign).              *)
(*                                                                         *)
(* Verdicts, alerts and hooks are requests of several awaits; what they    *)
(* have read may be old when they write.  adminUpdateCampaign swallows     *)
(* every error (catch (e) {}), the hook those of each receiver.  Supabase  *)
(* is external: it calls the hook once for a new update, or never.         *)
(***************************************************************************)
EXTENDS Tables, Naturals, FiniteSets, Bags

CONSTANTS
    User,
    Campaign,
    Donation,       \* ids of donations
    Post,           \* ids of campaign updates
    Request,        \* requests being handled; a request that ends frees its id
    MaxAsked,       \* bound on verdicts and alerts
    None            \* undefined

ASSUME NoticesAssumption ==
    /\ None \notin {"PENDING", "PUBLISHED", "SUSPENDED"}
    /\ MaxAsked \in Nat

VARIABLES
    interested,     \* users who prefer the category of the campaigns
    owner,          \* campaigns.userId
    status,         \* campaigns.status
    donation,       \* table campaign_donations
    post,           \* table campaign_updates, with its hook
    notification,   \* table notifications: a bag, since ids do not matter
    request,
    asked,          \* verdicts and alerts asked for so far
    failed,         \* history: verdicts whose request failed
    told,           \* history: publications told of, and to whom due
    alerted,        \* history: alerts that were answered, and to whom due
    heard,          \* history: hooks that ended, and to whom due
    missed          \* history: receivers of hooks whose notice failed

historyVars == <<failed, told, alerted, heard, missed>>
vars == <<interested, owner, status, donation, post, notification, request,
          asked, failed, told, alerted, heard, missed>>

-----------------------------------------------------------------------------
Status == {"PENDING", "PUBLISHED", "SUSPENDED"}
Entity == Campaign \cup Post

\* The code puts its title into the description and its description into the
\* title; either way it names the status, which is all that is kept here.
Notice ==
    [type: {"CAMPAIGN_STATUS_CHANGED", "NEW_MATCHED_CAMPAIGN", "SCAM",
            "CAMPAIGN_UPDATE"},
     entityId: Entity, receiverId: User, status: Status \cup {None}]

StatusNotice(c, u, s) ==
    [type |-> "CAMPAIGN_STATUS_CHANGED", entityId |-> c, receiverId |-> u,
     status |-> s]
MatchNotice(c, u) ==
    [type |-> "NEW_MATCHED_CAMPAIGN", entityId |-> c, receiverId |-> u,
     status |-> None]
ScamNotice(c, u) ==
    [type |-> "SCAM", entityId |-> c, receiverId |-> u, status |-> None]
UpdateNotice(p, u) ==
    [type |-> "CAMPAIGN_UPDATE", entityId |-> p, receiverId |-> u,
     status |-> None]

DonationRow == [userId: User, campaignId: Campaign]

\* hook: whether Supabase still has to call the hook.
PostRow == [campaignId: Campaign, hook: BOOLEAN]

RequestRow ==
    [pc: {"find", "owner", "match", "tell", "check", "donors", "alert", "hook",
          "loop"},
     entityId: Entity,
     status: Status \cup {None},
     donations: SUBSET Donation,   \* rows read for an alert
     users: SUBSET User,           \* receivers read and not told yet
     due: SUBSET User]             \* history: who must be told by it

Due == [entityId: Entity, users: SUBSET User]

TypeOK ==
    /\ interested \subseteq User
    /\ owner \in [Campaign -> User]
    /\ status \in [Campaign -> Status]
    /\ IsTable(donation, Donation, DonationRow)
    /\ IsTable(post, Post, PostRow)
    /\ IsABag(notification) /\ DOMAIN notification \subseteq Notice
    /\ IsTable(request, Request, RequestRow)
    /\ asked \in 0..MaxAsked
    /\ failed \subseteq Campaign \X Status
    /\ told \subseteq Due
    /\ alerted \subseteq Due
    /\ heard \subseteq Due
    /\ missed \subseteq Post \X User

Init ==
    /\ interested \in SUBSET User
    /\ owner \in [Campaign -> User]
    /\ status = [c \in Campaign |-> "PENDING"]
    /\ donation = EmptyTable
    /\ post = EmptyTable
    /\ notification = EmptyBag
    /\ request = EmptyTable
    /\ asked = 0
    /\ failed = {}
    /\ told = {}
    /\ alerted = {}
    /\ heard = {}
    /\ missed = {}

-----------------------------------------------------------------------------
(* Requests                                                                *)

GiftsTo(c) == {d \in DOMAIN donation : donation[d].campaignId = c}
Donors(c) == {donation[d].userId : d \in GiftsTo(c)}

At(r, pc) == r \in DOMAIN request /\ request[r].pc = pc

Start(pc, x, s, due) ==
    /\ HasRoom(Request, request)
    /\ request' = Put(request, NewKey(Request, request),
          [pc |-> pc, entityId |-> x, status |-> s, donations |-> {},
           users |-> {}, due |-> due])

AskOnceMore == asked < MaxAsked /\ asked' = asked + 1

End(r) == request' = Drop(request, r)

\* An await throws, or the process dies; nobody is told.
RequestFails(r) ==
    /\ r \in DOMAIN request
    /\ ~ At(r, "loop")
    /\ End(r)
    /\ failed' = failed \cup
           (IF request[r].status = None THEN {}
            ELSE {<<request[r].entityId, request[r].status>>})
    /\ UNCHANGED <<interested, owner, status, donation, post, notification,
                   asked, told, alerted, heard, missed>>

-----------------------------------------------------------------------------
(* Users                                                                   *)

Donate(u, c) ==
    /\ HasRoom(Donation, donation)
    /\ donation' = Put(donation, NewKey(Donation, donation),
                       [userId |-> u, campaignId |-> c])
    /\ UNCHANGED <<interested, owner, status, post, notification, request,
                   asked, historyVars>>

\* CampaignsController.update makes its caller the owner.
TakeOver(u, c) ==
    /\ owner' = [owner EXCEPT ![c] = u]
    /\ UNCHANGED <<interested, status, donation, post, notification, request,
                   asked, historyVars>>

\* UsersService.updateProfile: u takes up the category, or leaves it.  Who
\* leaves it need no longer be told of a publication.
ChangePreference(u) ==
    /\ interested' = IF u \in interested THEN interested \ {u}
                                         ELSE interested \cup {u}
    /\ request' = [r \in DOMAIN request |->
           IF request[r].status = None THEN request[r]
           ELSE [request[r] EXCEPT !.due = @ \cap interested']]
    /\ UNCHANGED <<owner, status, donation, post, notification, asked,
                   historyVars>>

PostUpdate(p, c) ==
    /\ p \notin DOMAIN post
    /\ post' = Put(post, p, [campaignId |-> c, hook |-> TRUE])
    /\ UNCHANGED <<interested, owner, status, donation, notification, request,
                   asked, historyVars>>

-----------------------------------------------------------------------------
(* Verdicts                                                                *)

\* Mutant of AdminUpdateCampaign: a missing status is written as null.
AdminUpdateCampaignToNull(c, s) ==
    /\ AskOnceMore
    /\ status' = [status EXCEPT ![c] = s]
    /\ IF s \in {None, "PENDING"}
       THEN UNCHANGED request
       ELSE Start("find", c, s, interested)
    /\ UNCHANGED <<interested, owner, donation, post, notification, historyVars>>

\* CampaignsService.adminUpdateCampaign; s is None if the dto has no status.
\* (The identification it may set is modelled in Submissions.)
\* createCampaignStatusChangedNotification returns early without a new status.
AdminUpdateCampaign(c, s) ==
    /\ AskOnceMore
    /\ status' = [status EXCEPT ![c] = IF s = None THEN @ ELSE s]
    /\ IF s \in {None, "PENDING"}
       THEN UNCHANGED request
       ELSE Start("find", c, s, interested)
    /\ UNCHANGED <<interested, owner, donation, post, notification, historyVars>>

\* campaign.findUnique, with its user
FindOwner(r) ==
    /\ At(r, "find")
    /\ request' = [request EXCEPT ![r].pc = "owner",
                                  ![r].users = {owner[request[r].entityId]}]
    /\ UNCHANGED <<interested, owner, status, donation, post, notification,
                   asked, historyVars>>

\* Mutant of TellOwner: a campaign that has been told of is done with.
TellOwnerAndEnd(r) ==
    LET c == request[r].entityId
        s == request[r].status IN
    /\ At(r, "owner")
    /\ notification' = notification (+)
           SetToBag({StatusNotice(c, u, s) : u \in request[r].users})
    /\ End(r)
    /\ UNCHANGED <<interested, owner, status, donation, post, asked,
                   historyVars>>

TellOwner(r) ==
    LET c == request[r].entityId
        s == request[r].status IN
    /\ At(r, "owner")
    /\ notification' = notification (+)
           SetToBag({StatusNotice(c, u, s) : u \in request[r].users})
    /\ IF s = "PUBLISHED" THEN request' = [request EXCEPT ![r].pc = "match"]
                          ELSE End(r)
    /\ UNCHANGED <<interested, owner, status, donation, post, asked,
                   historyVars>>

\* user.findMany of those who prefer the category
FindInterested(r) ==
    /\ At(r, "match")
    /\ request' = [request EXCEPT ![r].pc = "tell", ![r].users = interested]
    /\ UNCHANGED <<interested, owner, status, donation, post, notification,
                   asked, historyVars>>

\* createMany
TellInterested(r) ==
    LET c == request[r].entityId IN
    /\ At(r, "tell")
    /\ notification' = notification (+)
           SetToBag({MatchNotice(c, u) : u \in request[r].users})
    /\ told' = told \cup {[entityId |-> c, users |-> request[r].due]}
    /\ End(r)
    /\ UNCHANGED <<interested, owner, status, donation, post, asked, failed,
                   alerted, heard, missed>>

-----------------------------------------------------------------------------
(* Alerts: NotificationsService.createScamNotification                     *)

IsAlerted(c) ==
    \E n \in DOMAIN notification : n.type = "SCAM" /\ n.entityId = c

AskToAlert(c) ==
    /\ AskOnceMore
    /\ Start("check", c, None, {})
    /\ UNCHANGED <<interested, owner, status, donation, post, notification,
                   historyVars>>

\* "Scam notification already created before"
CheckAlert(r) ==
    /\ At(r, "check")
    /\ IF IsAlerted(request[r].entityId)
       THEN End(r)
       ELSE request' = [request EXCEPT ![r].pc = "donors"]
    /\ UNCHANGED <<interested, owner, status, donation, post, notification,
                   asked, historyVars>>

\* campaignDonation.findMany: a row for each gift, not for each donor
FindGifts(r) ==
    LET c == request[r].entityId IN
    /\ At(r, "donors")
    /\ request' = [request EXCEPT ![r].pc = "alert",
                                  ![r].donations = GiftsTo(c),
                                  ![r].due = Donors(c)]
    /\ UNCHANGED <<interested, owner, status, donation, post, notification,
                   asked, historyVars>>

\* The alerts for these gifts: one per gift.
ScamNotices(c, gifts) ==
    [n \in {ScamNotice(c, donation[d].userId) : d \in gifts} |->
        Cardinality({d \in gifts : donation[d].userId = n.receiverId})]

\* Mutant of Alert: a single row is created.
AlertOne(r) ==
    LET c == request[r].entityId IN
    /\ At(r, "alert")
    /\ \E n \in DOMAIN ScamNotices(c, request[r].donations) :
           notification' = notification (+) SetToBag({n})
    /\ alerted' = alerted \cup {[entityId |-> c, users |-> request[r].due]}
    /\ End(r)
    /\ UNCHANGED <<interested, owner, status, donation, post, asked, failed,
                   told, heard, missed>>

Alert(r) ==
    LET c == request[r].entityId IN
    /\ At(r, "alert")
    /\ notification' = notification (+) ScamNotices(c, request[r].donations)
    /\ alerted' = alerted \cup {[entityId |-> c, users |-> request[r].due]}
    /\ End(r)
    /\ UNCHANGED <<interested, owner, status, donation, post, asked, failed,
                   told, heard, missed>>

-----------------------------------------------------------------------------
(* Updates: NotificationsController.listenToCampaignUpdate                 *)

CallHook(p) ==
    /\ p \in DOMAIN post
    /\ post[p].hook
    /\ Start("hook", p, None, Donors(post[p].campaignId))
    /\ post' = [post EXCEPT ![p].hook = FALSE]
    /\ UNCHANGED <<interested, owner, status, donation, notification, asked,
                   historyVars>>

\* "Find all the users who have donated to that campaign", each once.
FindReceivers(r) ==
    /\ At(r, "hook")
    /\ request' = [request EXCEPT ![r].pc = "loop",
           ![r].users = Donors(post[request[r].entityId].campaignId)]
    /\ UNCHANGED <<interested, owner, status, donation, post, notification,
                   asked, historyVars>>

\* Receiver u of request r is done with.
NextReceiver(r, u) == request' = [request EXCEPT ![r].users = @ \ {u}]

\* NotificationsService.createCampaignUpdateNotification
TellReceiver(r, u) ==
    /\ At(r, "loop")
    /\ u \in request[r].users
    /\ notification' = notification (+) SetToBag({UpdateNotice(request[r].entityId, u)})
    /\ NextReceiver(r, u)
    /\ UNCHANGED <<interested, owner, status, donation, post, asked,
                   historyVars>>

\* Mutant of TellReceiverFails: the first error ends the loop.
TellReceiverFailsForAll(r, u) ==
    /\ At(r, "loop")
    /\ u \in request[r].users
    /\ request' = [request EXCEPT ![r].users = {}]
    /\ missed' = missed \cup {<<request[r].entityId, u>>}
    /\ UNCHANGED <<interested, owner, status, donation, post, notification,
                   asked, failed, told, alerted, heard>>

\* Its error is logged, and the loop goes on.
TellReceiverFails(r, u) ==
    /\ At(r, "loop")
    /\ u \in request[r].users
    /\ NextReceiver(r, u)
    /\ missed' = missed \cup {<<request[r].entityId, u>>}
    /\ UNCHANGED <<interested, owner, status, donation, post, notification,
                   asked, failed, told, alerted, heard>>

FinishLoop(r) ==
    /\ At(r, "loop")
    /\ request[r].users = {}
    /\ heard' = heard \cup
           {[entityId |-> request[r].entityId, users |-> request[r].due]}
    /\ End(r)
    /\ UNCHANGED <<interested, owner, status, donation, post, notification,
                   asked, failed, told, alerted, missed>>

\* The process dies in the loop.
LoopDies(r) ==
    /\ At(r, "loop")
    /\ End(r)
    /\ UNCHANGED <<interested, owner, status, donation, post, notification,
                   asked, historyVars>>

-----------------------------------------------------------------------------
Continue(r) ==
    \/ FindOwner(r) \/ TellOwner(r) \/ FindInterested(r) \/ TellInterested(r)
    \/ CheckAlert(r) \/ FindGifts(r) \/ Alert(r)
    \/ FindReceivers(r) \/ FinishLoop(r)
    \/ \E u \in User : TellReceiver(r, u) \/ TellReceiverFails(r, u)
    \/ RequestFails(r) \/ LoopDies(r)

Next ==
    \/ \E u \in User, c \in Campaign : Donate(u, c) \/ TakeOver(u, c)
    \/ \E u \in User : ChangePreference(u)
    \/ \E p \in Post, c \in Campaign : PostUpdate(p, c)
    \/ \E c \in Campaign, s \in Status \cup {None} : AdminUpdateCampaign(c, s)
    \/ \E c \in Campaign : AskToAlert(c)
    \/ \E p \in Post : CallHook(p)
    \/ \E r \in Request : Continue(r)

Spec == Init /\ [][Next]_vars

-----------------------------------------------------------------------------
(* Properties                                                              *)

IsTold(n) == n \in DOMAIN notification

\* Request r still has to tell of status s of c.
IsTelling(r, c, s) == request[r].entityId = c /\ request[r].status = s

\* A verdict does not go unheard: when a campaign is published or suspended,
\* an owner of it has been told, and its publication has been told of, or a
\* request is still at it, or one was cut short by an error (which
\* adminUpdateCampaign hides).  A publication told of has reached everybody
\* who preferred the category of the campaign from the verdict on, whoever
\* took the category up or left it meanwhile.
VerdictsAreTold ==
    /\ \A c \in Campaign :
           LET s == status[c] IN
           s # "PENDING" =>
               \/ <<c, s>> \in failed
               \/ \E r \in DOMAIN request : IsTelling(r, c, s)
               \/ /\ \E u \in User : IsTold(StatusNotice(c, u, s))
                  /\ s = "PUBLISHED" => \E j \in told : j.entityId = c
    /\ \A j \in told : \A u \in j.users : IsTold(MatchNotice(j.entityId, u))

\* When an alert has been answered, every donor there was when its request
\* read the gifts (findMany) has one, whatever the number of gifts, and also
\* when several alerts were asked for at once.  Who gives between that read
\* and createMany gets none.
AlertsReachDonors ==
    \A a \in alerted : \A u \in a.users : IsTold(ScamNotice(a.entityId, u))

\* "Find all the users who have donated to that campaign": the hook tells each
\* donor of an update at most once, whatever the number of gifts, and when it
\* ends every one of them has been told, except those whose own notice failed.
HookTellsDonorsOnce ==
    /\ \A p \in Post, u \in User :
           IsTold(UpdateNotice(p, u)) => notification[UpdateNotice(p, u)] = 1
    /\ \A h \in heard : \A u \in h.users :
           IsTold(UpdateNotice(h.entityId, u)) \/ <<h.entityId, u>> \in missed
=============================================================================
