---------------------------- MODULE CampaignPages ----------------------------
(***************************************************************************)
(* What donors see of campaigns while donations come in: the campaign page *)
(* (findOne), the lists that a filter or the donor's interests select      *)
(* (findAll, findUserInterestedCampaigns) and the list of campaigns close  *)
(* to their target (findCloseToTargetCampaigns), each put together from    *)
(* several queries and cache lookups (src/campaigns).                      *)
(*                                                                         *)
(*   page:        top -> recent -> campaign -> match .. -> keepPage        *)
(*   close:       cache -> list -> match .. -> keepList                    *)
(*   interested:  preference -> list -> match ..                           *)
(*   filtered:    list -> match ..                           -> answered   *)
(*                                                                         *)
(* match looks up the challenge to show with a campaign, by category, in   *)
(* the cache and then in the database (match -> find -> keep -> match).    *)
(* An entry of the cache may expire at any moment.  The organization that  *)
(* the page names, and everything else without a part in the properties,   *)
(* is left out.                                                            *)
(***************************************************************************)
EXTENDS Naturals, FiniteSets, FiniteSetsExt, Tables

CONSTANTS
    Campaign, Category,
    CategoryOf,     \* the category of each campaign
    Target,         \* the targetAmount of each campaign
    Donation, Amount,
    Time,           \* what the clock may read
    Challenge,
    Terms,          \* what an admin may ask of a challenge's participants
    Request,        \* ids of requests, each used once
    Take,           \* length of the page's lists of top and recent donations
    None            \* null

ASSUME CampaignAssumption ==
    CategoryOf \in [Campaign -> Category] /\ Target \in [Campaign -> Nat]
ASSUME TakeAssumption ==
    Take \in Nat \ {0} /\ Amount \subseteq Nat /\ Time \subseteq Nat

VARIABLES
    donation,       \* table campaign_donations
    challenge,      \* table community_challenges
    matched,        \* cache: campaign-category-matched-challenge:<category>
    closeList,      \* cache: close-to-target
    pages,          \* cache: campaign:<id>
    request

tables == <<donation, challenge>>
caches == <<matched, closeList, pages>>
vars == <<donation, challenge, matched, closeList, pages, request>>

-----------------------------------------------------------------------------
Optional(S) == S \cup {None}

\* createdAt: the milliseconds of a clock.
DonationRow == [campaignId: Campaign, amount: Nat, createdAt: Nat]

\* isOpen: expiredAt >= now.
ChallengeRow == [challengeType: {"DONATION", "PHOTO"},
                 targetCampaignCategories: SUBSET Category, isOpen: BOOLEAN]

ASSUME ChallengeAssumption ==
    Terms \subseteq ChallengeRow /\ None \notin ChallengeRow

\* What is shown of campaigns: their donations, and a challenge with each.
View == [donations: [Campaign -> SUBSET Donation],
         challenge: [Campaign -> Optional(ChallengeRow)]]
NoView == [donations |-> [c \in Campaign |-> {}],
           challenge |-> [c \in Campaign |-> None]]

Kind == {"page", "close", "interested", "filtered"}
Live == {"top", "recent", "campaign", "cache", "preference", "list", "match", "find",
         "keep", "keepPage", "keepList"}

\* before, offered: history of what had been stored and was offered when the
\* request was made, and offered ever since.
RequestRow == [kind: Kind, pc: Live \cup {"answered", "failed"},
               campaignId: Optional(Campaign),
               top: SUBSET Donation, recent: SUBSET Donation,
               listed: SUBSET Campaign, todo: SUBSET Campaign,
               current: Optional(Campaign), view: View,
               before: SUBSET Donation,
               offered: SUBSET Challenge]

TypeOK ==
    /\ IsTable(donation, Donation, DonationRow)
    /\ IsTable(challenge, Challenge, ChallengeRow)
    /\ IsTable(matched, Category, ChallengeRow)
    /\ closeList \in Optional([listed: SUBSET Campaign, view: View])
    /\ IsTable(pages, Campaign, SUBSET Donation)
    /\ IsTable(request, Request, RequestRow)

Init ==
    /\ donation = EmptyTable
    /\ challenge = EmptyTable
    /\ matched = EmptyTable
    /\ closeList = None
    /\ pages = EmptyTable
    /\ request = EmptyTable

-----------------------------------------------------------------------------
(* Donations and challenges, as far as these queries read them             *)

\* The clock is read before the row is stored: donations that overlap may be
\* of the same moment, or be stored in the other order.
StoreDonation(c, amt, t) ==
    /\ HasRoom(Donation, donation)
    /\ donation' = Put(donation, NewKey(Donation, donation),
          [campaignId |-> c, amount |-> amt, createdAt |-> t])
    /\ UNCHANGED <<challenge, caches, request>>

\* The query's condition on challenge row h for a campaign of category k.
Matches(h, k) ==
    /\ h.isOpen
    /\ h.challengeType = "DONATION" =>
           \/ h.targetCampaignCategories = {}
           \/ k \in h.targetCampaignCategories

\* The challenges become ch: requests under way keep those still offered.
ChallengesBecome(ch) ==
    /\ challenge' = ch
    /\ request' = [r \in DOMAIN request |->
          [request[r] EXCEPT !.offered =
              {h \in @ : Matches(ch[h], CategoryOf[request[r].campaignId])}]]
    /\ UNCHANGED <<donation, caches>>

CreateChallenge(h, row) ==
    h \notin DOMAIN challenge /\ ChallengesBecome(Put(challenge, h, row))

\* updateChallenge connects categories and never disconnects one.
UpdateChallenge(h, row) ==
    /\ h \in DOMAIN challenge
    /\ ChallengesBecome([challenge EXCEPT ![h] =
          [row EXCEPT !.targetCampaignCategories =
              row.targetCampaignCategories
                  \cup challenge[h].targetCampaignCategories]])

ChallengeEnds(h) ==
    /\ h \in DOMAIN challenge /\ challenge[h].isOpen
    /\ ChallengesBecome([challenge EXCEPT ![h].isOpen = FALSE])

-----------------------------------------------------------------------------
(* Requests                                                                *)

DonationsTo(c) == {d \in DOMAIN donation : donation[d].campaignId = c}

At(r, pc) == r \in DOMAIN request /\ request[r].pc = pc

Step(r, row) ==
    /\ request' = [request EXCEPT ![r] = row]
    /\ UNCHANGED tables

Ask(row) ==
    /\ HasRoom(Request, request)
    /\ request' = Put(request, NewKey(Request, request), row)
    /\ UNCHANGED <<tables, caches>>

NewRequest(kind, c, pc) ==
    [kind |-> kind, pc |-> pc, campaignId |-> c, top |-> {}, recent |-> {},
     listed |-> {}, todo |-> {}, current |-> None, view |-> NoView,
     before |-> {}, offered |-> {}]

\* A request for the page of c, with the history kept of it.
NewPageRequest(c, pc) ==
    [NewRequest("page", c, pc) EXCEPT
        !.before = DonationsTo(c),
        !.offered = {h \in DOMAIN challenge : Matches(challenge[h], CategoryOf[c])}]

AskPage(c) == Ask(NewPageRequest(c, "top"))

FirstOf(kind) ==
    CASE kind = "close" -> "cache"
      [] kind = "interested" -> "preference"
      [] kind = "filtered" -> "list"

AskList(kind) == Ask(NewRequest(kind, None, FirstOf(kind)))

\* Mutant of FirstsBy: orderBy asc.
LastsBy(key, D) ==
    {T \in kSubset(Min({Take, Cardinality(D)}), D) :
        \A d \in T, e \in D \ T : key[d] <= key[e]}

\* orderBy key desc, take, in any of the ways that ties allow.
FirstsBy(key, D) ==
    {T \in kSubset(Min({Take, Cardinality(D)}), D) :
        \A d \in T, e \in D \ T : key[d] >= key[e]}

\* topThreeDonations
TopOf(c) ==
    FirstsBy([d \in DonationsTo(c) |-> donation[d].amount], DonationsTo(c))

ReadTop(r) ==
    /\ At(r, "top")
    /\ \E T \in TopOf(request[r].campaignId) :
          Step(r, [request[r] EXCEPT !.pc = "recent", !.top = T])
    /\ UNCHANGED caches

\* recentThreeDonations
RecentOf(c) ==
    FirstsBy([d \in DonationsTo(c) |-> donation[d].createdAt], DonationsTo(c))

ReadRecent(r) ==
    /\ At(r, "recent")
    /\ \E R \in RecentOf(request[r].campaignId) :
          Step(r, [request[r] EXCEPT !.pc = "campaign", !.recent = R])
    /\ UNCHANGED caches

\* The campaigns of L are read with their donations, in one query.
Reads(r, L) ==
    Step(r, [request[r] EXCEPT
                !.pc = "match", !.listed = L, !.todo = L,
                !.view.donations =
                    [c \in Campaign |-> IF c \in L THEN DonationsTo(c) ELSE {}]])

ReadCampaign(r) ==
    /\ At(r, "campaign")
    /\ Reads(r, {request[r].campaignId})
    /\ UNCHANGED caches

\* raisedAmount
Raised(D) == MapThenSumSet(LAMBDA d : donation[d].amount, D)

\* From 80 percent of the target on, and below the target.
IsCloseToTarget(c) ==
    LET percent == 100 * Raised(DonationsTo(c)) IN
    80 * Target[c] <= percent /\ percent < 100 * Target[c]

LookForList(r) ==
    /\ At(r, "cache")
    /\ Step(r, IF closeList = None
               THEN [request[r] EXCEPT !.pc = "list"]
               ELSE [request[r] EXCEPT !.pc = "answered",
                        !.listed = closeList.listed, !.view = closeList.view])
    /\ UNCHANGED caches

\* findUserInterestedCampaigns: without preferences there is no list.
ReadPreference(r) ==
    /\ At(r, "preference")
    /\ \E pc \in {"list", "answered"} : Step(r, [request[r] EXCEPT !.pc = pc])
    /\ UNCHANGED caches

\* The filters and interests of a request may select any campaigns.
ReadList(r) ==
    /\ At(r, "list")
    /\ \/ /\ request[r].kind = "close"
          /\ Reads(r, {c \in Campaign : IsCloseToTarget(c)})
       \/ /\ request[r].kind # "close"
          /\ \E L \in SUBSET Campaign : Reads(r, L)
    /\ UNCHANGED caches

-----------------------------------------------------------------------------
(* _findFirstMatchedCommunityChallenge                                     *)

\* Row h, or null, is what is shown with the current campaign c.
Shows(r, c, h, pc) ==
    [request[r] EXCEPT !.pc = pc, !.current = c,
                       !.todo = request[r].todo \ {c}, !.view.challenge[c] = h]

\* The cache is asked for the next campaign.
LookUp(r, c) ==
    LET k == CategoryOf[c] IN
    /\ At(r, "match")
    /\ c \in request[r].todo
    /\ Step(r, IF k \in DOMAIN matched THEN Shows(r, c, matched[k], "match")
                                       ELSE Shows(r, c, None, "find"))
    /\ UNCHANGED caches

Matching(c) == {h \in DOMAIN challenge : Matches(challenge[h], CategoryOf[c])}

\* Mutant of Find: that there is none is remembered as well.
FindOrKeepNone(r) ==
    LET c == request[r].current IN
    /\ At(r, "find")
    /\ \/ /\ Matching(c) = {}
          /\ Step(r, Shows(r, c, None, "keep"))
       \/ \E h \in Matching(c) : Step(r, Shows(r, c, challenge[h], "keep"))
    /\ UNCHANGED caches

\* findFirst, without an order.
Find(r) ==
    LET c == request[r].current IN
    /\ At(r, "find")
    /\ \/ /\ Matching(c) = {}
          /\ Step(r, Shows(r, c, None, "match"))
       \/ \E h \in Matching(c) : Step(r, Shows(r, c, challenge[h], "keep"))
    /\ UNCHANGED caches

Keep(r) ==
    LET c == request[r].current IN
    /\ At(r, "keep")
    /\ matched' = Put(matched, CategoryOf[c], request[r].view.challenge[c])
    /\ Step(r, [request[r] EXCEPT !.pc = "match"])
    /\ UNCHANGED <<closeList, pages>>

Finish(r) ==
    /\ At(r, "match")
    /\ request[r].todo = {}
    /\ Step(r, [request[r] EXCEPT !.pc =
          CASE request[r].kind = "page" -> "keepPage"
            [] request[r].kind = "close" -> "keepList"
            [] OTHER -> "answered"])
    /\ UNCHANGED caches

\* CampaignsController.findOne: the page is cached and answered.
KeepPage(r) ==
    LET c == request[r].campaignId IN
    /\ At(r, "keepPage")
    /\ pages' = Put(pages, c, request[r].view.donations[c])
    /\ Step(r, [request[r] EXCEPT !.pc = "answered"])
    /\ UNCHANGED <<matched, closeList>>

KeepList(r) ==
    /\ At(r, "keepList")
    /\ closeList' = [listed |-> request[r].listed, view |-> request[r].view]
    /\ Step(r, [request[r] EXCEPT !.pc = "answered"])
    /\ UNCHANGED <<matched, pages>>

\* An await throws: 500.
RequestFails(r) ==
    /\ \E pc \in Live : At(r, pc)
    /\ Step(r, [request[r] EXCEPT !.pc = "failed"])
    /\ UNCHANGED caches

\* Redis: the time to live of an entry is over.
Expire ==
    /\ \/ \E k \in DOMAIN matched :
             matched' = Drop(matched, k) /\ UNCHANGED <<closeList, pages>>
       \/ closeList # None /\ closeList' = None /\ UNCHANGED <<matched, pages>>
       \/ \E c \in DOMAIN pages :
             pages' = Drop(pages, c) /\ UNCHANGED <<matched, closeList>>
    /\ UNCHANGED <<tables, request>>

-----------------------------------------------------------------------------
Admin ==
    \E h \in Challenge :
        \/ \E row \in Terms : CreateChallenge(h, row) \/ UpdateChallenge(h, row)
        \/ ChallengeEnds(h)

Serve(r) ==
    \/ ReadTop(r) \/ ReadRecent(r) \/ ReadCampaign(r)
    \/ LookForList(r) \/ ReadPreference(r) \/ ReadList(r)
    \/ \E c \in Campaign : LookUp(r, c)
    \/ Find(r) \/ Keep(r)
    \/ Finish(r) \/ KeepPage(r) \/ KeepList(r)

Next ==
    \/ \E c \in Campaign, amt \in Amount, t \in Time : StoreDonation(c, amt, t)
    \/ Admin
    \/ \E c \in Campaign : AskPage(c)
    \/ \E kind \in Kind \ {"page"} : AskList(kind)
    \/ \E r \in Request : Serve(r) \/ RequestFails(r)
    \/ Expire

Spec == Init /\ [][Next]_vars

-----------------------------------------------------------------------------
(* Properties                                                              *)

AnsweredPages ==
    {r \in DOMAIN request : request[r].kind = "page" /\ request[r].pc = "answered"}

\* The three queries of findOne agree as far as donations stored in between
\* allow: what the page highlights is among the donations it adds up, and a
\* donation that was there before the page was asked for is left out of the
\* top or recent list only for ones as big, or as new.
PageAddsUp ==
    \A r \in AnsweredPages :
        LET q == request[r]
            all == q.view.donations[q.campaignId] IN
        /\ q.top \cup q.recent \cup q.before \subseteq all
        /\ \A d \in q.before \ q.top :
               /\ Cardinality(q.top) = Take
               /\ \A e \in q.top : donation[e].amount >= donation[d].amount
        /\ \A d \in q.before \ q.recent :
               /\ Cardinality(q.recent) = Take
               /\ \A e \in q.recent : donation[e].createdAt >= donation[d].createdAt

\* A challenge that takes the campaign's donations while the page is put
\* together is not missed: the page may show another challenge, or one that is
\* over and still cached, but never none (that there is none is not cached).
OpenChallengeIsShown ==
    \A r \in AnsweredPages :
        request[r].offered # {} =>
            request[r].view.challenge[request[r].campaignId] # None
=============================================================================
