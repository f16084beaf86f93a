------------------------ MODULE CampaignPagesProofs ------------------------
(***************************************************************************)
(* Proofs about CampaignPages, for any number of campaigns, donations,     *)
(* challenges and requests, and at the end about Favourites.               *)
(*                                                                         *)
(* What an answered page shows was read at three moments.  The invariant   *)
(* says of each request what it has found out so far, in terms that later  *)
(* steps of others do not disturb: donations only come in and keep their   *)
(* amounts and times, and of the challenges offered when the page was    *)
(* asked for only those still offered are remembered.                      *)
(***************************************************************************)
EXTENDS CampaignPages, FiniteSetTheorems, TLAPS

-----------------------------------------------------------------------------
(* The inductive invariant                                                 *)

\* Lists of the top and the recent ones have a length.
FinitelyStored == IsFiniteSet(DOMAIN donation)

\* Requests for pages read what only they read, and the others what only
\* they read; what a request is about to cache is there to be cached.
Placed(q) ==
    /\ q.pc \in {"top", "recent", "campaign", "keepPage"} => q.kind = "page"
    /\ q.pc \in {"cache", "preference", "list", "keepList"} => q.kind # "page"
    /\ q.kind = "page" => q.campaignId \in Campaign
    /\ q.kind # "page" => q.offered = {}
    /\ q.pc \in {"find", "keep"} => q.current \in Campaign
    /\ q.pc = "keep" => q.view.challenge[q.current] \in ChallengeRow

\* The top donations that were read miss none that is bigger than one of them.
HasTop(q) ==
    /\ q.top \subseteq DonationsTo(q.campaignId)
    /\ \A d \in q.before \ q.top :
           /\ Cardinality(q.top) = Take
           /\ \A e \in q.top : donation[e].amount >= donation[d].amount

\* The recent donations that were read miss none that is newer than one of them.
HasRecent(q) ==
    /\ q.recent \subseteq DonationsTo(q.campaignId)
    /\ \A d \in q.before \ q.recent :
           /\ Cardinality(q.recent) = Take
           /\ \A e \in q.recent : donation[e].createdAt >= donation[d].createdAt

\* The donations that are added up hold all that was read before.
HasAll(q) ==
    LET all == q.view.donations[q.campaignId] IN
    /\ q.top \cup q.recent \cup q.before \subseteq all
    /\ all \subseteq DonationsTo(q.campaignId)

\* Challenges offered all along are there to be found; once the page's
\* campaign has been looked up, one is shown, or is about to be found.
HasChallenge(q) ==
    /\ q.offered \subseteq Matching(q.campaignId)
    /\ q.pc \in {"match", "find", "keep"} => q.todo \subseteq {q.campaignId}
    /\ q.pc \in {"keepPage", "answered"} => q.todo = {}
    /\ q.pc \in {"find", "keep"} => q.current = q.campaignId
    /\ /\ q.pc \in {"match", "keep", "keepPage", "answered"}
       /\ q.campaignId \notin q.todo
       /\ q.offered # {}
       => q.view.challenge[q.campaignId] # None

\* What a request for a page has found out so far.
Answering == {"match", "find", "keep", "keepPage", "answered"}

Knows(q) ==
    /\ q.before \subseteq DonationsTo(q.campaignId)
    /\ q.pc \in {"recent", "campaign"} \cup Answering => HasTop(q)
    /\ q.pc \in {"campaign"} \cup Answering => HasRecent(q)
    /\ q.pc \in Answering => HasAll(q)
    /\ HasChallenge(q)

Good(q) == Placed(q) /\ (q.kind = "page" => Knows(q))

IInv ==
    /\ TypeOK /\ FinitelyStored
    /\ \A r \in DOMAIN request : Good(request[r])
-----------------------------------------------------------------------------
(* What the queries of a page read                                         *)

\* The donations of a campaign are finitely many.
LEMMA FinitelyMany ==
    ASSUME FinitelyStored, NEW c
    PROVE  IsFiniteSet(DonationsTo(c))
BY FS_Subset DEF FinitelyStored, DonationsTo

\* Of a finite set sorted by a key, what is not taken misses no element that
\* comes before one that is, and is there only if as many as asked are taken.
LEMMA FirstsMissLater ==
    ASSUME NEW D, IsFiniteSet(D), NEW key, NEW T \in FirstsBy(key, D)
    PROVE  /\ T \subseteq D
           /\ \A d \in D \ T : Cardinality(T) = Take /\ \A e \in T : key[e] >= key[d]
<1>1. PICK N \in Nat : N = Cardinality(D)
  BY FS_CardinalityType
<1>2. T \in SUBSET D /\ Cardinality(T) = Min({Take, N})
      /\ \A d \in T, e \in D \ T : key[d] >= key[e]
  BY <1>1 DEF FirstsBy, kSubset
<1>3. PICK k \in {Take, N} : k = Min({Take, N})
  <2>1. \E k \in {Take, N} : \A j \in {Take, N} : k <= j
    <3>1. Take \in Nat
      BY TakeAssumption
    <3>2. CASE Take <= N
      BY <3>1, <3>2
    <3>3. CASE ~ (Take <= N)
      BY <3>1, <3>3
    <3>. QED
      BY <3>2, <3>3
  <2>. QED
    BY <2>1 DEF Min
<1>4. ASSUME NEW d \in D \ T PROVE Cardinality(T) = Take
  <2>1. Cardinality(T) # N
    BY <1>1, <1>2, <1>4, FS_Subset
  <2>. QED
    BY <1>2, <1>3, <2>1
<1>. QED
  BY <1>2, <1>4

\* A donation that is not among the top ones is no bigger than any of them.
LEMMA TopMissesSmaller ==
    ASSUME FinitelyStored, NEW c, NEW T \in TopOf(c)
    PROVE  /\ T \subseteq DonationsTo(c)
           /\ \A d \in DonationsTo(c) \ T :
                  /\ Cardinality(T) = Take
                  /\ \A e \in T : donation[e].amount >= donation[d].amount
<1>1. PICK D, key : D = DonationsTo(c) /\ key = [d \in D |-> donation[d].amount]
  OBVIOUS
<1>2. T \in FirstsBy(key, D) /\ IsFiniteSet(D)
  BY <1>1, FinitelyMany DEF TopOf
<1>3. /\ T \subseteq D
      /\ \A d \in D \ T : Cardinality(T) = Take /\ \A e \in T : key[e] >= key[d]
  BY <1>2, FirstsMissLater
<1>. QED
  BY <1>1, <1>3

\* A donation that is not among the recent ones is no newer than any of them.
LEMMA RecentMissesOlder ==
    ASSUME FinitelyStored, NEW c, NEW R \in RecentOf(c)
    PROVE  /\ R \subseteq DonationsTo(c)
           /\ \A d \in DonationsTo(c) \ R :
                  /\ Cardinality(R) = Take
                  /\ \A e \in R : donation[e].createdAt >= donation[d].createdAt
<1>1. PICK D, key : D = DonationsTo(c) /\ key = [d \in D |-> donation[d].createdAt]
  OBVIOUS
<1>2. R \in FirstsBy(key, D) /\ IsFiniteSet(D)
  BY <1>1, FinitelyMany DEF RecentOf
<1>3. /\ R \subseteq D
      /\ \A d \in D \ R : Cardinality(R) = Take /\ \A e \in R : key[e] >= key[d]
  BY <1>2, FirstsMissLater
<1>. QED
  BY <1>1, <1>3

-----------------------------------------------------------------------------
(* What requests know, while others act                                    *)

\* What is known stays known while no donation and no challenge changes.
LEMMA SameStaysGood ==
    ASSUME UNCHANGED <<donation, challenge>>, NEW q, Good(q)
    PROVE  Good(q)'
BY DEF Good, Placed, Knows, HasTop, HasRecent, HasAll, HasChallenge,
       DonationsTo, Matching, Answering

\* A donation is stored, and the others stay.
LEMMA StoreAdds ==
    ASSUME TypeOK, FinitelyStored, NEW c \in Campaign, NEW amt \in Amount,
           NEW t \in Time, StoreDonation(c, amt, t)
    PROVE  /\ IsTable(donation', Donation, DonationRow)
           /\ FinitelyStored'
           /\ \A k : DonationsTo(k) \subseteq DonationsTo(k)'
           /\ \A d \in DOMAIN donation :
                  d \in DOMAIN donation' /\ donation'[d] = donation[d]
<1>. DEFINE row == [campaignId |-> c, amount |-> amt, createdAt |-> t]
<1>1. PICK x \in Donation : x \notin DOMAIN donation /\ donation' = Put(donation, x, row)
  BY DEF StoreDonation, NewKey, HasRoom
<1>2. row \in DonationRow
  BY TakeAssumption DEF DonationRow
<1>. HIDE DEF row
<1>3. IsTable(donation', Donation, DonationRow)
  BY <1>1, <1>2 DEF TypeOK, IsTable, Put
<1>4. /\ DOMAIN donation' = DOMAIN donation \cup {x}
      /\ \A d \in DOMAIN donation : donation'[d] = donation[d]
  BY <1>1 DEF Put
<1>5. FinitelyStored'
  BY <1>1, <1>4, FS_AddElement DEF FinitelyStored
<1>. QED
  BY <1>3, <1>4, <1>5 DEF DonationsTo

\* What is known stays known while donations come in.
LEMMA MoreStaysGood ==
    ASSUME UNCHANGED challenge, NEW q, Good(q),
           DonationsTo(q.campaignId) \subseteq DonationsTo(q.campaignId)',
           \A d \in DOMAIN donation :
               d \in DOMAIN donation' /\ donation'[d] = donation[d]
    PROVE  Good(q)'
<1>1. Placed(q)' /\ (q.kind = "page" => HasChallenge(q)')
  BY DEF Good, Placed, Knows, HasChallenge, Matching
<1>2. ASSUME HasTop(q), q.before \subseteq DonationsTo(q.campaignId)
      PROVE  HasTop(q)'
  BY <1>2 DEF HasTop, DonationsTo
<1>3. ASSUME HasRecent(q), q.before \subseteq DonationsTo(q.campaignId)
      PROVE  HasRecent(q)'
  BY <1>3 DEF HasRecent, DonationsTo
<1>4. HasAll(q) => HasAll(q)'
  BY DEF HasAll
<1>. QED
  BY <1>1, <1>2, <1>3, <1>4 DEF Good, Knows, Answering

\* Challenges become others: requests keep those that are still offered.
LEMMA ChallengesKeep ==
    ASSUME IInv, NEW ch, IsTable(ch, Challenge, ChallengeRow),
           DOMAIN challenge \subseteq DOMAIN ch, ChallengesBecome(ch)
    PROVE  IInv'
<1>1. challenge' = ch /\ UNCHANGED <<donation, matched, closeList, pages>>
  BY DEF ChallengesBecome, caches
<1>2. ASSUME NEW r \in DOMAIN request
      PROVE  /\ request'[r] \in RequestRow
             /\ Good(request[r])'
  <2>1. PICK q \in RequestRow : q = request[r] /\ Good(q)
    BY DEF IInv, TypeOK, IsTable
  <2>2. PICK left : left = {h \in q.offered : Matches(ch[h], CategoryOf[q.campaignId])}
    OBVIOUS
  <2>3. PICK row : row = [q EXCEPT !.offered = left]
    OBVIOUS
  <2>4. request'[r] = row
    BY <2>1, <2>2, <2>3 DEF ChallengesBecome
  <2>5. row \in RequestRow
    BY <2>2, <2>3 DEF RequestRow
  <2>6. /\ row.offered = left
        /\ row.kind = q.kind /\ row.pc = q.pc /\ row.campaignId = q.campaignId
        /\ row.top = q.top /\ row.recent = q.recent /\ row.todo = q.todo
        /\ row.current = q.current /\ row.view = q.view
        /\ row.before = q.before
    BY <2>3 DEF RequestRow
  <2>7. Placed(row)'
    BY <2>1, <2>2, <2>6 DEF Good, Placed
  <2>8. ASSUME q.kind = "page" PROVE HasChallenge(row)'
    <3>1. HasChallenge(q)
      BY <2>1, <2>8 DEF Good, Knows
    <3>2. left \subseteq {h \in DOMAIN ch : Matches(ch[h], CategoryOf[q.campaignId])}
      BY <2>2, <3>1 DEF HasChallenge, Matching
    <3>3. left \subseteq Matching(q.campaignId)' /\ left \subseteq q.offered
      BY <1>1, <2>2, <3>2 DEF Matching, Matches
    <3>. QED
      BY <2>6, <3>1, <3>3 DEF HasChallenge
  <2>9. ASSUME q.kind = "page" PROVE Knows(row)'
    <3>1. Knows(q)
      BY <2>1, <2>9 DEF Good
    <3>. QED
      BY <1>1, <2>6, <2>8, <2>9, <3>1
         DEF Knows, HasTop, HasRecent, HasAll, DonationsTo, Answering
  <2>. QED
    BY <2>4, <2>5, <2>6, <2>7, <2>9 DEF Good
<1>3. IsTable(request', Request, RequestRow) /\ DOMAIN request' = DOMAIN request
  <2>1. DOMAIN request' = DOMAIN request
        /\ request' = [r \in DOMAIN request' |-> request'[r]]
    BY DEF ChallengesBecome
  <2>. QED
    BY <1>2, <2>1 DEF IInv, TypeOK, IsTable
<1>. QED
  BY <1>1, <1>2, <1>3 DEF IInv, TypeOK, FinitelyStored

-----------------------------------------------------------------------------
(* Steps of requests                                                       *)

\* A request that moves to a good row keeps the invariant, if the caches
\* and the history do.
LEMMA StepKeeps ==
    ASSUME IInv, NEW r \in DOMAIN request, NEW row \in RequestRow, Good(row),
           Step(r, row),
           IsTable(matched', Category, ChallengeRow),
           closeList' \in Optional([listed: SUBSET Campaign, view: View]),
           IsTable(pages', Campaign, SUBSET Donation)
    PROVE  IInv'
<1>1. request' = [request EXCEPT ![r] = row] /\ UNCHANGED <<donation, challenge>>
  BY DEF Step, tables
<1>2. IsTable(request', Request, RequestRow)
  BY <1>1 DEF IInv, TypeOK, IsTable
<1>3. ASSUME NEW x \in DOMAIN request' PROVE Good(request[x])'
  <2>1. PICK q : q = request'[x]
    OBVIOUS
  <2>2. Good(q)
    BY <1>1, <2>1 DEF IInv
  <2>3. Good(q)'
    BY <1>1, <2>2, SameStaysGood
  <2>. QED
    BY <2>1, <2>3 DEF Good, Placed, Knows, HasTop, HasRecent, HasAll, HasChallenge
<1>4. FinitelyStored'
  BY <1>1 DEF IInv, FinitelyStored
<1>. QED
  BY <1>1, <1>2, <1>3, <1>4 DEF IInv, TypeOK

LEMMA MoveKeeps ==
    ASSUME IInv, NEW r \in DOMAIN request, NEW row \in RequestRow, Good(row),
           Step(r, row), UNCHANGED caches
    PROVE  IInv'
BY StepKeeps DEF IInv, TypeOK, caches

\* A request that is made with a good row keeps the invariant.
LEMMA AskKeeps ==
    ASSUME IInv, NEW row \in RequestRow, Good(row), Ask(row)
    PROVE  IInv'
<1>1. PICK k \in Request : k \notin DOMAIN request /\ request' = Put(request, k, row)
  BY DEF Ask, NewKey, HasRoom
<1>2. UNCHANGED <<donation, challenge, matched, closeList, pages>>
  BY DEF Ask, tables, caches
<1>3. IsTable(request', Request, RequestRow)
  BY <1>1 DEF IInv, TypeOK, IsTable, Put
<1>4. ASSUME NEW x \in DOMAIN request' PROVE Good(request[x])'
  <2>1. PICK q : q = request'[x]
    OBVIOUS
  <2>2. Good(q)
    BY <1>1, <2>1 DEF IInv, Put
  <2>3. Good(q)'
    BY <1>2, <2>2, SameStaysGood
  <2>. QED
    BY <2>1, <2>3 DEF Good, Placed, Knows, HasTop, HasRecent, HasAll, HasChallenge
<1>5. FinitelyStored'
  BY <1>2 DEF IInv, FinitelyStored
<1>. QED
  BY <1>2, <1>3, <1>4, <1>5 DEF IInv, TypeOK

\* The row of a request at pc is of its type, and good.
LEMMA RowAt ==
    ASSUME IInv, NEW r, NEW pc, At(r, pc)
    PROVE  /\ r \in DOMAIN request
           /\ request[r] \in RequestRow /\ Good(request[r]) /\ request[r].pc = pc
BY DEF At, IInv, TypeOK, IsTable

\* Nothing is known of a request that was just made, but its history.
LEMMA NewRequestType ==
    ASSUME NEW kind \in Kind, NEW c \in Optional(Campaign), NEW pc \in Live
    PROVE  NewRequest(kind, c, pc) \in RequestRow
<1>1. NoView \in View
  BY DEF NoView, View, Optional
<1>. QED
  BY <1>1 DEF NewRequest, RequestRow, Optional

LEMMA AskPageKeeps == ASSUME IInv, NEW c \in Campaign, AskPage(c) PROVE IInv'
<1>1. PICK q \in RequestRow : q = NewRequest("page", c, "top")
  BY NewRequestType DEF Kind, Live, Optional
<1>2. /\ q.kind = "page" /\ q.pc = "top" /\ q.campaignId = c
      /\ q.top = {} /\ q.recent = {} /\ q.todo = {}
  BY <1>1 DEF NewRequest
<1>3. PICK B, O : B = DonationsTo(c) /\ O = Matching(c)
  OBVIOUS
<1>4. PICK row : row = [q EXCEPT !.before = B, !.offered = O]
  OBVIOUS
<1>5. row = NewPageRequest(c, "top")
  BY <1>1, <1>3, <1>4 DEF NewPageRequest, Matching
<1>6. B \subseteq Donation /\ O \subseteq Challenge
  BY <1>3 DEF IInv, TypeOK, IsTable, DonationsTo, Matching
<1>7. /\ row \in RequestRow
      /\ row.kind = "page" /\ row.pc = "top" /\ row.campaignId = c
      /\ row.before = B /\ row.offered = O
  BY <1>2, <1>4, <1>6 DEF RequestRow
<1>8. Good(row)
  BY <1>3, <1>6, <1>7 DEF Good, Placed, Knows, HasChallenge, Answering
<1>. QED
  BY <1>5, <1>7, <1>8, AskKeeps DEF AskPage

LEMMA AskListKeeps ==
    ASSUME IInv, NEW kind \in Kind \ {"page"}, AskList(kind) PROVE IInv'
<1>1. PICK pc : pc = FirstOf(kind)
  OBVIOUS
<1>2. pc \in {"cache", "preference", "list"}
  BY <1>1 DEF Kind, FirstOf
<1>3. PICK row \in RequestRow : row = NewRequest(kind, None, pc)
  BY <1>2, NewRequestType DEF Live, Optional
<1>4. row.kind = kind /\ row.pc = pc /\ row.offered = {}
  BY <1>3 DEF NewRequest
<1>5. Good(row)
  BY <1>2, <1>4 DEF Good, Placed
<1>. QED
  BY <1>1, <1>3, <1>5, AskKeeps DEF AskList

\* The top donations are read.
LEMMA ReadTopKeeps == ASSUME IInv, NEW r, ReadTop(r) PROVE IInv'
<1>1. PICK q \in RequestRow :
          r \in DOMAIN request /\ q = request[r] /\ Good(q) /\ q.pc = "top"
  BY RowAt DEF ReadTop
<1>2. PICK T \in TopOf(q.campaignId) :
          Step(r, [q EXCEPT !.pc = "recent", !.top = T])
  BY <1>1 DEF ReadTop
<1>3. PICK row : row = [q EXCEPT !.pc = "recent", !.top = T]
  OBVIOUS
<1>4. q.kind = "page" /\ Knows(q)
  BY <1>1 DEF Good, Placed
<1>5. PICK c : c = q.campaignId
  OBVIOUS
<1>6. /\ T \subseteq DonationsTo(c)
      /\ \A d \in DonationsTo(c) \ T :
             /\ Cardinality(T) = Take
             /\ \A e \in T : donation[e].amount >= donation[d].amount
  BY <1>2, <1>5, TopMissesSmaller DEF IInv
<1>7. T \subseteq Donation
  BY <1>6 DEF IInv, TypeOK, IsTable, DonationsTo
<1>8. /\ row \in RequestRow
      /\ row.kind = "page" /\ row.pc = "recent" /\ row.campaignId = c
      /\ row.top = T /\ row.before = q.before
      /\ row.offered = q.offered
  BY <1>3, <1>4, <1>5, <1>7 DEF RequestRow, Live
<1>9. HasTop(row)
  BY <1>4, <1>5, <1>6, <1>8 DEF HasTop, Knows
<1>10. Good(row)
  BY <1>1, <1>4, <1>5, <1>8, <1>9 DEF Good, Placed, Knows, HasChallenge, Answering
<1>. QED
  BY <1>1, <1>2, <1>3, <1>8, <1>10, MoveKeeps DEF ReadTop

\* The recent donations are read.
LEMMA ReadRecentKeeps == ASSUME IInv, NEW r, ReadRecent(r) PROVE IInv'
<1>1. PICK q \in RequestRow :
          r \in DOMAIN request /\ q = request[r] /\ Good(q) /\ q.pc = "recent"
  BY RowAt DEF ReadRecent
<1>2. PICK R \in RecentOf(q.campaignId) :
          Step(r, [q EXCEPT !.pc = "campaign", !.recent = R])
  BY <1>1 DEF ReadRecent
<1>c. PICK c : c = q.campaignId
  OBVIOUS
<1>3. PICK row : row = [q EXCEPT !.pc = "campaign", !.recent = R]
  OBVIOUS
<1>4. q.kind = "page" /\ Knows(q)
  BY <1>1 DEF Good, Placed
<1>5. /\ R \subseteq DonationsTo(c)
      /\ \A d \in DonationsTo(c) \ R :
             /\ Cardinality(R) = Take
             /\ \A e \in R : donation[e].createdAt >= donation[d].createdAt
  BY <1>2, <1>c, RecentMissesOlder DEF IInv
<1>6. R \subseteq Donation
  BY <1>5 DEF IInv, TypeOK, IsTable, DonationsTo
<1>7. /\ row \in RequestRow
      /\ row.kind = "page" /\ row.pc = "campaign" /\ row.campaignId = c
      /\ row.recent = R /\ row.top = q.top /\ row.before = q.before
      /\ row.offered = q.offered
  BY <1>c, <1>3, <1>4, <1>6 DEF RequestRow, Live
<1>8. HasRecent(row)
  BY <1>c, <1>4, <1>5, <1>7 DEF HasRecent, Knows
<1>9. HasTop(row)
  BY <1>1, <1>c, <1>4, <1>7 DEF HasTop, Knows
<1>10. Good(row)
  BY <1>1, <1>c, <1>4, <1>7, <1>8, <1>9
     DEF Good, Placed, Knows, HasChallenge, Answering
<1>. QED
  BY <1>1, <1>2, <1>3, <1>7, <1>10, MoveKeeps DEF ReadRecent

\* The row q of a request after it has read the campaigns of L.
AfterRead(q, L) ==
    [q EXCEPT !.pc = "match", !.listed = L, !.todo = L,
              !.view.donations =
                  [c \in Campaign |-> IF c \in L THEN DonationsTo(c) ELSE {}]]

LEMMA ReadsRow ==
    ASSUME IInv, NEW q \in RequestRow, NEW L \in SUBSET Campaign,
           NEW row, row = AfterRead(q, L)
    PROVE  /\ row \in RequestRow
           /\ row.kind = q.kind /\ row.pc = "match" /\ row.campaignId = q.campaignId
           /\ row.todo = L /\ row.top = q.top /\ row.recent = q.recent
           /\ row.before = q.before /\ row.offered = q.offered
           /\ \A c \in L : row.view.donations[c] = DonationsTo(c)
<1>1. PICK D : D = [c \in Campaign |-> IF c \in L THEN DonationsTo(c) ELSE {}]
  OBVIOUS
<1>2. D \in [Campaign -> SUBSET Donation]
  BY <1>1 DEF IInv, TypeOK, IsTable, DonationsTo
<1>3. PICK view : view = [q.view EXCEPT !.donations = D]
  OBVIOUS
<1>4. view \in View /\ view.donations = D
  BY <1>2, <1>3 DEF RequestRow, View
<1>5. row = [q EXCEPT !.pc = "match", !.listed = L, !.todo = L, !.view = view]
  BY <1>1, <1>3 DEF AfterRead
<1>6. row \in RequestRow
  BY <1>4, <1>5 DEF RequestRow, Live
<1>7. /\ row.kind = q.kind /\ row.pc = "match" /\ row.campaignId = q.campaignId
      /\ row.todo = L /\ row.top = q.top /\ row.recent = q.recent
      /\ row.before = q.before /\ row.offered = q.offered
      /\ row.view = view
  BY <1>5 DEF RequestRow
<1>8. \A c \in L : view.donations[c] = DonationsTo(c)
  BY <1>1, <1>4
<1>. QED
  BY <1>6, <1>7, <1>8

\* A page reads its campaign with all its donations.
LEMMA ReadCampaignKeeps == ASSUME IInv, NEW r, ReadCampaign(r) PROVE IInv'
<1>1. PICK q \in RequestRow :
          r \in DOMAIN request /\ q = request[r] /\ Good(q) /\ q.pc = "campaign"
  BY RowAt DEF ReadCampaign
<1>2. q.kind = "page" /\ Knows(q)
  BY <1>1 DEF Good, Placed
<1>3. PICK c \in Campaign : c = q.campaignId
  BY <1>1, <1>2 DEF Good, Placed
<1>4. PICK row : row = AfterRead(q, {c})
  OBVIOUS
<1>5. Step(r, row)
  BY <1>1, <1>3, <1>4 DEF ReadCampaign, Reads, AfterRead
<1>6. /\ row \in RequestRow
      /\ row.kind = q.kind /\ row.pc = "match" /\ row.campaignId = q.campaignId
      /\ row.todo = {c} /\ row.top = q.top /\ row.recent = q.recent
      /\ row.before = q.before /\ row.offered = q.offered
      /\ row.view.donations[c] = DonationsTo(c)
  BY <1>4, ReadsRow
<1>7. HasTop(row) /\ HasRecent(row)
  BY <1>1, <1>2, <1>6 DEF Knows, HasTop, HasRecent
<1>8. HasAll(row)
  BY <1>2, <1>3, <1>6, <1>7 DEF Knows, HasTop, HasRecent, HasAll
<1>9. HasChallenge(row)
  BY <1>2, <1>3, <1>6 DEF Knows, HasChallenge
<1>10. Good(row)
  BY <1>1, <1>2, <1>3, <1>6, <1>7, <1>8, <1>9 DEF Good, Placed, Knows
<1>. QED
  BY <1>1, <1>5, <1>6, <1>10, MoveKeeps DEF ReadCampaign

\* A list reads the campaigns that are selected.
LEMMA ReadListKeeps == ASSUME IInv, NEW r, ReadList(r) PROVE IInv'
<1>1. PICK q \in RequestRow :
          r \in DOMAIN request /\ q = request[r] /\ Good(q) /\ q.pc = "list"
  BY RowAt DEF ReadList
<1>2. PICK L \in SUBSET Campaign : Reads(r, L)
  BY DEF ReadList
<1>3. PICK row : row = AfterRead(q, L)
  OBVIOUS
<1>4. Step(r, row)
  BY <1>1, <1>2, <1>3 DEF Reads, AfterRead
<1>5. /\ row \in RequestRow
      /\ row.kind = q.kind /\ row.pc = "match" /\ row.offered = q.offered
  BY <1>3, ReadsRow
<1>6. Good(row)
  BY <1>1, <1>5 DEF Good, Placed
<1>. QED
  BY <1>1, <1>4, <1>5, <1>6, MoveKeeps DEF ReadList

\* The list of campaigns close to their target is looked up in the cache.
LEMMA LookForListKeeps == ASSUME IInv, NEW r, LookForList(r) PROVE IInv'
<1>1. PICK q \in RequestRow :
          r \in DOMAIN request /\ q = request[r] /\ Good(q) /\ q.pc = "cache"
  BY RowAt DEF LookForList
<1>2. q.kind # "page" /\ q.offered = {}
  BY <1>1 DEF Good, Placed
<1>3. CASE closeList = None
  <2>1. PICK row : row = [q EXCEPT !.pc = "list"]
    OBVIOUS
  <2>2. Step(r, row)
    BY <1>1, <1>3, <2>1 DEF LookForList
  <2>3. row \in RequestRow /\ row.kind = q.kind /\ row.pc = "list" /\ row.offered = {}
    BY <1>2, <2>1 DEF RequestRow, Live
  <2>4. Good(row)
    BY <1>2, <2>3 DEF Good, Placed
  <2>. QED
    BY <1>1, <2>2, <2>3, <2>4, MoveKeeps DEF LookForList
<1>4. CASE closeList # None
  <2>1. PICK L \in SUBSET Campaign, V \in View :
            L = closeList.listed /\ V = closeList.view
    BY <1>4 DEF IInv, TypeOK, Optional
  <2>2. PICK row : row = [q EXCEPT !.pc = "answered", !.listed = L, !.view = V]
    OBVIOUS
  <2>3. Step(r, row)
    BY <1>1, <1>4, <2>1, <2>2 DEF LookForList
  <2>4. row \in RequestRow /\ row.kind = q.kind /\ row.pc = "answered" /\ row.offered = {}
    BY <1>2, <2>2 DEF RequestRow, Live
  <2>5. Good(row)
    BY <1>2, <2>4 DEF Good, Placed
  <2>. QED
    BY <1>1, <2>3, <2>4, <2>5, MoveKeeps DEF LookForList
<1>. QED
  BY <1>3, <1>4

\* A request that only moves on, from a pc of lists or to its failure.
LEMMA OnlyMoves ==
    ASSUME NEW q \in RequestRow, Good(q), NEW pc,
           \/ pc = "failed"
           \/ q.kind # "page" /\ pc \in {"list", "keepList", "answered"}
    PROVE  [q EXCEPT !.pc = pc] \in RequestRow /\ Good([q EXCEPT !.pc = pc])
<1>1. PICK row : row = [q EXCEPT !.pc = pc]
  OBVIOUS
<1>2. row \in RequestRow
  BY <1>1 DEF RequestRow, Live
<1>3. /\ row.pc = pc /\ row.kind = q.kind /\ row.campaignId = q.campaignId
      /\ row.before = q.before /\ row.offered = q.offered
  BY <1>1 DEF RequestRow
<1>4. Good(row)
  BY <1>3 DEF Good, Placed, Knows, HasChallenge, Answering
<1>. QED
  BY <1>1, <1>2, <1>4

LEMMA ReadPreferenceKeeps == ASSUME IInv, NEW r, ReadPreference(r) PROVE IInv'
<1>1. PICK q \in RequestRow :
          r \in DOMAIN request /\ q = request[r] /\ Good(q) /\ q.pc = "preference"
  BY RowAt DEF ReadPreference
<1>2. PICK pc \in {"list", "answered"} : Step(r, [q EXCEPT !.pc = pc])
  BY <1>1 DEF ReadPreference
<1>3. q.kind # "page"
  BY <1>1 DEF Good, Placed
<1>. QED
  BY <1>1, <1>2, <1>3, OnlyMoves, MoveKeeps DEF ReadPreference

LEMMA RequestFailsKeeps == ASSUME IInv, NEW r, RequestFails(r) PROVE IInv'
<1>1. PICK q \in RequestRow : r \in DOMAIN request /\ q = request[r] /\ Good(q)
  BY RowAt DEF RequestFails
<1>2. Step(r, [q EXCEPT !.pc = "failed"])
  BY <1>1 DEF RequestFails
<1>. QED
  BY <1>1, <1>2, OnlyMoves, MoveKeeps DEF RequestFails

\* The row of a request that shows h with c.
LEMMA ShowsRow ==
    ASSUME NEW r, NEW q \in RequestRow, q = request[r], NEW c \in Campaign,
           NEW h \in Optional(ChallengeRow), NEW pc \in Live,
           NEW row, row = Shows(r, c, h, pc)
    PROVE  /\ row \in RequestRow
           /\ row.kind = q.kind /\ row.pc = pc /\ row.campaignId = q.campaignId
           /\ row.top = q.top /\ row.recent = q.recent
           /\ row.before = q.before /\ row.offered = q.offered
           /\ row.todo = q.todo \ {c} /\ row.current = c
           /\ row.view.donations = q.view.donations
           /\ row.view.challenge[c] = h
           /\ \A k \in Campaign \ {c} : row.view.challenge[k] = q.view.challenge[k]
<1>1. PICK V : V = [q.view EXCEPT !.challenge[c] = h]
  OBVIOUS
<1>2. /\ V \in View
      /\ V.donations = q.view.donations
      /\ V.challenge[c] = h
      /\ \A k \in Campaign \ {c} : V.challenge[k] = q.view.challenge[k]
  BY <1>1 DEF RequestRow, View
<1>3. PICK todo : todo = q.todo \ {c}
  OBVIOUS
<1>4. row = [q EXCEPT !.pc = pc, !.current = c, !.todo = todo, !.view = V]
  BY <1>1, <1>3 DEF Shows
<1>5. todo \in SUBSET Campaign
  BY <1>3 DEF RequestRow
<1>6. row \in RequestRow
  BY <1>2, <1>4, <1>5 DEF RequestRow, Optional
<1>7. /\ row.kind = q.kind /\ row.pc = pc /\ row.campaignId = q.campaignId
      /\ row.top = q.top /\ row.recent = q.recent
      /\ row.before = q.before /\ row.offered = q.offered
      /\ row.todo = todo /\ row.current = c /\ row.view = V
  BY <1>4 DEF RequestRow
<1>. QED
  BY <1>2, <1>3, <1>6, <1>7

\* What a page has found out is kept while h is shown with its campaign.
LEMMA ShowsKnows ==
    ASSUME NEW q \in RequestRow, Good(q), q.kind = "page", q.pc \in {"match", "find"},
           NEW row, row.kind = "page", row.campaignId = q.campaignId,
           row.pc \in {"match", "find", "keep"},
           row.top = q.top, row.recent = q.recent, row.before = q.before,
           row.offered = q.offered,
           row.todo = q.todo \ {q.campaignId}, row.current = q.campaignId,
           row.view.donations = q.view.donations,
           row.pc = "find" \/ row.offered = {}
               \/ row.view.challenge[q.campaignId] # None
    PROVE  Knows(row)
<1>1. Knows(q)
  BY DEF Good
<1>2. HasTop(row) /\ HasRecent(row) /\ HasAll(row)
  BY <1>1 DEF Knows, HasTop, HasRecent, HasAll, Answering
<1>3. HasChallenge(row)
  BY <1>1 DEF Knows, HasChallenge
<1>. QED
  BY <1>1, <1>2, <1>3 DEF Knows

\* The cache is asked: what it holds is a challenge.
LEMMA LookUpKeeps ==
    ASSUME IInv, NEW r, NEW c \in Campaign, LookUp(r, c) PROVE IInv'
<1>1. PICK q \in RequestRow :
          r \in DOMAIN request /\ q = request[r] /\ Good(q) /\ q.pc = "match"
  BY RowAt DEF LookUp
<1>2. PICK k : k = CategoryOf[c]
  OBVIOUS
<1>3. PICK h, pc : /\ h = IF k \in DOMAIN matched THEN matched[k] ELSE None
                   /\ pc = IF k \in DOMAIN matched THEN "match" ELSE "find"
  OBVIOUS
<1>4. h \in Optional(ChallengeRow) /\ pc \in {"match", "find"}
      /\ (pc = "match" => h # None)
  BY <1>3, ChallengeAssumption DEF IInv, TypeOK, IsTable, Optional
<1>5. PICK row : row = Shows(r, c, h, pc)
  OBVIOUS
<1>6. Step(r, row) /\ c \in q.todo
  BY <1>1, <1>2, <1>3, <1>5 DEF LookUp
<1>7. /\ row \in RequestRow
      /\ row.kind = q.kind /\ row.pc = pc /\ row.campaignId = q.campaignId
      /\ row.top = q.top /\ row.recent = q.recent
      /\ row.before = q.before /\ row.offered = q.offered
      /\ row.todo = q.todo \ {c} /\ row.current = c
      /\ row.view.donations = q.view.donations
      /\ row.view.challenge[c] = h
  BY <1>1, <1>4, <1>5, ShowsRow DEF Live
<1>8. ASSUME q.kind = "page" PROVE Knows(row)
  <2>1. c = q.campaignId
    BY <1>1, <1>6, <1>8 DEF Good, Knows, HasChallenge
  <2>. QED
    BY <1>1, <1>4, <1>7, <1>8, <2>1, ShowsKnows
<1>9. Good(row)
  BY <1>1, <1>4, <1>7, <1>8 DEF Good, Placed
<1>. QED
  BY <1>1, <1>6, <1>7, <1>9, MoveKeeps DEF LookUp

\* The database is asked: if there is none now, none was offered all along.
LEMMA FindKeeps == ASSUME IInv, NEW r, Find(r) PROVE IInv'
<1>1. PICK q \in RequestRow :
          r \in DOMAIN request /\ q = request[r] /\ Good(q) /\ q.pc = "find"
  BY RowAt DEF Find
<1>2. PICK c \in Campaign : c = q.current
  BY <1>1 DEF Good, Placed
<1>3. PICK h \in Optional(ChallengeRow), pc \in {"match", "keep"} :
          /\ Step(r, Shows(r, c, h, pc))
          /\ pc = "keep" => h # None
          /\ pc = "match" => Matching(c) = {}
  <2>1. CASE Matching(c) = {} /\ Step(r, Shows(r, c, None, "match"))
    BY <2>1 DEF Optional
  <2>2. CASE \E h \in Matching(c) : Step(r, Shows(r, c, challenge[h], "keep"))
    <3>1. PICK x \in Matching(c) : Step(r, Shows(r, c, challenge[x], "keep"))
      BY <2>2
    <3>2. challenge[x] \in ChallengeRow
      BY <3>1 DEF Matching, IInv, TypeOK, IsTable
    <3>. QED
      BY <3>1, <3>2, ChallengeAssumption DEF Optional
  <2>. QED
    BY <1>1, <1>2, <2>1, <2>2 DEF Find
<1>4. PICK row : row = Shows(r, c, h, pc)
  OBVIOUS
<1>5. /\ row \in RequestRow
      /\ row.kind = q.kind /\ row.pc = pc /\ row.campaignId = q.campaignId
      /\ row.top = q.top /\ row.recent = q.recent
      /\ row.before = q.before /\ row.offered = q.offered
      /\ row.todo = q.todo \ {c} /\ row.current = c
      /\ row.view.donations = q.view.donations
      /\ row.view.challenge[c] = h
  BY <1>1, <1>4, ShowsRow DEF Live
<1>6. ASSUME q.kind = "page" PROVE Knows(row)
  <2>1. c = q.campaignId /\ q.offered \subseteq Matching(c)
    BY <1>1, <1>2, <1>6 DEF Good, Knows, HasChallenge
  <2>. QED
    BY <1>1, <1>3, <1>5, <1>6, <2>1, ShowsKnows
<1>7. Good(row)
  <2>1. pc = "keep" => h \in ChallengeRow
    BY <1>3 DEF Optional
  <2>. QED
    BY <1>1, <1>5, <1>6, <2>1 DEF Good, Placed
<1>. QED
  BY <1>1, <1>3, <1>4, <1>5, <1>7, MoveKeeps DEF Find

\* A request for a page that goes on with what it knows.
LEMMA GoesOn ==
    ASSUME NEW q \in RequestRow, Good(q), NEW pc,
           \/ q.pc = "keep" /\ pc = "match"
           \/ q.pc = "match" /\ q.todo = {} /\ q.kind = "page" /\ pc = "keepPage"
           \/ q.pc = "keepPage" /\ pc = "answered"
    PROVE  [q EXCEPT !.pc = pc] \in RequestRow /\ Good([q EXCEPT !.pc = pc])
<1>1. PICK row : row = [q EXCEPT !.pc = pc]
  OBVIOUS
<1>2. row \in RequestRow
  BY <1>1 DEF RequestRow, Live
<1>3. /\ row.pc = pc /\ row.kind = q.kind /\ row.campaignId = q.campaignId
      /\ row.top = q.top /\ row.recent = q.recent
      /\ row.before = q.before /\ row.offered = q.offered
      /\ row.todo = q.todo /\ row.current = q.current /\ row.view = q.view
  BY <1>1 DEF RequestRow
<1>4. ASSUME q.kind = "page" PROVE Knows(row)
  <2>1. Knows(q)
    BY <1>4 DEF Good
  <2>2. HasTop(row) /\ HasRecent(row) /\ HasAll(row)
    BY <1>3, <2>1 DEF Knows, HasTop, HasRecent, HasAll, Answering
  <2>3. HasChallenge(row)
    BY <1>3, <2>1 DEF Knows, HasChallenge
  <2>. QED
    BY <1>3, <2>1, <2>2, <2>3 DEF Knows
<1>5. Good(row)
  BY <1>3, <1>4 DEF Good, Placed
<1>. QED
  BY <1>1, <1>2, <1>5

\* The challenge that was found is cached.
LEMMA KeepKeeps == ASSUME IInv, NEW r, Keep(r) PROVE IInv'
<1>1. PICK q \in RequestRow :
          r \in DOMAIN request /\ q = request[r] /\ Good(q) /\ q.pc = "keep"
  BY RowAt DEF Keep
<1>2. PICK c \in Campaign, h \in ChallengeRow, k \in Category :
          c = q.current /\ h = q.view.challenge[c] /\ k = CategoryOf[c]
  BY <1>1, CampaignAssumption DEF Good, Placed
<1>3. matched' = Put(matched, k, h) /\ Step(r, [q EXCEPT !.pc = "match"])
      /\ UNCHANGED <<closeList, pages>>
  BY <1>1, <1>2 DEF Keep
<1>4. IsTable(matched', Category, ChallengeRow)
  BY <1>3 DEF IInv, TypeOK, IsTable, Put
<1>5. [q EXCEPT !.pc = "match"] \in RequestRow /\ Good([q EXCEPT !.pc = "match"])
  BY <1>1, GoesOn
<1>. QED
  BY <1>1, <1>3, <1>4, <1>5, StepKeeps DEF IInv, TypeOK

LEMMA FinishKeeps == ASSUME IInv, NEW r, Finish(r) PROVE IInv'
<1>1. PICK q \in RequestRow :
          r \in DOMAIN request /\ q = request[r] /\ Good(q) /\ q.pc = "match"
          /\ q.todo = {}
  BY RowAt DEF Finish
<1>2. PICK pc : pc = CASE q.kind = "page" -> "keepPage"
                       [] q.kind = "close" -> "keepList"
                       [] OTHER -> "answered"
  OBVIOUS
<1>3. \/ q.kind = "page" /\ pc = "keepPage"
      \/ q.kind # "page" /\ pc \in {"keepList", "answered"}
  BY <1>2
<1>4. Step(r, [q EXCEPT !.pc = pc]) /\ UNCHANGED caches
  BY <1>1, <1>2 DEF Finish
<1>5. [q EXCEPT !.pc = pc] \in RequestRow /\ Good([q EXCEPT !.pc = pc])
  BY <1>1, <1>3, GoesOn, OnlyMoves
<1>. QED
  BY <1>1, <1>4, <1>5, MoveKeeps

\* The page that is cached adds up donations of its campaign.
LEMMA KeepPageKeeps == ASSUME IInv, NEW r, KeepPage(r) PROVE IInv'
<1>1. PICK q \in RequestRow :
          r \in DOMAIN request /\ q = request[r] /\ Good(q) /\ q.pc = "keepPage"
  BY RowAt DEF KeepPage
<1>2. PICK c \in Campaign, D \in SUBSET Donation :
          c = q.campaignId /\ D = q.view.donations[c]
  BY <1>1 DEF Good, Placed, RequestRow, View
<1>3. /\ pages' = Put(pages, c, D)
      /\ Step(r, [q EXCEPT !.pc = "answered"])
      /\ UNCHANGED <<matched, closeList>>
  BY <1>1, <1>2 DEF KeepPage
<1>4. IsTable(pages', Campaign, SUBSET Donation)
  BY <1>3 DEF IInv, TypeOK, IsTable, Put
<1>5. [q EXCEPT !.pc = "answered"] \in RequestRow /\ Good([q EXCEPT !.pc = "answered"])
  BY <1>1, GoesOn
<1>. QED
  BY <1>1, <1>3, <1>4, <1>5, StepKeeps DEF IInv, TypeOK

LEMMA KeepListKeeps == ASSUME IInv, NEW r, KeepList(r) PROVE IInv'
<1>1. PICK q \in RequestRow :
          r \in DOMAIN request /\ q = request[r] /\ Good(q) /\ q.pc = "keepList"
  BY RowAt DEF KeepList
<1>2. /\ closeList' = [listed |-> q.listed, view |-> q.view]
      /\ Step(r, [q EXCEPT !.pc = "answered"])
      /\ UNCHANGED <<matched, pages>>
  BY <1>1 DEF KeepList
<1>3. q.listed \in SUBSET Campaign /\ q.view \in View
  BY <1>1 DEF RequestRow
<1>4. closeList' \in Optional([listed: SUBSET Campaign, view: View])
  BY <1>2, <1>3 DEF Optional
<1>5. [q EXCEPT !.pc = "answered"] \in RequestRow /\ Good([q EXCEPT !.pc = "answered"])
  <2>1. q.kind # "page"
    BY <1>1 DEF Good, Placed
  <2>. QED
    BY <1>1, <2>1, OnlyMoves
<1>. QED
  BY <1>1, <1>2, <1>4, <1>5, StepKeeps DEF IInv, TypeOK

LEMMA ServeKeeps == ASSUME IInv, NEW r, Serve(r) PROVE IInv'
BY ReadTopKeeps, ReadRecentKeeps, ReadCampaignKeeps, LookForListKeeps,
   ReadPreferenceKeeps, ReadListKeeps, LookUpKeeps, FindKeeps, KeepKeeps,
   FinishKeeps, KeepPageKeeps, KeepListKeeps DEF Serve

-----------------------------------------------------------------------------
(* Steps of others                                                         *)

\* Donations come in.
LEMMA StoreDonationKeeps ==
    ASSUME IInv, NEW c \in Campaign, NEW amt \in Amount, NEW t \in Time,
           StoreDonation(c, amt, t)
    PROVE  IInv'
<1>1. /\ IsTable(donation', Donation, DonationRow)
      /\ FinitelyStored'
      /\ \A k : DonationsTo(k) \subseteq DonationsTo(k)'
      /\ \A d \in DOMAIN donation :
             d \in DOMAIN donation' /\ donation'[d] = donation[d]
  BY StoreAdds DEF IInv
<1>2. UNCHANGED <<challenge, matched, closeList, pages, request>>
  BY DEF StoreDonation, caches
<1>3. ASSUME NEW r \in DOMAIN request' PROVE Good(request[r])'
  <2>1. PICK q : q = request[r]
    OBVIOUS
  <2>2. Good(q)
    BY <1>2, <2>1 DEF IInv
  <2>3. PICK k : k = q.campaignId
    OBVIOUS
  <2>4. DonationsTo(k) \subseteq DonationsTo(k)'
    BY <1>1
  <2>5. DonationsTo(q.campaignId) \subseteq DonationsTo(q.campaignId)'
    BY <2>3, <2>4
  <2>6. Good(q)'
    BY <1>1, <1>2, <2>2, <2>5, MoreStaysGood
  <2>. QED
    BY <1>2, <2>1, <2>6 DEF Good, Placed, Knows, HasTop, HasRecent, HasAll, HasChallenge
<1>. QED
  BY <1>1, <1>2, <1>3 DEF IInv, TypeOK

\* Challenges are created, changed and over.
LEMMA AdminKeeps == ASSUME IInv, Admin PROVE IInv'
<1>1. PICK h \in Challenge :
          \/ \E row \in Terms : CreateChallenge(h, row) \/ UpdateChallenge(h, row)
          \/ ChallengeEnds(h)
  BY DEF Admin
<1>t. IsTable(challenge, Challenge, ChallengeRow)
  BY DEF IInv, TypeOK
<1>2. ASSUME NEW row \in Terms, CreateChallenge(h, row) PROVE IInv'
  <2>1. PICK ch : ch = Put(challenge, h, row)
    OBVIOUS
  <2>2. ChallengesBecome(ch) /\ row \in ChallengeRow
    BY <1>2, <2>1, ChallengeAssumption DEF CreateChallenge
  <2>3. IsTable(ch, Challenge, ChallengeRow) /\ DOMAIN challenge \subseteq DOMAIN ch
    BY <1>t, <2>1, <2>2 DEF Put, IsTable
  <2>. QED
    BY <2>2, <2>3, ChallengesKeep
<1>3. ASSUME NEW row \in Terms, UpdateChallenge(h, row) PROVE IInv'
  <2>1. h \in DOMAIN challenge /\ challenge[h] \in ChallengeRow /\ row \in ChallengeRow
    BY <1>3, <1>t, ChallengeAssumption DEF UpdateChallenge, IsTable
  <2>2. PICK new : new = [row EXCEPT !.targetCampaignCategories =
              row.targetCampaignCategories
                  \cup challenge[h].targetCampaignCategories]
    OBVIOUS
  <2>3. new \in ChallengeRow
    BY <2>1, <2>2 DEF ChallengeRow
  <2>4. PICK ch : ch = [challenge EXCEPT ![h] = new]
    OBVIOUS
  <2>5. ChallengesBecome(ch)
    BY <1>3, <2>2, <2>4 DEF UpdateChallenge
  <2>6. IsTable(ch, Challenge, ChallengeRow) /\ DOMAIN challenge \subseteq DOMAIN ch
    BY <1>t, <2>1, <2>3, <2>4 DEF IsTable
  <2>. QED
    BY <2>5, <2>6, ChallengesKeep
<1>4. ASSUME ChallengeEnds(h) PROVE IInv'
  <2>1. h \in DOMAIN challenge /\ challenge[h] \in ChallengeRow
    BY <1>4, <1>t DEF ChallengeEnds, IsTable
  <2>2. PICK new : new = [challenge[h] EXCEPT !.isOpen = FALSE]
    OBVIOUS
  <2>3. new \in ChallengeRow
    BY <2>1, <2>2 DEF ChallengeRow
  <2>4. PICK ch : ch = [challenge EXCEPT ![h] = new]
    OBVIOUS
  <2>5. ChallengesBecome(ch)
    BY <1>4, <2>2, <2>4 DEF ChallengeEnds
  <2>6. IsTable(ch, Challenge, ChallengeRow) /\ DOMAIN challenge \subseteq DOMAIN ch
    BY <1>t, <2>1, <2>3, <2>4 DEF IsTable
  <2>. QED
    BY <2>5, <2>6, ChallengesKeep
<1>. QED
  BY <1>1, <1>2, <1>3, <1>4

\* What is known does not depend on the caches.
LEMMA CachesChangeNothing ==
    ASSUME IInv, UNCHANGED <<donation, challenge, request>>,
           IsTable(matched', Category, ChallengeRow),
           closeList' \in Optional([listed: SUBSET Campaign, view: View]),
           IsTable(pages', Campaign, SUBSET Donation)
    PROVE  IInv'
<1>1. ASSUME NEW r \in DOMAIN request' PROVE Good(request[r])'
  <2>1. PICK q : q = request[r]
    OBVIOUS
  <2>2. Good(q)
    BY <2>1 DEF IInv
  <2>3. Good(q)'
    BY <2>2, SameStaysGood
  <2>. QED
    BY <2>1, <2>3 DEF Good, Placed, Knows, HasTop, HasRecent, HasAll, HasChallenge
<1>. QED
  BY <1>1 DEF IInv, TypeOK, FinitelyStored

LEMMA ExpireKeeps == ASSUME IInv, Expire PROVE IInv'
<1>1. /\ IsTable(matched', Category, ChallengeRow)
      /\ closeList' \in Optional([listed: SUBSET Campaign, view: View])
      /\ IsTable(pages', Campaign, SUBSET Donation)
  BY DEF Expire, IInv, TypeOK, Optional, IsTable, Drop
<1>. QED
  BY <1>1, CachesChangeNothing DEF Expire, tables

-----------------------------------------------------------------------------
(* The theorems                                                            *)

\* At first nothing is stored, cached or asked.
LEMMA InitIInv == Init => IInv
<1>. SUFFICES ASSUME Init PROVE IInv
  OBVIOUS
<1>1. TypeOK
  BY DEF Init, TypeOK, Optional, IsTable, EmptyTable
<1>2. FinitelyStored
  BY FS_EmptySet DEF Init, FinitelyStored, IsTable, EmptyTable
<1>. QED
  BY <1>1, <1>2 DEF Init, IInv, IsTable, EmptyTable

\* Every step keeps the invariant.
LEMMA StepIInv == IInv /\ [Next]_vars => IInv'
<1>. SUFFICES ASSUME IInv, [Next]_vars PROVE IInv'
  OBVIOUS
<1>1. CASE UNCHANGED vars
  BY <1>1, CachesChangeNothing DEF vars, IInv, TypeOK
<1>. QED
  BY <1>1, StoreDonationKeeps, AdminKeeps, AskPageKeeps, AskListKeeps, ServeKeeps,
     RequestFailsKeeps, ExpireKeeps DEF Next

LEMMA Invariance == Spec => []IInv
BY InitIInv, StepIInv, PTL DEF Spec

\* Type correctness of the tables, the caches and the requests.
THEOREM PagesTypeCorrect == Spec => []TypeOK
<1>1. IInv => TypeOK
  BY DEF IInv
<1>. QED
  BY <1>1, Invariance, PTL

\* However donations come in between findOne's three queries, a page adds up
\* what it highlights, and highlights the top and the recent donations.
THEOREM PagesAddUp == Spec => []PageAddsUp
<1>1. IInv => PageAddsUp
  <2>. SUFFICES ASSUME IInv, NEW r \in AnsweredPages
                PROVE  LET q == request[r]
                           all == q.view.donations[q.campaignId] IN
                       /\ q.top \cup q.recent \cup q.before \subseteq all
                       /\ \A d \in q.before \ q.top :
                              /\ Cardinality(q.top) = Take
                              /\ \A e \in q.top : donation[e].amount >= donation[d].amount
                       /\ \A d \in q.before \ q.recent :
                              /\ Cardinality(q.recent) = Take
                              /\ \A e \in q.recent :
                                     donation[e].createdAt >= donation[d].createdAt
    BY DEF PageAddsUp
  <2>1. PICK q : q = request[r]
    OBVIOUS
  <2>2. Knows(q) /\ q.pc = "answered"
    BY <2>1 DEF IInv, Good, AnsweredPages
  <2>. QED
    BY <2>1, <2>2 DEF Knows, HasTop, HasRecent, HasAll, Answering
<1>. QED
  BY <1>1, Invariance, PTL

\* However challenges change and cached ones expire while a page is put
\* together, a challenge that is open all the while is not answered by none.
THEOREM OpenChallengesAreShown == Spec => []OpenChallengeIsShown
<1>1. IInv => OpenChallengeIsShown
  <2>. SUFFICES ASSUME IInv, NEW r \in AnsweredPages, request[r].offered # {}
                PROVE  request[r].view.challenge[request[r].campaignId] # None
    BY DEF OpenChallengeIsShown
  <2>1. PICK q : q = request[r]
    OBVIOUS
  <2>2. Knows(q) /\ q.pc = "answered" /\ q.offered # {}
    BY <2>1 DEF IInv, Good, AnsweredPages
  <2>. QED
    BY <2>1, <2>2 DEF Knows, HasChallenge
<1>. QED
  BY <1>1, Invariance, PTL

-----------------------------------------------------------------------------
(***************************************************************************)
(* The other cache of campaigns, of users' favourites: the proofs about    *)
(* Favourites, for any number of users, campaigns and requests.            *)
(***************************************************************************)
CONSTANT User
VARIABLES favourites, cache, asking, was, added

F == INSTANCE Favourites WITH request <- asking

\* The table lemmas, of the tables of Favourites.
LEMMA FavouritesPut ==
    ASSUME NEW Key, NEW Row, NEW t, F!IsTable(t, Key, Row),
           NEW k \in Key, NEW v \in Row
    PROVE  F!IsTable(F!Put(t, k, v), Key, Row)
BY DEF F!IsTable, F!Put

LEMMA FavouritesUpdate ==
    ASSUME NEW Key, NEW Row, NEW t, F!IsTable(t, Key, Row),
           NEW k \in DOMAIN t, NEW v \in Row
    PROVE  F!IsTable([t EXCEPT ![k] = v], Key, Row)
BY DEF F!IsTable

LEMMA FavouritesDrop ==
    ASSUME NEW Key, NEW Row, NEW t, F!IsTable(t, Key, Row), NEW k
    PROVE  F!IsTable(F!Drop(t, k), Key, Row)
BY DEF F!IsTable, F!Drop

LEMMA FavouritesNewKey ==
    ASSUME NEW Key, NEW t, F!HasRoom(Key, t)
    PROVE  F!NewKey(Key, t) \in Key /\ F!NewKey(Key, t) \notin DOMAIN t
BY DEF F!NewKey, F!HasRoom

LEMMA FavouritesEmptyTable ==
    ASSUME NEW Key, NEW Row
    PROVE  F!IsTable(F!EmptyTable, Key, Row) /\ DOMAIN F!EmptyTable = {}
BY DEF F!IsTable, F!EmptyTable

(* The inductive invariant                                                 *)

\* The history holds each user's present list.
PresentIsPast == \A u \in User : favourites[u] \in was[u]

FavouritesInv == F!TypeOK /\ F!ListsAreTheUsers /\ PresentIsPast

\* At first nobody has a favourite, and nothing is cached or asked.
LEMMA FavouritesInit == F!Init => FavouritesInv
<1>. SUFFICES ASSUME F!Init PROVE FavouritesInv
  OBVIOUS
<1>1. F!TypeOK
  BY FavouritesEmptyTable DEF F!Init, F!TypeOK
<1>2. QED
  BY <1>1, FavouritesEmptyTable
     DEF F!Init, FavouritesInv, F!ListsAreTheUsers, PresentIsPast

-----------------------------------------------------------------------------
(* Requests                                                                *)

\* A request that starts adds one row, under a key that was free.
LEMMA FavouritesStartAdds ==
    ASSUME F!TypeOK, NEW pc \in F!Step, NEW u \in User, NEW data \in SUBSET Campaign,
           F!Start(pc, u, data)
    PROVE  /\ F!IsTable(asking', Request, F!RequestRow)
           /\ \A r \in DOMAIN asking' :
                  \/ r \in DOMAIN asking /\ asking'[r] = asking[r]
                  \/ asking'[r] = [pc |-> pc, userId |-> u, data |-> data]
<1>1. [pc |-> pc, userId |-> u, data |-> data] \in F!RequestRow
  BY DEF F!RequestRow
<1>2. F!NewKey(Request, asking) \in Request
  BY FavouritesNewKey DEF F!Start
<1>. QED
  BY <1>1, <1>2, FavouritesPut DEF F!Start, F!TypeOK, F!Put

\* A request that moves keeps its user; the others stay as they are.
LEMMA FavouritesMoveToMoves ==
    ASSUME F!TypeOK, NEW r \in DOMAIN asking, NEW pc \in F!Step,
           NEW data \in SUBSET Campaign, F!MoveTo(r, pc, data)
    PROVE  /\ F!IsTable(asking', Request, F!RequestRow)
           /\ DOMAIN asking' = DOMAIN asking
           /\ asking'[r].pc = pc
           /\ asking'[r].userId = asking[r].userId
           /\ asking'[r].data = data
           /\ \A q \in DOMAIN asking \ {r} : asking'[q] = asking[q]
<1>. DEFINE row == [asking[r] EXCEPT !.pc = pc, !.data = data]
<1>1. asking[r] \in F!RequestRow
  BY DEF F!TypeOK, F!IsTable
<1>2. asking' = [asking EXCEPT ![r] = row]
  BY DEF F!MoveTo, F!TypeOK, F!IsTable
<1>3. /\ row \in F!RequestRow /\ row.pc = pc
      /\ row.userId = asking[r].userId /\ row.data = data
  BY <1>1 DEF F!RequestRow
<1>. HIDE DEF row
<1>4. F!IsTable(asking', Request, F!RequestRow)
  BY <1>2, <1>3, FavouritesUpdate DEF F!TypeOK
<1>5. DOMAIN asking' = DOMAIN asking
  BY <1>2
<1>. QED
  BY <1>2, <1>3, <1>4, <1>5

\* A request that ends takes its row with it and leaves the others.
LEMMA FavouritesEndDrops ==
    ASSUME F!TypeOK, NEW r, F!End(r)
    PROVE  /\ F!IsTable(asking', Request, F!RequestRow)
           /\ DOMAIN asking' \subseteq DOMAIN asking
           /\ \A q \in DOMAIN asking' : asking'[q] = asking[q]
BY FavouritesDrop DEF F!End, F!TypeOK, F!Drop

\* What a request at some step is.
LEMMA FavouritesRowType ==
    ASSUME F!TypeOK, NEW r, NEW pc, F!At(r, pc)
    PROVE  /\ r \in DOMAIN asking
           /\ asking[r].pc = pc
           /\ asking[r].userId \in User
           /\ asking[r].data \in SUBSET Campaign
BY DEF F!TypeOK, F!IsTable, F!At, F!RequestRow

\* Requests that move are still right about lists, if the one that moved is.
LEMMA FavouritesMoveKeepsLists ==
    ASSUME F!TypeOK, F!ListsAreTheUsers, NEW r \in DOMAIN asking, NEW pc \in F!Step,
           NEW data \in SUBSET Campaign, F!MoveTo(r, pc, data), UNCHANGED was,
           pc \in {"fill", "answer"} => data \in was[asking[r].userId]
    PROVE  /\ F!IsTable(asking', Request, F!RequestRow)
           /\ \A q \in DOMAIN asking' :
                  asking'[q].pc \in {"fill", "answer"} =>
                      asking'[q].data \in was'[asking'[q].userId]
<1>1. /\ F!IsTable(asking', Request, F!RequestRow)
      /\ DOMAIN asking' = DOMAIN asking
      /\ asking'[r].pc = pc
      /\ asking'[r].userId = asking[r].userId
      /\ asking'[r].data = data
      /\ \A q \in DOMAIN asking \ {r} : asking'[q] = asking[q]
  BY FavouritesMoveToMoves
<1>2. ASSUME NEW q \in DOMAIN asking', asking'[q].pc \in {"fill", "answer"}
      PROVE  asking'[q].data \in was'[asking'[q].userId]
  <2>1. CASE q = r
    BY <1>1, <1>2, <2>1
  <2>2. CASE q # r
    BY <1>1, <1>2, <2>2 DEF F!ListsAreTheUsers
  <2>. QED
    BY <2>1, <2>2
<1>. QED
  BY <1>1, <1>2

-----------------------------------------------------------------------------
(* Every step keeps the invariant                                          *)

\* A step of a user or a request, or of Redis, keeps every list a list its
\* user has had.
LEMMA FavouritesStep == FavouritesInv /\ [F!Next]_(F!vars) => FavouritesInv'
<1>. SUFFICES ASSUME FavouritesInv, [F!Next]_(F!vars) PROVE FavouritesInv'
  OBVIOUS
<1>t. F!TypeOK /\ F!ListsAreTheUsers /\ PresentIsPast
  BY DEF FavouritesInv
<1>1. ASSUME NEW u \in User, NEW c \in Campaign, F!AskToCreate(u, c)
      PROVE  FavouritesInv'
  <2>1. /\ F!IsTable(asking', Request, F!RequestRow)
        /\ \A r \in DOMAIN asking' :
               \/ r \in DOMAIN asking /\ asking'[r] = asking[r]
               \/ asking'[r] = [pc |-> "insert", userId |-> u, data |-> {c}]
    BY <1>1, <1>t, FavouritesStartAdds DEF F!AskToCreate, F!Step
  <2>. QED
    BY <1>1, <1>t, <2>1
       DEF F!AskToCreate, FavouritesInv, F!TypeOK, F!ListsAreTheUsers, PresentIsPast
<1>2. ASSUME NEW u \in User, F!AskToFind(u)
      PROVE  FavouritesInv'
  <2>1. /\ F!IsTable(asking', Request, F!RequestRow)
        /\ \A r \in DOMAIN asking' :
               \/ r \in DOMAIN asking /\ asking'[r] = asking[r]
               \/ asking'[r] = [pc |-> "look", userId |-> u, data |-> {}]
    BY <1>2, <1>t, FavouritesStartAdds DEF F!AskToFind, F!Step
  <2>. QED
    BY <1>2, <1>t, <2>1
       DEF F!AskToFind, FavouritesInv, F!TypeOK, F!ListsAreTheUsers, PresentIsPast
<1>3. ASSUME NEW u \in User, NEW c \in Campaign, F!Remove(u, c)
      PROVE  FavouritesInv'
  BY <1>3, <1>t
     DEF F!Remove, F!Now, FavouritesInv, F!TypeOK, F!ListsAreTheUsers, PresentIsPast
<1>4. ASSUME NEW r \in Request, F!Insert(r)
      PROVE  FavouritesInv'
  <2>. DEFINE u == asking[r].userId
              new == asking[r].data
  <2>1. r \in DOMAIN asking /\ u \in User /\ new \in SUBSET Campaign
    BY <1>4, <1>t, FavouritesRowType DEF F!Insert
  <2>2. CASE new \subseteq favourites[u]
    <3>1. F!End(r) /\ UNCHANGED <<favourites, was, cache, added>>
      BY <1>4, <2>2 DEF F!Insert
    <3>. QED
      BY <3>1, <1>t, FavouritesEndDrops
         DEF FavouritesInv, F!TypeOK, F!ListsAreTheUsers, PresentIsPast
  <2>3. CASE ~ (new \subseteq favourites[u])
    <3>1. /\ F!Now(u, favourites[u] \cup new)
          /\ F!MoveTo(r, "invalidate", new)
          /\ UNCHANGED <<cache, added>>
      BY <1>4, <2>3 DEF F!Insert
    <3>. HIDE DEF u, new
    <3>2. /\ favourites' \in [User -> SUBSET Campaign]
          /\ was' \in [User -> SUBSET SUBSET Campaign]
          /\ PresentIsPast'
          /\ \A x \in User : was[x] \subseteq was'[x]
      BY <3>1, <1>t, <2>1 DEF F!Now, F!TypeOK, PresentIsPast
    <3>3. /\ F!IsTable(asking', Request, F!RequestRow)
          /\ DOMAIN asking' = DOMAIN asking
          /\ asking'[r].pc = "invalidate"
          /\ \A q \in DOMAIN asking \ {r} : asking'[q] = asking[q]
      <4>1. "invalidate" \in F!Step
        BY DEF F!Step
      <4>2. F!MoveTo(r, "invalidate", new)
        BY <3>1
      <4>3. /\ F!IsTable(asking', Request, F!RequestRow)
            /\ DOMAIN asking' = DOMAIN asking
            /\ asking'[r].pc = "invalidate"
            /\ \A q \in DOMAIN asking \ {r} : asking'[q] = asking[q]
        BY <1>t, <2>1, <4>1, <4>2, FavouritesMoveToMoves
      <4>. QED
        BY <4>3
    <3>4. \A q \in DOMAIN asking : asking[q].userId \in User
      BY <1>t DEF F!TypeOK, F!IsTable, F!RequestRow
    <3>. QED
      BY <3>1, <3>2, <3>3, <3>4, <1>t
         DEF FavouritesInv, F!TypeOK, F!IsTable, F!ListsAreTheUsers
  <2>. QED
    BY <2>2, <2>3
<1>5. ASSUME NEW r \in Request, F!Invalidate(r)
      PROVE  FavouritesInv'
  <2>1. F!IsTable(cache', User, SUBSET Campaign)
    BY <1>5, <1>t, FavouritesDrop DEF F!Invalidate, F!TypeOK
  <2>2. added' \in [User -> SUBSET Campaign]
    BY <1>5, <1>t, FavouritesRowType DEF F!Invalidate, F!TypeOK
  <2>. QED
    BY <1>5, <1>t, <2>1, <2>2, FavouritesEndDrops
       DEF F!Invalidate, F!Drop, FavouritesInv, F!TypeOK, F!ListsAreTheUsers, PresentIsPast
<1>6. ASSUME NEW r \in Request, F!Look(r)
      PROVE  FavouritesInv'
  <2>. DEFINE u == asking[r].userId
  <2>1. r \in DOMAIN asking /\ u \in User
    BY <1>6, <1>t, FavouritesRowType DEF F!Look
  <2>2. CASE u \in DOMAIN cache
    <3>1. F!MoveTo(r, "answer", cache[u])
      BY <1>6, <2>2 DEF F!Look
    <3>2. cache[u] \in SUBSET Campaign /\ cache[u] \in was[u]
      BY <1>t, <2>2 DEF F!TypeOK, F!IsTable, F!ListsAreTheUsers
    <3>4. "answer" \in F!Step
      BY DEF F!Step
    <3>5. UNCHANGED <<favourites, cache, was, added>>
      BY <1>6 DEF F!Look
    <3>6. /\ F!IsTable(asking', Request, F!RequestRow)
          /\ \A q \in DOMAIN asking' :
                 asking'[q].pc \in {"fill", "answer"} =>
                     asking'[q].data \in was'[asking'[q].userId]
      BY <1>t, <2>1, <3>1, <3>2, <3>4, <3>5, FavouritesMoveKeepsLists
    <3>. QED
      BY <1>t, <3>5, <3>6 DEF FavouritesInv, F!TypeOK, F!ListsAreTheUsers, PresentIsPast
  <2>3. CASE u \notin DOMAIN cache
    <3>1. F!MoveTo(r, "query", {})
      BY <1>6, <2>3 DEF F!Look
    <3>4. "query" \in F!Step
      BY DEF F!Step
    <3>5. UNCHANGED <<favourites, cache, was, added>>
      BY <1>6 DEF F!Look
    <3>6. /\ F!IsTable(asking', Request, F!RequestRow)
          /\ \A q \in DOMAIN asking' :
                 asking'[q].pc \in {"fill", "answer"} =>
                     asking'[q].data \in was'[asking'[q].userId]
      BY <1>t, <2>1, <3>1, <3>4, <3>5, FavouritesMoveKeepsLists
    <3>. QED
      BY <1>t, <3>5, <3>6 DEF FavouritesInv, F!TypeOK, F!ListsAreTheUsers, PresentIsPast
  <2>. QED
    BY <2>2, <2>3
<1>7. ASSUME NEW r \in Request, F!Query(r)
      PROVE  FavouritesInv'
  <2>1. r \in DOMAIN asking /\ asking[r].userId \in User
    BY <1>7, <1>t, FavouritesRowType DEF F!Query
  <2>2. /\ favourites[asking[r].userId] \in SUBSET Campaign
        /\ favourites[asking[r].userId] \in was[asking[r].userId]
    BY <1>t, <2>1 DEF F!TypeOK, PresentIsPast
  <2>3. /\ F!MoveTo(r, "fill", favourites[asking[r].userId])
        /\ UNCHANGED <<favourites, cache, was, added>>
    BY <1>7 DEF F!Query
  <2>4. "fill" \in F!Step
    BY DEF F!Step
  <2>5. /\ F!IsTable(asking', Request, F!RequestRow)
        /\ \A q \in DOMAIN asking' :
               asking'[q].pc \in {"fill", "answer"} =>
                   asking'[q].data \in was'[asking'[q].userId]
    BY <1>t, <2>1, <2>2, <2>3, <2>4, FavouritesMoveKeepsLists
  <2>. QED
    BY <1>t, <2>3, <2>5 DEF FavouritesInv, F!TypeOK, F!ListsAreTheUsers, PresentIsPast
<1>8. ASSUME NEW r \in Request, F!Fill(r)
      PROVE  FavouritesInv'
  <2>1. /\ r \in DOMAIN asking /\ asking[r].pc = "fill"
        /\ asking[r].userId \in User /\ asking[r].data \in SUBSET Campaign
    BY <1>8, <1>t, FavouritesRowType DEF F!Fill
  <2>2. asking[r].data \in was[asking[r].userId]
    BY <1>t, <2>1 DEF F!ListsAreTheUsers
  <2>3. F!IsTable(cache', User, SUBSET Campaign)
    BY <1>8, <1>t, <2>1, FavouritesPut DEF F!Fill, F!TypeOK
  <2>4. \A u \in DOMAIN cache' : cache'[u] \in was[u]
    BY <1>8, <1>t, <2>1, <2>2 DEF F!Fill, F!Put, F!ListsAreTheUsers
  <2>5. F!MoveTo(r, "answer", asking[r].data) /\ UNCHANGED <<favourites, was, added>>
    BY <1>8 DEF F!Fill
  <2>6. "answer" \in F!Step
    BY DEF F!Step
  <2>7. /\ F!IsTable(asking', Request, F!RequestRow)
        /\ \A q \in DOMAIN asking' :
               asking'[q].pc \in {"fill", "answer"} =>
                   asking'[q].data \in was'[asking'[q].userId]
    BY <1>t, <2>1, <2>2, <2>5, <2>6, FavouritesMoveKeepsLists
  <2>. QED
    BY <1>t, <2>3, <2>4, <2>5, <2>7
       DEF FavouritesInv, F!TypeOK, F!ListsAreTheUsers, PresentIsPast
<1>9. ASSUME NEW r \in Request, F!Answer(r) \/ F!RequestFails(r)
      PROVE  FavouritesInv'
  BY <1>9, <1>t, FavouritesEndDrops
     DEF F!Answer, F!RequestFails, FavouritesInv, F!TypeOK, F!ListsAreTheUsers, PresentIsPast
<1>10. ASSUME NEW u \in User, F!Expire(u)
       PROVE  FavouritesInv'
  <2>1. F!IsTable(cache', User, SUBSET Campaign)
    BY <1>10, <1>t, FavouritesDrop DEF F!Expire, F!TypeOK
  <2>. QED
    BY <1>10, <1>t, <2>1
       DEF F!Expire, F!Drop, FavouritesInv, F!TypeOK, F!ListsAreTheUsers, PresentIsPast
<1>11. CASE UNCHANGED F!vars
  BY <1>11, <1>t DEF F!vars, FavouritesInv, F!TypeOK, F!ListsAreTheUsers, PresentIsPast
<1>. QED
  BY <1>1, <1>2, <1>3, <1>4, <1>5, <1>6, <1>7, <1>8, <1>9, <1>10, <1>11
     DEF F!Next, F!Ask, F!Continue

\* The invariant holds throughout every behavior.
LEMMA FavouritesInvariance == F!Spec => []FavouritesInv
BY FavouritesInit, FavouritesStep, PTL DEF F!Spec

-----------------------------------------------------------------------------
(* Results                                                                 *)

\* The tables, the cache and the requests stay what they are declared to be.
THEOREM FavouritesTypeCorrect == F!Spec => []F!TypeOK
<1>1. FavouritesInv => F!TypeOK
  BY DEF FavouritesInv
<1>. QED
  BY <1>1, FavouritesInvariance, PTL

\* What findAllByUserId answers, and what it caches, is a list that the user
\* it is for has had.
THEOREM ListsAreHad == F!Spec => []F!ListsAreTheUsers
<1>1. FavouritesInv => F!ListsAreTheUsers
  BY DEF FavouritesInv
<1>. QED
  BY <1>1, FavouritesInvariance, PTL

\* A step by which a cached list comes to lack an answered favourite is a find
\* that fills the cache with what it had read before the insert.
LEMMA HidingStep ==
    ASSUME F!TypeOK, [F!Next]_(F!vars), NEW u \in User, ~ F!Misses(u), F!Misses(u)'
    PROVE  \E r \in Request : /\ F!At(r, "fill") /\ asking[r].userId = u
                              /\ cache'[u] = asking[r].data
                              /\ ~ (added[u] \subseteq asking[r].data)
<1>1. ASSUME UNCHANGED <<cache, added>>
      PROVE  FALSE
  BY <1>1 DEF F!Misses
<1>2. ASSUME NEW x \in User, NEW c \in Campaign, F!Remove(x, c)
      PROVE  FALSE
  BY <1>2 DEF F!Remove, F!Misses, F!TypeOK
<1>3. ASSUME NEW r \in Request, F!Invalidate(r)
      PROVE  FALSE
  <2>1. asking[r].userId # u => cache' = F!Drop(cache, asking[r].userId)
                                 /\ added'[u] = added[u]
    BY <1>3 DEF F!Invalidate, F!TypeOK
  <2>. QED
    BY <1>3, <2>1 DEF F!Invalidate, F!Misses, F!Drop
<1>4. ASSUME NEW x \in User, F!Expire(x)
      PROVE  FALSE
  BY <1>4 DEF F!Expire, F!Misses, F!Drop
<1>5. ASSUME NEW r \in Request, F!Fill(r)
      PROVE  /\ F!At(r, "fill") /\ asking[r].userId = u
             /\ cache'[u] = asking[r].data
             /\ ~ (added[u] \subseteq asking[r].data)
  BY <1>5 DEF F!Fill, F!Misses, F!Put
<1>. QED
  BY <1>1, <1>2, <1>3, <1>4, <1>5
     DEF F!Next, F!Ask, F!Continue, F!vars, F!AskToCreate, F!AskToFind, F!Insert,
         F!Look, F!Query, F!Answer, F!RequestFails

\* In every behavior, only an old read hides a favourite.
THEOREM OnlyOldReadsHide == F!Spec => F!OnlyAnOldReadHidesAFavourite
<1>1. F!TypeOK /\ [F!Next]_(F!vars) =>
        [\A u \in User :
            (~ F!Misses(u) /\ F!Misses(u)') =>
                \E r \in Request :
                    /\ F!At(r, "fill") /\ asking[r].userId = u
                    /\ cache'[u] = asking[r].data
                    /\ ~ (added[u] \subseteq asking[r].data)]_(F!vars)
  BY HidingStep
<1>. QED
  BY <1>1, FavouritesTypeCorrect, PTL DEF F!Spec, F!OnlyAnOldReadHidesAFavourite
=============================================================================
