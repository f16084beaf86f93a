------------------------ MODULE ConnectAccountsProofs ------------------------
(***************************************************************************)
(* Proofs about ConnectAccounts, for any number of users, organizations,   *)
(* collaborations, accounts and requests.                                  *)
(***************************************************************************)
EXTENDS ConnectAccounts, TLAPS

-----------------------------------------------------------------------------
(* The inductive invariant                                                 *)

\* Stripe has said of some account made for o that it is able to be paid.
Able(o) == \E a \in AccountsOf(o) : [account |-> a, status |-> "able"] \in said

\* Stripe only speaks of accounts it has made.
SaidOfAccounts == \A e \in said : e.account \in DOMAIN account

\* What a request that waits at some step has found out before.
KnowsItsAccount(r) ==
    /\ request[r].pc \in {"create", "upsert", "accept"} =>
           request[r].organizationId \in Organization
    /\ request[r].pc = "save" =>
           /\ request[r].account \in DOMAIN account
           /\ account[request[r].account].userId = request[r].userId
           /\ account[request[r].account].organizationId = None
    /\ request[r].pc = "upsert" =>
           /\ request[r].account \in DOMAIN account
           /\ account[request[r].account].organizationId
                  = request[r].organizationId
    /\ request[r].pc = "accept" =>
           /\ request[r].account \in Account
           /\ request[r].collaboration \in Collaboration
           /\ Able(request[r].organizationId)

RequestsKnow == \A r \in DOMAIN request : KnowsItsAccount(r)

\* A row that shows the status able shows it for some account of its
\* organization, though not always for the account whose id it holds.
AbleRowsWereAble ==
    \A o \in DOMAIN organizationBankAccount :
        organizationBankAccount[o].status = "able" => Able(o)

IInv ==
    /\ TypeOK
    /\ SaidOfAccounts
    /\ RequestsKnow
    /\ RowsNameTheirOwners
    /\ StatusWasSaid
    /\ AbleRowsWereAble
    /\ AcceptedWasAble

\* At first there are no accounts, no rows and no requests.
LEMMA InitIInv == Init => IInv
<1>. SUFFICES ASSUME Init PROVE IInv
  OBVIOUS
<1>1. TypeOK
  BY DEF Init, TypeOK, Optional, IsTable, EmptyTable
<1>2. QED
  BY <1>1
     DEF Init, IInv, SaidOfAccounts, RequestsKnow, RowsNameTheirOwners,
         StatusWasSaid, AbleRowsWereAble, AcceptedWasAble, IsTable, EmptyTable

-----------------------------------------------------------------------------
(* Requests                                                                *)

\* A request that starts adds one row, under a key that was free.
LEMMA StartAdds ==
    ASSUME TypeOK, NEW pc \in Step, NEW u \in User,
           NEW o \in Optional(Organization), NEW a \in Optional(Account),
           NEW c \in Optional(Collaboration), Start(pc, u, o, a, c)
    PROVE  /\ IsTable(request', Request, RequestRow)
           /\ \A r \in DOMAIN request' :
                  \/ r \in DOMAIN request /\ request'[r] = request[r]
                  \/ request'[r] = [pc |-> pc, userId |-> u,
                                    organizationId |-> o, account |-> a,
                                    collaboration |-> c]
<1>. DEFINE row == [pc |-> pc, userId |-> u, organizationId |-> o,
                    account |-> a, collaboration |-> c]
<1>1. row \in RequestRow
  BY DEF RequestRow
<1>2. NewKey(Request, request) \in Request
  BY DEF Start, NewKey, HasRoom
<1>. QED
  BY <1>1, <1>2 DEF Start, TypeOK, Put, IsTable

\* A request that moves keeps what it knows; the others stay as they are.
LEMMA MoveToMoves ==
    ASSUME TypeOK, NEW r \in DOMAIN request, NEW pc \in Step, MoveTo(r, pc)
    PROVE  /\ IsTable(request', Request, RequestRow)
           /\ DOMAIN request' = DOMAIN request
           /\ request'[r].pc = pc
           /\ \A q \in DOMAIN request \ {r} : request'[q] = request[q]
<1>. DEFINE row == [request[r] EXCEPT !.pc = pc]
<1>1. request[r] \in RequestRow
  BY DEF TypeOK, IsTable
<1>2. request' = [request EXCEPT ![r] = row]
  BY DEF MoveTo, TypeOK, IsTable
<1>3. row \in RequestRow /\ row.pc = pc
  BY <1>1 DEF RequestRow
<1>. HIDE DEF row
<1>4. IsTable(request', Request, RequestRow)
  BY <1>2, <1>3 DEF TypeOK, IsTable
<1>5. DOMAIN request' = DOMAIN request
  BY <1>2
<1>. QED
  BY <1>2, <1>3, <1>4, <1>5

\* A request that ends takes its row with it and leaves the others.
LEMMA EndDrops ==
    ASSUME TypeOK, NEW r, End(r)
    PROVE  /\ IsTable(request', Request, RequestRow)
           /\ DOMAIN request' \subseteq DOMAIN request
           /\ \A q \in DOMAIN request' : request'[q] = request[q]
BY DEF End, TypeOK, Drop, IsTable

\* What a request at some step is.
LEMMA RowType ==
    ASSUME TypeOK, RequestsKnow, NEW r, NEW pc, At(r, pc)
    PROVE  /\ r \in DOMAIN request
           /\ request[r].pc = pc
           /\ request[r].userId \in User
           /\ request[r].organizationId \in Optional(Organization)
           /\ request[r].account \in Optional(Account)
           /\ KnowsItsAccount(r)
BY DEF TypeOK, IsTable, At, RequestRow, RequestsKnow

-----------------------------------------------------------------------------
(* Accounts are made once and for all, and words are not taken back        *)

Grows ==
    /\ \A a \in DOMAIN account : a \in DOMAIN account' /\ account'[a] = account[a]
    /\ said \subseteq said'

\* A new account leaves the others.
LEMMA NewAccountGrows ==
    ASSUME TypeOK, HasRoom(Account, account), NEW v \in AccountRow,
           account' = Put(account, NewKey(Account, account), v),
           said' = said
    PROVE  /\ Grows
           /\ IsTable(account', Account, AccountRow)
           /\ NewKey(Account, account) \in DOMAIN account'
           /\ NewKey(Account, account) \in Account
           /\ account'[NewKey(Account, account)] = v
<1>1. /\ NewKey(Account, account) \in Account
      /\ NewKey(Account, account) \notin DOMAIN account
  BY DEF NewKey, HasRoom
<1>2. IsTable(account', Account, AccountRow)
  BY <1>1 DEF TypeOK, IsTable, Put
<1>. QED
  BY <1>1, <1>2 DEF Grows, Put

\* What was able, known and said of accounts before stays so.
LEMMA GrowthKeeps ==
    ASSUME Grows
    PROVE  /\ \A o : Able(o) => Able(o)'
           /\ SaidOfAccounts /\ said' = said => SaidOfAccounts'
BY DEF Grows, Able, AccountsOf, SaidOfAccounts

\* A request whose row stays goes on knowing its account.
LEMMA KnowledgeStays ==
    ASSUME Grows, NEW r \in DOMAIN request, KnowsItsAccount(r),
           request'[r] = request[r]
    PROVE  KnowsItsAccount(r)'
<1>. DEFINE o == request[r].organizationId
<1>1. Able(o) => \E a \in DOMAIN account' :
                    /\ account'[a].organizationId = o
                    /\ [account |-> a, status |-> "able"] \in said'
  BY DEF Grows, Able, AccountsOf
<1>2. Able(o) => Able(o)'
  BY <1>1 DEF Able, AccountsOf
<1>3. CASE request[r].pc = "accept"
  BY <1>2, <1>3 DEF KnowsItsAccount
<1>4. CASE request[r].pc # "accept"
  BY <1>4 DEF Grows, KnowsItsAccount
<1>. QED
  BY <1>3, <1>4

\* If nothing is done to the rows, they stay right while accounts grow.
LEMMA RowsStay ==
    ASSUME Grows, UNCHANGED bankVars,
           RowsNameTheirOwners, StatusWasSaid, AbleRowsWereAble
    PROVE  RowsNameTheirOwners' /\ StatusWasSaid' /\ AbleRowsWereAble'
<1>1. RowsNameTheirOwners'
  BY DEF Grows, bankVars, RowsNameTheirOwners
<1>2. StatusWasSaid'
  BY DEF Grows, bankVars, StatusWasSaid
<1>3. \A o : Able(o) => Able(o)'
  BY GrowthKeeps
<1>4. AbleRowsWereAble'
  BY <1>3 DEF bankVars, AbleRowsWereAble
<1>. QED
  BY <1>1, <1>2, <1>4

\* So do collaborations.
LEMMA CollaborationsStay ==
    ASSUME Grows, UNCHANGED collaboration, AcceptedWasAble
    PROVE  AcceptedWasAble'
<1>1. \A o : Able(o) => Able(o)'
  BY GrowthKeeps
<1>. QED
  BY <1>1 DEF AcceptedWasAble, Able

\* A step that ends a request and does nothing else keeps the invariant.
LEMMA EndKeeps ==
    ASSUME IInv, NEW r, End(r), UNCHANGED <<stripeVars, memberVars, bankVars, acceptVars>>
    PROVE  IInv'
<1>1. Grows
  BY DEF Grows, stripeVars
<1>2. /\ IsTable(request', Request, RequestRow)
      /\ DOMAIN request' \subseteq DOMAIN request
      /\ \A q \in DOMAIN request' : request'[q] = request[q]
  BY EndDrops DEF IInv
<1>3. RequestsKnow'
  BY <1>1, <1>2, KnowledgeStays DEF IInv, RequestsKnow
<1>4. TypeOK'
  BY <1>2 DEF IInv, TypeOK, stripeVars, memberVars, bankVars, acceptVars
<1>5. SaidOfAccounts'
  BY DEF IInv, SaidOfAccounts, stripeVars
<1>6. RowsNameTheirOwners' /\ StatusWasSaid' /\ AbleRowsWereAble'
  BY <1>1, RowsStay DEF IInv
<1>7. AcceptedWasAble'
  BY <1>1, CollaborationsStay DEF IInv, acceptVars
<1>. QED
  BY <1>3, <1>4, <1>5, <1>6, <1>7 DEF IInv

\* Requests that stay, and new ones that know what their step needs, know it.
LEMMA RequestsGoOn ==
    ASSUME RequestsKnow, Grows,
           \A r \in DOMAIN request' :
               \/ r \in DOMAIN request /\ request'[r] = request[r]
               \/ KnowsItsAccount(r)'
    PROVE  RequestsKnow'
<1>. SUFFICES ASSUME NEW r \in DOMAIN request' PROVE KnowsItsAccount(r)'
  BY DEF RequestsKnow
<1>1. CASE r \in DOMAIN request /\ request'[r] = request[r]
  BY <1>1, KnowledgeStays DEF RequestsKnow
<1>. QED
  BY <1>1

-----------------------------------------------------------------------------
(* One lemma for each action                                               *)

\* The new account is the user's, and the request that made it knows so.
LEMMA CreateConnectAccountKeeps ==
    ASSUME IInv, NEW u \in User, CreateConnectAccount(u)
    PROVE  IInv'
<1>. DEFINE a == NewKey(Account, account)
            row == [pc |-> "save", userId |-> u, organizationId |-> None,
                    account |-> a, collaboration |-> None]
<1>1. /\ Grows
      /\ IsTable(account', Account, AccountRow)
      /\ a \in DOMAIN account'
      /\ a \in Account
      /\ account'[a] = [userId |-> u, organizationId |-> None]
  <2>1. [userId |-> u, organizationId |-> None] \in AccountRow
    BY DEF AccountRow, Optional
  <2>. QED
    BY <2>1, NewAccountGrows DEF CreateConnectAccount, IInv
<1>. HIDE DEF a
<1>2. Start("save", u, None, a, None)
  BY DEF CreateConnectAccount, a
<1>3. /\ IsTable(request', Request, RequestRow)
      /\ \A r \in DOMAIN request' :
             \/ r \in DOMAIN request /\ request'[r] = request[r]
             \/ request'[r] = row
  BY <1>1, <1>2, StartAdds DEF IInv, Step, Optional
<1>4. RequestsKnow'
  <2>1. ASSUME NEW r \in DOMAIN request', request'[r] = row
        PROVE  KnowsItsAccount(r)'
    BY <1>1, <2>1 DEF KnowsItsAccount
  <2>. QED
    BY <1>1, <1>3, <2>1, RequestsGoOn DEF IInv
<1>5. /\ said' = said
      /\ UNCHANGED <<memberVars, bankVars, acceptVars>>
  BY DEF CreateConnectAccount
<1>6. TypeOK'
  BY <1>1, <1>3, <1>5 DEF IInv, TypeOK, memberVars, bankVars, acceptVars
<1>7. SaidOfAccounts'
  BY <1>1, <1>5, GrowthKeeps DEF IInv
<1>8. RowsNameTheirOwners' /\ StatusWasSaid' /\ AbleRowsWereAble'
  BY <1>1, <1>5, RowsStay DEF IInv
<1>9. AcceptedWasAble'
  BY <1>1, <1>5, CollaborationsStay DEF IInv, acceptVars
<1>. QED
  BY <1>4, <1>6, <1>7, <1>8, <1>9 DEF IInv

\* Stored is the account that the request made for its user; a refused row
\* changes nothing.
LEMMA SaveBankAccountKeeps ==
    ASSUME IInv, NEW r \in Request, SaveBankAccount(r)
    PROVE  IInv'
<1>. DEFINE a == request[r].account
            u == request[r].userId
<1>1. /\ r \in DOMAIN request
      /\ u \in User
      /\ KnowsItsAccount(r)
      /\ request[r].pc = "save"
  BY RowType DEF IInv, SaveBankAccount
<1>2. /\ a \in DOMAIN account
      /\ a \in Account
      /\ account[a].userId = u
      /\ account[a].organizationId = None
  BY <1>1 DEF KnowsItsAccount, IInv, TypeOK, IsTable
<1>. HIDE DEF a, u
<1>3. CASE HasBankAccount(u)
  <2>1. End(r) /\ UNCHANGED <<stripeVars, memberVars, bankVars, acceptVars>>
    BY <1>3 DEF SaveBankAccount, u, bankVars
  <2>. QED
    BY <2>1, EndKeeps
<1>4. CASE ~HasBankAccount(u)
  <2>1. /\ bankAccount' = Put(bankAccount, a, [userId |-> u, status |-> "new"])
        /\ MoveTo(r, "onboard")
        /\ UNCHANGED <<stripeVars, memberVars, organizationBankAccount, acceptVars>>
    BY <1>4 DEF SaveBankAccount, a, u
  <2>2. Grows
    BY <2>1 DEF Grows, stripeVars
  <2>3. /\ IsTable(request', Request, RequestRow)
        /\ DOMAIN request' = DOMAIN request
        /\ request'[r].pc = "onboard"
        /\ \A q \in DOMAIN request \ {r} : request'[q] = request[q]
    BY <1>1, <2>1, MoveToMoves DEF IInv, Step
  <2>4. RequestsKnow'
    <3>1. KnowsItsAccount(r)'
      BY <2>3 DEF KnowsItsAccount
    <3>. QED
      BY <2>2, <2>3, <3>1, RequestsGoOn DEF IInv
  <2>5. [userId |-> u, status |-> "new"] \in BankAccountRow
    BY <1>1 DEF BankAccountRow, Status, u
  <2>6. IsTable(bankAccount', Account, BankAccountRow)
    BY <1>2, <2>1, <2>5 DEF IInv, TypeOK, IsTable, Put
  <2>7. TypeOK'
    BY <2>1, <2>3, <2>6 DEF IInv, TypeOK, stripeVars, memberVars, acceptVars
  <2>8. RowsNameTheirOwners' /\ StatusWasSaid' /\ AbleRowsWereAble'
    <3>1. RowsNameTheirOwners'
      BY <1>2, <2>1 DEF IInv, RowsNameTheirOwners, Put, stripeVars
    <3>2. StatusWasSaid'
      BY <2>1 DEF IInv, StatusWasSaid, Put, stripeVars
    <3>3. AbleRowsWereAble'
      BY <2>1 DEF IInv, AbleRowsWereAble, Able, AccountsOf, stripeVars
    <3>. QED
      BY <3>1, <3>2, <3>3
  <2>9. SaidOfAccounts' /\ AcceptedWasAble'
    BY <2>1, <2>2, CollaborationsStay DEF IInv, SaidOfAccounts, stripeVars, acceptVars
  <2>. QED
    BY <2>4, <2>7, <2>8, <2>9 DEF IInv
<1>. QED
  BY <1>3, <1>4

\* A request that starts and touches no account, row or collaboration keeps the
\* invariant if it knows what its first step needs.
LEMMA StartKeeps ==
    ASSUME IInv, NEW pc \in Step, NEW u \in User,
           NEW o \in Optional(Organization), NEW a \in Optional(Account),
           NEW c \in Optional(Collaboration), Start(pc, u, o, a, c),
           UNCHANGED <<stripeVars, member, bankVars, acceptVars>>,
           IsTable(creator', Organization, User),
           pc \notin {"save", "onboard"},
           pc \in {"create", "upsert", "accept"} => o \in Organization,
           pc = "upsert" => a \in DOMAIN account /\ account[a].organizationId = o,
           pc = "accept" => a \in Account /\ c \in Collaboration /\ Able(o)
    PROVE  IInv'
<1>. DEFINE row == [pc |-> pc, userId |-> u, organizationId |-> o,
                    account |-> a, collaboration |-> c]
<1>1. Grows
  BY DEF Grows, stripeVars
<1>2. /\ IsTable(request', Request, RequestRow)
      /\ \A r \in DOMAIN request' :
             \/ r \in DOMAIN request /\ request'[r] = request[r]
             \/ request'[r] = row
  BY StartAdds DEF IInv
<1>3. ASSUME NEW r \in DOMAIN request', request'[r] = row
      PROVE  KnowsItsAccount(r)'
  <2>1. pc = "accept" => Able(request'[r].organizationId) /\ said' = said
                         /\ account' = account
    BY <1>3 DEF stripeVars
  <2>2. pc = "accept" => Able(request[r].organizationId)'
    BY <2>1 DEF Able, AccountsOf
  <2>. QED
    BY <1>3, <2>2 DEF KnowsItsAccount, stripeVars
<1>4. RequestsKnow'
  BY <1>1, <1>2, <1>3, RequestsGoOn DEF IInv
<1>5. TypeOK'
  BY <1>2 DEF IInv, TypeOK, stripeVars, bankVars, acceptVars
<1>6. SaidOfAccounts'
  BY DEF IInv, SaidOfAccounts, stripeVars
<1>7. RowsNameTheirOwners' /\ StatusWasSaid' /\ AbleRowsWereAble'
  BY <1>1, RowsStay DEF IInv
<1>8. AcceptedWasAble'
  BY <1>1, CollaborationsStay DEF IInv, acceptVars
<1>. QED
  BY <1>4, <1>5, <1>6, <1>7, <1>8 DEF IInv

\* With a row, the request takes over the account of the organization's row.
LEMMA AskOrganizationAccountKeeps ==
    ASSUME IInv, NEW u \in User, AskOrganizationAccount(u)
    PROVE  IInv'
<1>. DEFINE o == member[u]
            a == organizationBankAccount[o].id
<1>1. o \in Organization
  BY DEF AskOrganizationAccount, IInv, TypeOK, Optional
<1>2. /\ UNCHANGED <<stripeVars, member, bankVars, acceptVars>>
      /\ IsTable(creator', Organization, User)
  BY DEF AskOrganizationAccount, memberVars, IInv, TypeOK
<1>3. CASE o \in DOMAIN organizationBankAccount
  <2>1. Start("upsert", u, o, a, None)
    BY <1>3 DEF AskOrganizationAccount
  <2>2. a \in DOMAIN account /\ account[a].organizationId = o
    BY <1>3 DEF IInv, RowsNameTheirOwners
  <2>3. a \in Account
    BY <2>2 DEF IInv, TypeOK, IsTable
  <2>. HIDE DEF a, o
  <2>. QED
    BY <1>1, <1>2, <2>1, <2>2, <2>3, StartKeeps DEF Step, Optional
<1>4. CASE o \notin DOMAIN organizationBankAccount
  <2>1. Start("create", u, o, None, None)
    BY <1>4 DEF AskOrganizationAccount
  <2>. HIDE DEF a, o
  <2>. QED
    BY <1>1, <1>2, <2>1, StartKeeps DEF Step, Optional
<1>. QED
  BY <1>3, <1>4

\* The new account carries the organization that the request read.
LEMMA CreateOrganizationAccountKeeps ==
    ASSUME IInv, NEW r \in Request, CreateOrganizationAccount(r)
    PROVE  IInv'
<1>. DEFINE a == NewKey(Account, account)
            o == request[r].organizationId
            row == [request[r] EXCEPT !.pc = "upsert", !.account = a]
<1>1. /\ r \in DOMAIN request
      /\ request[r] \in RequestRow
      /\ o \in Organization
  BY RowType DEF IInv, CreateOrganizationAccount, KnowsItsAccount, TypeOK, IsTable
<1>2. /\ Grows
      /\ IsTable(account', Account, AccountRow)
      /\ a \in DOMAIN account'
      /\ a \in Account
      /\ account'[a].organizationId = o
  <2>. DEFINE v == [userId |-> request[r].userId,
                    organizationId |-> request[r].organizationId]
  <2>1. v \in AccountRow
    BY <1>1 DEF AccountRow, RequestRow
  <2>2. HasRoom(Account, account) /\ account' = Put(account, a, v) /\ said' = said
    BY DEF CreateOrganizationAccount
  <2>3. v.organizationId = o
    OBVIOUS
  <2>. HIDE DEF v
  <2>. QED
    BY <2>1, <2>2, <2>3, NewAccountGrows DEF IInv
<1>. HIDE DEF a
<1>3. row \in RequestRow
  BY <1>1, <1>2 DEF RequestRow, Step, Optional
<1>4. /\ row.pc = "upsert"
      /\ row.account = a
      /\ row.organizationId = o
  BY <1>1 DEF RequestRow
<1>5. request' = [request EXCEPT ![r] = row]
  BY DEF CreateOrganizationAccount, a
<1>. HIDE DEF row
<1>6. IsTable(request', Request, RequestRow)
  BY <1>1, <1>3, <1>5 DEF IInv, TypeOK, IsTable
<1>7. RequestsKnow'
  <2>1. request'[r] = row
    BY <1>1, <1>5
  <2>2. KnowsItsAccount(r)'
    BY <1>1, <1>2, <1>4, <2>1 DEF KnowsItsAccount
  <2>. QED
    BY <1>2, <1>5, <2>2, RequestsGoOn DEF IInv
<1>8. said' = said /\ UNCHANGED <<memberVars, bankVars, acceptVars>>
  BY DEF CreateOrganizationAccount
<1>9. TypeOK'
  BY <1>2, <1>6, <1>8 DEF IInv, TypeOK, memberVars, bankVars, acceptVars
<1>10. SaidOfAccounts'
  BY <1>2, <1>8, GrowthKeeps DEF IInv
<1>11. RowsNameTheirOwners' /\ StatusWasSaid' /\ AbleRowsWereAble'
  BY <1>2, <1>8, RowsStay DEF IInv
<1>12. AcceptedWasAble'
  BY <1>2, <1>8, CollaborationsStay DEF IInv, acceptVars
<1>. QED
  BY <1>7, <1>9, <1>10, <1>11, <1>12 DEF IInv

\* The row of the organization gets an account made for that organization; the
\* status it keeps was reported for one of the organization's accounts.
LEMMA SaveOrganizationAccountKeeps ==
    ASSUME IInv, NEW r \in Request, SaveOrganizationAccount(r)
    PROVE  IInv'
<1>. DEFINE a == request[r].account
            o == request[r].organizationId
            s == IF o \in DOMAIN organizationBankAccount
                 THEN organizationBankAccount[o].status ELSE "new"
<1>1. /\ r \in DOMAIN request
      /\ o \in Organization
      /\ a \in DOMAIN account
      /\ account[a].organizationId = o
  BY RowType DEF IInv, SaveOrganizationAccount, KnowsItsAccount
<1>2. a \in Account
  BY <1>1 DEF IInv, TypeOK, IsTable
<1>3. s \in Status /\ (s = "able" => Able(o))
  BY DEF IInv, TypeOK, IsTable, OrganizationBankAccountRow, Status, AbleRowsWereAble
<1>4. /\ organizationBankAccount' =
             Put(organizationBankAccount, o, [id |-> a, status |-> s])
      /\ MoveTo(r, "onboard")
      /\ UNCHANGED <<stripeVars, memberVars, bankAccount, acceptVars>>
  BY DEF SaveOrganizationAccount
<1>. HIDE DEF a, o, s
<1>5. Grows
  BY <1>4 DEF Grows, stripeVars
<1>6. /\ IsTable(request', Request, RequestRow)
      /\ DOMAIN request' = DOMAIN request
      /\ request'[r].pc = "onboard"
      /\ \A q \in DOMAIN request \ {r} : request'[q] = request[q]
  BY <1>1, <1>4, MoveToMoves DEF IInv, Step
<1>7. RequestsKnow'
  <2>1. KnowsItsAccount(r)'
    BY <1>6 DEF KnowsItsAccount
  <2>. QED
    BY <1>5, <1>6, <2>1, RequestsGoOn DEF IInv
<1>8. [id |-> a, status |-> s] \in OrganizationBankAccountRow
  BY <1>2, <1>3 DEF OrganizationBankAccountRow
<1>9. IsTable(organizationBankAccount', Organization, OrganizationBankAccountRow)
  BY <1>1, <1>4, <1>8 DEF IInv, TypeOK, IsTable, Put
<1>10. TypeOK'
  BY <1>4, <1>6, <1>9 DEF IInv, TypeOK, stripeVars, memberVars, acceptVars
<1>11. RowsNameTheirOwners'
  BY <1>1, <1>4 DEF IInv, RowsNameTheirOwners, Put, stripeVars
<1>12. StatusWasSaid'
  BY <1>4 DEF IInv, StatusWasSaid, stripeVars
<1>13. AbleRowsWereAble'
  <2>1. \A p : Able(p) => Able(p)'
    BY <1>5, GrowthKeeps
  <2>. QED
    BY <1>3, <1>4, <2>1 DEF IInv, AbleRowsWereAble, Put
<1>14. SaidOfAccounts' /\ AcceptedWasAble'
  BY <1>4, <1>5, CollaborationsStay DEF IInv, SaidOfAccounts, stripeVars, acceptVars
<1>. QED
  BY <1>7, <1>10, <1>11, <1>12, <1>13, <1>14 DEF IInv

\* What Stripe says, it says of an account it has made.
LEMMA StripeSaysKeeps ==
    ASSUME IInv, NEW a \in Account, NEW s \in Status, StripeSays(a, s)
    PROVE  IInv'
<1>1. /\ Grows
      /\ said' = said \cup {[account |-> a, status |-> s]}
      /\ a \in DOMAIN account
      /\ [account |-> a, status |-> s] \in Event
      /\ UNCHANGED <<account, memberVars, bankVars, acceptVars, request>>
  BY DEF StripeSays, Grows, Event
<1>2. RequestsKnow'
  BY <1>1, RequestsGoOn DEF IInv
<1>3. TypeOK'
  BY <1>1 DEF IInv, TypeOK, memberVars, bankVars, acceptVars
<1>4. SaidOfAccounts'
  BY <1>1 DEF IInv, SaidOfAccounts
<1>5. RowsNameTheirOwners' /\ StatusWasSaid' /\ AbleRowsWereAble'
  BY <1>1, RowsStay DEF IInv
<1>6. AcceptedWasAble'
  BY <1>1, CollaborationsStay DEF IInv, acceptVars
<1>. QED
  BY <1>2, <1>3, <1>4, <1>5, <1>6 DEF IInv

\* The event's account was made for the organization whose row it changes, but
\* need not be the account that the row names.
LEMMA OrganizationAccountUpdatedKeeps ==
    ASSUME IInv, NEW e \in said, OrganizationAccountUpdated(e)
    PROVE  IInv'
<1>. DEFINE o == account[e.account].organizationId
            a == IF o \in DOMAIN organizationBankAccount
                 THEN organizationBankAccount[o].id ELSE e.account
            row == [id |-> a, status |-> e.status]
<1>1. /\ e.account \in DOMAIN account
      /\ e = [account |-> e.account, status |-> e.status]
      /\ e.status \in Status
  BY DEF IInv, TypeOK, Event, SaidOfAccounts
<1>2. o \in Organization
  BY <1>1 DEF OrganizationAccountUpdated, IInv, TypeOK, IsTable, AccountRow, Optional
<1>3. a \in DOMAIN account /\ account[a].organizationId = o
  BY <1>1 DEF IInv, RowsNameTheirOwners
<1>4. e.status = "able" => Able(o)
  BY <1>1 DEF Able, AccountsOf
<1>5. /\ organizationBankAccount' = Put(organizationBankAccount, o, row)
      /\ UNCHANGED <<stripeVars, memberVars, bankAccount, acceptVars, request>>
  BY DEF OrganizationAccountUpdated
<1>. HIDE DEF o, a
<1>6. row \in OrganizationBankAccountRow
  BY <1>1, <1>3 DEF OrganizationBankAccountRow, IInv, TypeOK, IsTable
<1>7. IsTable(organizationBankAccount', Organization, OrganizationBankAccountRow)
  BY <1>2, <1>5, <1>6 DEF IInv, TypeOK, IsTable, Put
<1>8. Grows
  BY <1>5 DEF Grows, stripeVars
<1>9. RequestsKnow'
  BY <1>5, <1>8, RequestsGoOn DEF IInv
<1>10. TypeOK'
  BY <1>5, <1>7 DEF IInv, TypeOK, stripeVars, memberVars, acceptVars
<1>11. RowsNameTheirOwners'
  BY <1>3, <1>5 DEF IInv, RowsNameTheirOwners, Put, stripeVars
<1>12. StatusWasSaid'
  BY <1>5 DEF IInv, StatusWasSaid, stripeVars
<1>13. AbleRowsWereAble'
  <2>1. \A p : Able(p) => Able(p)'
    BY <1>8, GrowthKeeps
  <2>. QED
    BY <1>4, <1>5, <2>1 DEF IInv, AbleRowsWereAble, Put
<1>14. SaidOfAccounts' /\ AcceptedWasAble'
  BY <1>5, <1>8, CollaborationsStay DEF IInv, SaidOfAccounts, stripeVars, acceptVars
<1>. QED
  BY <1>9, <1>10, <1>11, <1>12, <1>13, <1>14 DEF IInv

\* The row that is stored or updated is the one of the event's account.
LEMMA UserAccountUpdatedKeeps ==
    ASSUME IInv, NEW e \in said, UserAccountUpdated(e)
    PROVE  IInv'
<1>. DEFINE u == account[e.account].userId
            row == [userId |-> u, status |-> e.status]
<1>1. /\ e.account \in DOMAIN account
      /\ e.account \in Account
      /\ e = [account |-> e.account, status |-> e.status]
      /\ e.status \in Status
  BY DEF IInv, TypeOK, IsTable, Event, SaidOfAccounts
<1>2. u \in User
  BY <1>1 DEF IInv, TypeOK, IsTable, AccountRow
<1>3. /\ account[e.account].organizationId = None
      /\ bankAccount' = Put(bankAccount, e.account, row)
      /\ UNCHANGED <<stripeVars, memberVars, organizationBankAccount, acceptVars,
                     request>>
  BY DEF UserAccountUpdated
<1>4. row \in BankAccountRow
  BY <1>1, <1>2 DEF BankAccountRow
<1>5. IsTable(bankAccount', Account, BankAccountRow)
  BY <1>1, <1>3, <1>4 DEF IInv, TypeOK, IsTable, Put
<1>6. Grows
  BY <1>3 DEF Grows, stripeVars
<1>7. RequestsKnow'
  BY <1>3, <1>6, RequestsGoOn DEF IInv
<1>8. TypeOK'
  BY <1>3, <1>5 DEF IInv, TypeOK, stripeVars, memberVars, acceptVars
<1>9. RowsNameTheirOwners'
  BY <1>1, <1>3 DEF IInv, RowsNameTheirOwners, Put, stripeVars
<1>10. StatusWasSaid'
  BY <1>1, <1>3 DEF IInv, StatusWasSaid, Put, stripeVars
<1>11. AbleRowsWereAble'
  BY <1>3 DEF IInv, AbleRowsWereAble, Able, AccountsOf, stripeVars
<1>12. SaidOfAccounts' /\ AcceptedWasAble'
  BY <1>3, <1>6, CollaborationsStay DEF IInv, SaidOfAccounts, stripeVars, acceptVars
<1>. QED
  BY <1>7, <1>8, <1>9, <1>10, <1>11, <1>12 DEF IInv

\* A founder's request goes on with an organization that exists.
LEMMA CreateOrganizationKeeps ==
    ASSUME IInv, NEW u \in User, NEW o \in Organization, CreateOrganization(u, o)
    PROVE  IInv'
<1>1. creator' = Put(creator, o, u) /\ UNCHANGED <<stripeVars, member, bankVars, acceptVars>>
  BY DEF CreateOrganization
<1>2. IsTable(creator', Organization, User)
  BY <1>1 DEF IInv, TypeOK, IsTable, Put
<1>3. PICK first \in DOMAIN creator' : Start("connect", u, first, None, None)
  BY DEF CreateOrganization
<1>4. first \in Organization
  BY <1>2 DEF IsTable
<1>. QED
  BY <1>1, <1>2, <1>3, <1>4, StartKeeps DEF Step, Optional

\* The organization found able is the one that the request will connect.
LEMMA AskToAcceptKeeps ==
    ASSUME IInv, NEW u \in User, NEW c \in Collaboration, AskToAccept(u, c)
    PROVE  IInv'
<1>. DEFINE o == member[u]
            a == organizationBankAccount[o].id
<1>1. o \in DOMAIN organizationBankAccount /\ organizationBankAccount[o].status = "able"
  BY DEF AskToAccept, CanBePaid
<1>2. Able(o)
  BY <1>1 DEF IInv, AbleRowsWereAble
<1>3. o \in Organization /\ a \in Account
  BY <1>1 DEF IInv, TypeOK, IsTable, OrganizationBankAccountRow
<1>4. /\ Start("accept", u, o, a, c)
      /\ UNCHANGED <<stripeVars, member, bankVars, acceptVars>>
      /\ IsTable(creator', Organization, User)
  BY DEF AskToAccept, memberVars, IInv, TypeOK
<1>. HIDE DEF o, a
<1>. QED
  BY <1>2, <1>3, <1>4, StartKeeps DEF Step, Optional

\* Whatever happened since the check, the organization was able then.
LEMMA AcceptCollaborationKeeps ==
    ASSUME IInv, NEW r \in Request, AcceptCollaboration(r)
    PROVE  IInv'
<1>. DEFINE c == request[r].collaboration
            o == request[r].organizationId
            x == [collaboration |-> c, organization |-> o,
                  account |-> request[r].account]
<1>1. /\ r \in DOMAIN request
      /\ o \in Organization
      /\ x \in Acceptance
      /\ Able(o)
  BY RowType DEF IInv, AcceptCollaboration, KnowsItsAccount, Acceptance
<1>2. /\ collaboration' = [collaboration EXCEPT ![c] = o]
      /\ accepted' = accepted \cup {x}
      /\ c \in DOMAIN collaboration
      /\ End(r)
      /\ UNCHANGED <<stripeVars, memberVars, bankVars>>
  BY DEF AcceptCollaboration
<1>. HIDE DEF c, o, x
<1>3. Grows
  BY <1>2 DEF Grows, stripeVars
<1>4. /\ IsTable(request', Request, RequestRow)
      /\ DOMAIN request' \subseteq DOMAIN request
      /\ \A q \in DOMAIN request' : request'[q] = request[q]
  BY <1>2, EndDrops DEF IInv
<1>5. RequestsKnow'
  BY <1>3, <1>4, RequestsGoOn DEF IInv
<1>6. o \in Optional(Organization)
  BY <1>1 DEF Optional
<1>7. IsTable(collaboration', Collaboration, Optional(Organization))
  BY <1>2, <1>6 DEF IInv, TypeOK, IsTable
<1>8. TypeOK'
  BY <1>1, <1>2, <1>4, <1>7 DEF IInv, TypeOK, stripeVars, memberVars, bankVars
<1>9. RowsNameTheirOwners' /\ StatusWasSaid' /\ AbleRowsWereAble'
  BY <1>2, <1>3, RowsStay DEF IInv
<1>10. AcceptedWasAble'
  <2>1. \A p : Able(p) => Able(p)'
    BY <1>3, GrowthKeeps
  <2>2. \A d \in DOMAIN collaboration : collaboration[d] # None => Able(collaboration[d])
    BY DEF IInv, AcceptedWasAble, Able
  <2>3. \A d \in DOMAIN collaboration' : collaboration'[d] # None =>
            \E p : p = collaboration'[d] /\ Able(p)'
    BY <1>1, <1>2, <2>1, <2>2
  <2>. QED
    BY <2>3 DEF AcceptedWasAble, Able, AccountsOf
<1>11. SaidOfAccounts'
  BY <1>2 DEF IInv, SaidOfAccounts, stripeVars
<1>. QED
  BY <1>5, <1>8, <1>9, <1>10, <1>11 DEF IInv

\* Launching a collaboration and joining an organization disturb one table each.
LEMMA TablesKeep ==
    ASSUME IInv,
           \/ \E c \in Collaboration : LaunchCollaboration(c)
           \/ \E u \in User, o \in Organization : JoinOrganization(u, o)
    PROVE  IInv'
<1>1. /\ Grows
      /\ UNCHANGED <<stripeVars, bankVars, creator, accepted, request>>
  BY DEF LaunchCollaboration, JoinOrganization, Grows, stripeVars, memberVars, acceptVars
<1>2. RequestsKnow'
  BY <1>1, RequestsGoOn DEF IInv
<1>3. SaidOfAccounts' /\ RowsNameTheirOwners' /\ StatusWasSaid' /\ AbleRowsWereAble'
  BY <1>1, RowsStay DEF IInv, SaidOfAccounts, stripeVars
<1>4. CASE \E c \in Collaboration : LaunchCollaboration(c)
  <2>1. PICK c \in Collaboration : LaunchCollaboration(c)
    BY <1>4
  <2>2. collaboration' = Put(collaboration, c, None) /\ UNCHANGED member
    BY <2>1 DEF LaunchCollaboration, memberVars
  <2>3. IsTable(collaboration', Collaboration, Optional(Organization))
    BY <2>2 DEF IInv, TypeOK, Optional, IsTable, Put
  <2>4. TypeOK'
    BY <1>1, <2>2, <2>3 DEF IInv, TypeOK, stripeVars, bankVars
  <2>5. AcceptedWasAble'
    BY <1>1, <2>2 DEF IInv, AcceptedWasAble, AccountsOf, Put, stripeVars
  <2>. QED
    BY <1>2, <1>3, <2>4, <2>5 DEF IInv
<1>5. CASE \E u \in User, o \in Organization : JoinOrganization(u, o)
  <2>1. PICK u \in User, o \in Organization : JoinOrganization(u, o)
    BY <1>5
  <2>2. member' = [member EXCEPT ![u] = o] /\ UNCHANGED collaboration
    BY <2>1 DEF JoinOrganization, acceptVars
  <2>3. TypeOK'
    BY <1>1, <2>2 DEF IInv, TypeOK, Optional, stripeVars, bankVars
  <2>4. AcceptedWasAble'
    BY <1>1, <2>2, CollaborationsStay DEF IInv
  <2>. QED
    BY <1>2, <1>3, <2>3, <2>4 DEF IInv
<1>. QED
  BY <1>4, <1>5

\* So does connecting a founder, which ends the request too.
LEMMA ConnectOrganizationKeeps ==
    ASSUME IInv, NEW r \in Request, ConnectOrganization(r)
    PROVE  IInv'
<1>1. /\ Grows
      /\ End(r)
      /\ UNCHANGED <<stripeVars, creator, bankVars, acceptVars>>
  BY DEF ConnectOrganization, Grows, stripeVars
<1>2. /\ IsTable(request', Request, RequestRow)
      /\ DOMAIN request' \subseteq DOMAIN request
      /\ \A q \in DOMAIN request' : request'[q] = request[q]
  BY <1>1, EndDrops DEF IInv
<1>3. member' \in [User -> Optional(Organization)]
  BY RowType DEF IInv, TypeOK, ConnectOrganization
<1>4. TypeOK'
  BY <1>1, <1>2, <1>3 DEF IInv, TypeOK, stripeVars, bankVars, acceptVars
<1>5. RequestsKnow'
  BY <1>1, <1>2, RequestsGoOn DEF IInv
<1>6. SaidOfAccounts' /\ RowsNameTheirOwners' /\ StatusWasSaid' /\ AbleRowsWereAble'
  BY <1>1, RowsStay DEF IInv, SaidOfAccounts, stripeVars
<1>7. AcceptedWasAble'
  BY <1>1, CollaborationsStay DEF IInv, acceptVars
<1>. QED
  BY <1>4, <1>5, <1>6, <1>7 DEF IInv

-----------------------------------------------------------------------------
(* The invariant and the theorems                                          *)

\* Every step keeps the inductive invariant.
LEMMA StepIInv == IInv /\ [Next]_vars => IInv'
<1>. SUFFICES ASSUME IInv, [Next]_vars PROVE IInv'
  OBVIOUS
<1>1. CASE Ask
  BY <1>1, CreateConnectAccountKeeps, AskOrganizationAccountKeeps,
     CreateOrganizationKeeps, TablesKeep, AskToAcceptKeeps DEF Ask
<1>2. ASSUME NEW r \in Request, Continue(r) PROVE IInv'
  <2>1. Onboard(r) => IInv'
    BY EndKeeps DEF Onboard
  <2>. QED
    BY <1>2, <2>1, SaveBankAccountKeeps, CreateOrganizationAccountKeeps,
       SaveOrganizationAccountKeeps, ConnectOrganizationKeeps,
       AcceptCollaborationKeeps DEF Continue
<1>3. ASSUME NEW r \in Request, RequestFails(r) PROVE IInv'
  BY <1>3, EndKeeps DEF RequestFails
<1>4. CASE Stripe
  BY <1>4, StripeSaysKeeps, OrganizationAccountUpdatedKeeps,
     UserAccountUpdatedKeeps DEF Stripe
<1>5. CASE \E c \in Collaboration : LaunchCollaboration(c)
  BY <1>5, TablesKeep
<1>6. CASE UNCHANGED vars
  <2>1. Grows /\ UNCHANGED <<stripeVars, memberVars, bankVars, acceptVars, request>>
    BY <1>6 DEF vars, Grows, stripeVars, memberVars, bankVars, acceptVars
  <2>2. TypeOK' /\ SaidOfAccounts'
    BY <2>1 DEF IInv, TypeOK, SaidOfAccounts, stripeVars, memberVars, bankVars, acceptVars
  <2>3. RequestsKnow'
    BY <2>1, RequestsGoOn DEF IInv
  <2>4. RowsNameTheirOwners' /\ StatusWasSaid' /\ AbleRowsWereAble' /\ AcceptedWasAble'
    BY <2>1, RowsStay, CollaborationsStay DEF IInv, acceptVars
  <2>. QED
    BY <2>2, <2>3, <2>4 DEF IInv
<1>. QED
  BY <1>1, <1>2, <1>3, <1>4, <1>5, <1>6 DEF Next

\* In every state of every behaviour the inductive invariant holds.
LEMMA Invariance == Spec => []IInv
  BY InitIInv, StepIInv, PTL DEF Spec

\* Every variable has its type.
THEOREM TypeCorrect == Spec => []TypeOK
<1>1. IInv => TypeOK
  BY DEF IInv
<1>. QED
  BY <1>1, Invariance, PTL

\* A bank account row always names an account that was made for its owner, so
\* whoever stores it and whatever order the events come in, nobody is paid by
\* way of someone else's account.
THEOREM OwnersNamed == Spec => []RowsNameTheirOwners
<1>1. IInv => RowsNameTheirOwners
  BY DEF IInv
<1>. QED
  BY <1>1, Invariance, PTL

\* The status of a fundraiser's row is one Stripe reported for its account.
THEOREM StatusesSaid == Spec => []StatusWasSaid
<1>1. IInv => StatusWasSaid
  BY DEF IInv
<1>. QED
  BY <1>1, Invariance, PTL

\* A collaboration only goes to an organization with an account that Stripe
\* reported able to be paid.
THEOREM AcceptedAble == Spec => []AcceptedWasAble
<1>1. IInv => AcceptedWasAble
  BY DEF IInv
<1>. QED
  BY <1>1, Invariance, PTL
-----------------------------------------------------------------------------
(* Onboarding links                                                        *)

\* Accounts stay as they were made.
LEMMA AccountsGrow ==
    [Next]_vars => \A a \in DOMAIN account :
                       a \in DOMAIN account' /\ account'[a] = account[a]
<1>1. [Next]_vars =>
          \/ UNCHANGED account
          \/ HasRoom(Account, account)
             /\ \E row : account' = Put(account, NewKey(Account, account), row)
  BY DEF Next, Ask, Continue, Stripe, CreateConnectAccount, AskOrganizationAccount,
     CreateOrganization, JoinOrganization, AskToAccept, SaveBankAccount,
     CreateOrganizationAccount, SaveOrganizationAccount, Onboard,
     ConnectOrganization, AcceptCollaboration, StripeSays,
     OrganizationAccountUpdated, UserAccountUpdated, RequestFails,
     LaunchCollaboration, vars, stripeVars
<1>. QED
  BY <1>1 DEF Put, NewKey, HasRoom

\* Rows of fundraisers are added and updated, never removed.
LEMMA BankAccountsGrow ==
    [Next]_vars => DOMAIN bankAccount \subseteq DOMAIN bankAccount'
<1>1. [Next]_vars =>
          \/ UNCHANGED bankAccount
          \/ \E a, row : bankAccount' = Put(bankAccount, a, row)
  BY DEF Next, Ask, Continue, Stripe, CreateConnectAccount, AskOrganizationAccount,
     CreateOrganization, JoinOrganization, AskToAccept, SaveBankAccount,
     CreateOrganizationAccount, SaveOrganizationAccount, Onboard,
     ConnectOrganization, AcceptCollaboration, StripeSays,
     OrganizationAccountUpdated, UserAccountUpdated, RequestFails,
     LaunchCollaboration, vars, bankVars
<1>. QED
  BY <1>1 DEF Put

\* The user of a row never changes: it is the one the account was made for.
LEMMA RowsKeepTheirUsers ==
    ASSUME IInv, IInv', [Next]_vars, NEW a \in DOMAIN bankAccount
    PROVE  a \in DOMAIN bankAccount' /\ bankAccount'[a].userId = bankAccount[a].userId
BY AccountsGrow, BankAccountsGrow DEF IInv, RowsNameTheirOwners

\* A request gets its link because its account was just stored, or because it
\* is about an organization.
LEMMA WhoGetsALink ==
    ASSUME IInv, [Next]_vars, NEW r \in DOMAIN request',
           request'[r].pc = "onboard"
    PROVE  \/ r \in DOMAIN request /\ request'[r] = request[r]
           \/ /\ SaveBankAccount(r)
              /\ request'[r].account \in DOMAIN bankAccount'
              /\ bankAccount'[request'[r].account].userId = request'[r].userId
           \/ request'[r].organizationId # None
<1>. DEFINE Fine == \/ r \in DOMAIN request /\ request'[r] = request[r]
                    \/ /\ SaveBankAccount(r)
                       /\ request'[r].account \in DOMAIN bankAccount'
                       /\ bankAccount'[request'[r].account].userId
                              = request'[r].userId
                    \/ request'[r].organizationId # None
<1>t. TypeOK /\ RequestsKnow
  BY DEF IInv
<1>r. \A q \in DOMAIN request : request[q] \in RequestRow
  BY <1>t DEF TypeOK, IsTable
<1>1. ASSUME NEW pc, pc # "onboard", NEW u, NEW o, NEW a, NEW c,
             Start(pc, u, o, a, c)
      PROVE  Fine
  BY <1>1 DEF Start, Put
<1>2. ASSUME NEW q, End(q) \/ UNCHANGED request
      PROVE  Fine
  BY <1>2 DEF End, Drop
<1>3. ASSUME NEW q \in Request, SaveBankAccount(q)
      PROVE  Fine
  <2>1. CASE End(q)
    BY <1>2, <2>1
  <2>2. CASE ~End(q)
    <3>1. /\ q \in DOMAIN request
          /\ request' = [request EXCEPT ![q].pc = "onboard"]
          /\ bankAccount' = Put(bankAccount, request[q].account,
                 [userId |-> request[q].userId, status |-> "new"])
      BY <1>3, <2>2 DEF SaveBankAccount, MoveTo, At
    <3>2. CASE r = q
      <4>1. /\ request'[r].account = request[q].account
            /\ request'[r].userId = request[q].userId
        BY <1>r, <3>1, <3>2 DEF RequestRow
      <4>. QED
        BY <1>3, <3>1, <3>2, <4>1 DEF Put
    <3>3. CASE r # q
      BY <3>1, <3>3
    <3>. QED
      BY <3>2, <3>3
  <2>. QED
    BY <2>1, <2>2
<1>4. ASSUME NEW q \in Request, SaveOrganizationAccount(q)
      PROVE  Fine
  <2>1. /\ q \in DOMAIN request
        /\ request' = [request EXCEPT ![q].pc = "onboard"]
        /\ request[q].organizationId \in Organization
    BY <1>4, <1>t DEF SaveOrganizationAccount, MoveTo, At, RequestsKnow, KnowsItsAccount
  <2>2. CASE r = q
    BY <1>r, <2>1, <2>2, NoneAssumption DEF RequestRow
  <2>3. CASE r # q
    BY <2>1, <2>3
  <2>. QED
    BY <2>2, <2>3
<1>5. ASSUME NEW q \in Request, CreateOrganizationAccount(q)
      PROVE  Fine
  <2>1. /\ q \in DOMAIN request
        /\ request' = [request EXCEPT ![q] = [request[q] EXCEPT
               !.pc = "upsert", !.account = NewKey(Account, account)]]
    BY <1>5 DEF CreateOrganizationAccount, At
  <2>2. r # q
    BY <1>r, <2>1 DEF RequestRow
  <2>. QED
    BY <2>1, <2>2
<1>. HIDE DEF Fine
<1>6. ASSUME UNCHANGED request PROVE Fine
  BY <1>2, <1>6
<1>8. ASSUME Ask PROVE Fine
  <2>1. PICK u \in User :
            \/ CreateConnectAccount(u)
            \/ AskOrganizationAccount(u)
            \/ \E o \in Organization : CreateOrganization(u, o) \/ JoinOrganization(u, o)
            \/ \E c \in Collaboration : AskToAccept(u, c)
    BY <1>8 DEF Ask
  <2>2. CASE \E o \in Organization : JoinOrganization(u, o)
    BY <1>6, <2>2 DEF JoinOrganization
  <2>3. CASE CreateConnectAccount(u)
    BY <1>1, <2>3 DEF CreateConnectAccount
  <2>4. CASE AskOrganizationAccount(u)
    BY <1>1, <2>4 DEF AskOrganizationAccount
  <2>5. CASE \E o \in Organization : CreateOrganization(u, o)
    BY <1>1, <2>5 DEF CreateOrganization
  <2>6. CASE \E c \in Collaboration : AskToAccept(u, c)
    BY <1>1, <2>6 DEF AskToAccept
  <2>. QED
    BY <2>1, <2>2, <2>3, <2>4, <2>5, <2>6
<1>7. ASSUME NEW q \in Request, Continue(q) \/ RequestFails(q)
      PROVE  Fine
  BY <1>7, <1>2, <1>3, <1>4, <1>5
     DEF Continue, Onboard, ConnectOrganization, AcceptCollaboration, RequestFails
<1>9. ASSUME Stripe \/ (\E c \in Collaboration : LaunchCollaboration(c)) \/ UNCHANGED vars
      PROVE  Fine
  BY <1>9, <1>6 DEF Stripe, StripeSays, OrganizationAccountUpdated,
     UserAccountUpdated, LaunchCollaboration, vars
<1>10. Fine
  BY <1>7, <1>8, <1>9 DEF Next
<1>. QED
  BY <1>10 DEF Fine

\* Whoever had a link for a stored account still has, and new links are for
\* stored accounts.
LEMMA LinkedStep == IInv /\ IInv' /\ LinkedIsStored /\ [Next]_vars => LinkedIsStored'
<1>. SUFFICES ASSUME IInv, IInv', LinkedIsStored, [Next]_vars,
                     NEW r \in DOMAIN request', request'[r].pc = "onboard",
                     request'[r].organizationId = None
              PROVE  /\ request'[r].account \in DOMAIN bankAccount'
                     /\ bankAccount'[request'[r].account].userId
                            = request'[r].userId
  BY DEF LinkedIsStored
<1>1. CASE r \in DOMAIN request /\ request'[r] = request[r]
  <2>1. /\ request[r].account \in DOMAIN bankAccount
        /\ bankAccount[request[r].account].userId = request[r].userId
    BY <1>1 DEF LinkedIsStored
  <2>. QED
    BY <1>1, <2>1, RowsKeepTheirUsers
<1>. QED
  BY <1>1, WhoGetsALink

\* createConnectAccount gives a link only for the account that the database has
\* for its user, however its requests and account.updated events interleave.
THEOREM LinksAreStored == Spec => []LinkedIsStored
<1>1. Init => LinkedIsStored
  BY DEF Init, LinkedIsStored, IsTable, EmptyTable
<1>. QED
  BY <1>1, LinkedStep, Invariance, PTL DEF Spec
=============================================================================
