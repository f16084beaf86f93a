--------------------------- MODULE ConnectAccounts ---------------------------
(***************************************************************************)
(* Stripe Connect accounts of fundraisers and organizations, who is a      *)
(* member of which organization, and the acceptance of collaborations that *)
(* rests on both (src/stripe, src/organizations, src/collaborations).      *)
(*                                                                         *)
(* A request is a handler between two of its awaits; pc says what it does  *)
(* next.  An account is made on Stripe before any row names it, so other   *)
(* requests of the same user or organization, and Stripe's own             *)
(* account.updated events, may come between.                               *)
(*                                                                         *)
(* Stripe is external.  It promises neither that an event comes once nor   *)
(* that events come in order: whatever it once said of an account may be   *)
(* delivered, and delivered again, at any later time.                      *)
(***************************************************************************)
EXTENDS Tables

CONSTANTS
    User,
    Organization,
    Collaboration,
    Account,        \* ids of Stripe Connect accounts
    Request,        \* requests being handled; a request that ends frees its id
    None            \* null

ASSUME NoneAssumption == None \notin Organization \cup Account \cup Collaboration

VARIABLES
    account,                    \* Stripe: accounts, with their metadata
    said,                       \* Stripe: account.updated events it has sent
    creator,                    \* table organizations: its creatorId
    member,                     \* users.organizationId
    bankAccount,                \* table bank_accounts
    organizationBankAccount,    \* table organization_bank_accounts
    collaboration,              \* table collaborations: its organizationId
    accepted,                   \* acceptances, with the account they looked at
    request

stripeVars == <<account, said>>
bankVars == <<bankAccount, organizationBankAccount>>
memberVars == <<creator, member>>
acceptVars == <<collaboration, accepted>>
vars == <<account, said, creator, member, bankAccount,
          organizationBankAccount, collaboration, accepted, request>>

-----------------------------------------------------------------------------
Optional(S) == S \cup {None}

AccountRow == [userId: User, organizationId: Optional(Organization)]

\* new: no event has reached the row.  able: detailsSubmitted, chargesEnabled
\* and payoutsEnabled all hold.  restricted: one does not.  (The error column
\* follows from these and is left out.)
Status == {"new", "restricted", "able"}
Event == [account: Account, status: Status \ {"new"}]

BankAccountRow == [userId: User, status: Status]
OrganizationBankAccountRow == [id: Account, status: Status]

Acceptance == [collaboration: Collaboration, organization: Organization,
               account: Account]

\* What a request does next.
Step == {"save", "create", "upsert", "onboard", "connect", "accept"}
RequestRow == [pc: Step, userId: User,
               organizationId: Optional(Organization),
               account: Optional(Account),
               collaboration: Optional(Collaboration)]

TypeOK ==
    /\ IsTable(account, Account, AccountRow)
    /\ said \subseteq Event
    /\ IsTable(creator, Organization, User)
    /\ member \in [User -> Optional(Organization)]
    /\ IsTable(bankAccount, Account, BankAccountRow)
    /\ IsTable(organizationBankAccount, Organization, OrganizationBankAccountRow)
    /\ IsTable(collaboration, Collaboration, Optional(Organization))
    /\ accepted \subseteq Acceptance
    /\ IsTable(request, Request, RequestRow)

Init ==
    /\ account = EmptyTable
    /\ said = {}
    /\ creator = EmptyTable
    /\ member = [u \in User |-> None]
    /\ bankAccount = EmptyTable
    /\ organizationBankAccount = EmptyTable
    /\ collaboration = EmptyTable
    /\ accepted = {}
    /\ request = EmptyTable

-----------------------------------------------------------------------------
(* Requests                                                                *)

At(r, pc) == r \in DOMAIN request /\ request[r].pc = pc

Start(pc, u, o, a, c) ==
    /\ HasRoom(Request, request)
    /\ request' = Put(request, NewKey(Request, request),
          [pc |-> pc, userId |-> u, organizationId |-> o, account |-> a,
           collaboration |-> c])

MoveTo(r, pc) == request' = [request EXCEPT ![r].pc = pc]

End(r) == request' = Drop(request, r)

\* An await throws or the process dies: what was done stays done.
RequestFails(r) ==
    /\ r \in DOMAIN request
    /\ End(r)
    /\ UNCHANGED <<stripeVars, memberVars, bankVars, acceptVars>>

\* accountLinks.create; its link is all the user gets.
Onboard(r) ==
    /\ At(r, "onboard")
    /\ End(r)
    /\ UNCHANGED <<stripeVars, memberVars, bankVars, acceptVars>>

-----------------------------------------------------------------------------
(* Accounts of fundraisers                                                 *)

\* StripeController.createConnectAccount: Stripe makes the account at once.
CreateConnectAccount(u) ==
    LET a == NewKey(Account, account) IN
    /\ HasRoom(Account, account)
    /\ account' = Put(account, a, [userId |-> u, organizationId |-> None])
    /\ Start("save", u, None, a, None)
    /\ UNCHANGED <<said, memberVars, bankVars, acceptVars>>

HasBankAccount(u) == \E a \in DOMAIN bankAccount : bankAccount[a].userId = u

\* Mutant of SaveBankAccount: an error of the database goes unnoticed.
SaveBankAccountOrGoOn(r) ==
    LET a == request[r].account
        u == request[r].userId IN
    /\ At(r, "save")
    /\ bankAccount' = IF HasBankAccount(u) THEN bankAccount
                      ELSE Put(bankAccount, a, [userId |-> u, status |-> "new"])
    /\ MoveTo(r, "onboard")
    /\ UNCHANGED <<stripeVars, memberVars, organizationBankAccount, acceptVars>>

\* A user has one bank account: a second one is refused by the database, also
\* when the webhook has stored the very account of this request.
SaveBankAccount(r) ==
    LET a == request[r].account
        u == request[r].userId IN
    /\ At(r, "save")
    /\ IF HasBankAccount(u)
       THEN /\ End(r)
            /\ UNCHANGED bankAccount
       ELSE /\ bankAccount' = Put(bankAccount, a, [userId |-> u, status |-> "new"])
            /\ MoveTo(r, "onboard")
    /\ UNCHANGED <<stripeVars, memberVars, organizationBankAccount, acceptVars>>

-----------------------------------------------------------------------------
(* Accounts of organizations                                               *)

\* createOrganizationAccountLink reads the user, the organization and its
\* account; with an account there is nothing to create.
AskOrganizationAccount(u) ==
    LET o == member[u] IN
    /\ o # None
    /\ IF o \in DOMAIN organizationBankAccount
       THEN Start("upsert", u, o, organizationBankAccount[o].id, None)
       ELSE Start("create", u, o, None, None)
    /\ UNCHANGED <<stripeVars, memberVars, bankVars, acceptVars>>

\* Mutant of CreateOrganizationAccount: the id of the answer is not taken.
CreateOrganizationAccountNoId(r) ==
    LET a == NewKey(Account, account) IN
    /\ At(r, "create")
    /\ HasRoom(Account, account)
    /\ account' = Put(account, a,
          [userId |-> request[r].userId,
           organizationId |-> request[r].organizationId])
    /\ MoveTo(r, "upsert")
    /\ UNCHANGED <<said, memberVars, bankVars, acceptVars>>

CreateOrganizationAccount(r) ==
    LET a == NewKey(Account, account) IN
    /\ At(r, "create")
    /\ HasRoom(Account, account)
    /\ account' = Put(account, a,
          [userId |-> request[r].userId,
           organizationId |-> request[r].organizationId])
    /\ request' = [request EXCEPT ![r] =
          [@ EXCEPT !.pc = "upsert", !.account = a]]
    /\ UNCHANGED <<said, memberVars, bankVars, acceptVars>>

\* The upsert gives an existing row another id and keeps its status.
SaveOrganizationAccount(r) ==
    LET o == request[r].organizationId
        a == request[r].account IN
    /\ At(r, "upsert")
    /\ organizationBankAccount' = Put(organizationBankAccount, o,
          [id |-> a,
           status |-> IF o \in DOMAIN organizationBankAccount
                      THEN organizationBankAccount[o].status ELSE "new"])
    /\ MoveTo(r, "onboard")
    /\ UNCHANGED <<stripeVars, memberVars, bankAccount, acceptVars>>

-----------------------------------------------------------------------------
(* account.updated                                                         *)

\* Stripe changes its mind about account a and owes an event.
StripeSays(a, s) ==
    /\ a \in DOMAIN account
    /\ s # "new"
    /\ said' = said \cup {[account |-> a, status |-> s]}
    /\ UNCHANGED <<account, memberVars, bankVars, acceptVars, request>>

\* _hanleConnectAccountUpdatedEvent, metadata with an organizationId: the row
\* is found by the organization, whatever account it names.
OrganizationAccountUpdated(e) ==
    LET o == account[e.account].organizationId IN
    /\ e \in said
    /\ o # None
    /\ organizationBankAccount' = Put(organizationBankAccount, o,
          [id |-> IF o \in DOMAIN organizationBankAccount
                  THEN organizationBankAccount[o].id ELSE e.account,
           status |-> e.status])
    /\ UNCHANGED <<stripeVars, memberVars, bankAccount, acceptVars, request>>

\* Mutants of UserAccountUpdated: the organization's accounts too; the row is
\* found by its user.
UserAccountUpdatedAnyway(e) ==
    LET u == account[e.account].userId IN
    /\ e \in said
    /\ e.account \in DOMAIN bankAccount \/ ~HasBankAccount(u)
    /\ bankAccount' = Put(bankAccount, e.account,
          [userId |-> u, status |-> e.status])
    /\ UNCHANGED <<stripeVars, memberVars, organizationBankAccount, acceptVars,
                   request>>
UserAccountUpdatedByUser(e) ==
    LET u == account[e.account].userId IN
    /\ e \in said
    /\ account[e.account].organizationId = None
    /\ bankAccount' =
          IF HasBankAccount(u)
          THEN [a \in DOMAIN bankAccount |->
                  IF bankAccount[a].userId = u
                  THEN [bankAccount[a] EXCEPT !.status = e.status]
                  ELSE bankAccount[a]]
          ELSE Put(bankAccount, e.account, [userId |-> u, status |-> e.status])
    /\ UNCHANGED <<stripeVars, memberVars, organizationBankAccount, acceptVars,
                   request>>

\* The same without one: the row is found by its id.  Storing a second account
\* of a user is refused and answered with 500, so Stripe will send it again.
UserAccountUpdated(e) ==
    LET u == account[e.account].userId IN
    /\ e \in said
    /\ account[e.account].organizationId = None
    /\ e.account \in DOMAIN bankAccount \/ ~HasBankAccount(u)
    /\ bankAccount' = Put(bankAccount, e.account,
          [userId |-> u, status |-> e.status])
    /\ UNCHANGED <<stripeVars, memberVars, organizationBankAccount, acceptVars,
                   request>>

-----------------------------------------------------------------------------
(* Organizations                                                           *)

\* OrganizationsService.create, first write.  The second one connects
\* createdOrganization[0], which is any organization u has created.
CreateOrganization(u, o) ==
    /\ o \notin DOMAIN creator
    /\ creator' = Put(creator, o, u)
    /\ \E first \in DOMAIN creator' :
          /\ creator'[first] = u
          /\ Start("connect", u, first, None, None)
    /\ UNCHANGED <<stripeVars, member, bankVars, acceptVars>>

ConnectOrganization(r) ==
    /\ At(r, "connect")
    /\ member' = [member EXCEPT ![request[r].userId] = request[r].organizationId]
    /\ End(r)
    /\ UNCHANGED <<stripeVars, creator, bankVars, acceptVars>>

JoinOrganization(u, o) ==
    /\ o \in DOMAIN creator
    /\ member' = [member EXCEPT ![u] = o]
    /\ UNCHANGED <<stripeVars, creator, bankVars, acceptVars, request>>

-----------------------------------------------------------------------------
(* Collaborations                                                          *)

\* CollaborationsService.create: pending until an organization accepts it.
LaunchCollaboration(c) ==
    /\ c \notin DOMAIN collaboration
    /\ collaboration' = Put(collaboration, c, None)
    /\ UNCHANGED <<stripeVars, memberVars, bankVars, accepted, request>>

\* Mutant of CanBePaid: any bank account will do.
HasAccount(o) == o \in DOMAIN organizationBankAccount

\* The bank status that organizationAcceptCollaboration checks.
CanBePaid(o) ==
    /\ o \in DOMAIN organizationBankAccount
    /\ organizationBankAccount[o].status = "able"

\* organizationAcceptCollaboration up to its checks; every failed check and
\* every user without an organization is an error that changes nothing.
AskToAccept(u, c) ==
    LET o == member[u] IN
    /\ o # None
    /\ CanBePaid(o)
    /\ Start("accept", u, o, organizationBankAccount[o].id, c)
    /\ UNCHANGED <<stripeVars, memberVars, bankVars, acceptVars>>

\* Its update, of whatever the collaboration has become.
AcceptCollaboration(r) ==
    LET c == request[r].collaboration
        o == request[r].organizationId IN
    /\ At(r, "accept")
    /\ c \in DOMAIN collaboration
    /\ collaboration' = [collaboration EXCEPT ![c] = o]
    /\ accepted' = accepted \cup
          {[collaboration |-> c, organization |-> o,
            account |-> request[r].account]}
    /\ End(r)
    /\ UNCHANGED <<stripeVars, memberVars, bankVars>>

-----------------------------------------------------------------------------
Ask ==
    \E u \in User :
        \/ CreateConnectAccount(u)
        \/ AskOrganizationAccount(u)
        \/ \E o \in Organization : CreateOrganization(u, o) \/ JoinOrganization(u, o)
        \/ \E c \in Collaboration : AskToAccept(u, c)

Continue(r) ==
    \/ SaveBankAccount(r)
    \/ CreateOrganizationAccount(r)
    \/ SaveOrganizationAccount(r)
    \/ Onboard(r)
    \/ ConnectOrganization(r)
    \/ AcceptCollaboration(r)

Stripe ==
    \/ \E a \in Account, s \in Status : StripeSays(a, s)
    \/ \E e \in said : OrganizationAccountUpdated(e) \/ UserAccountUpdated(e)

Next ==
    \/ Ask
    \/ \E r \in Request : Continue(r) \/ RequestFails(r)
    \/ Stripe
    \/ \E c \in Collaboration : LaunchCollaboration(c)

Spec == Init /\ [][Next]_vars

-----------------------------------------------------------------------------
(* Properties                                                              *)

\* Money is sent to the account a row names: the account of a bank_accounts row
\* was made for that user, the account of an organization_bank_accounts row for
\* that organization, whoever stored it (the request that made the account, a
\* later one, or account.updated) and in whatever order.
RowsNameTheirOwners ==
    /\ \A a \in DOMAIN bankAccount :
           /\ a \in DOMAIN account
           /\ account[a].userId = bankAccount[a].userId
           /\ account[a].organizationId = None
    /\ \A o \in DOMAIN organizationBankAccount :
           LET a == organizationBankAccount[o].id IN
           a \in DOMAIN account /\ account[a].organizationId = o

\* The status of a fundraiser's row is one that Stripe did report for that very
\* account, however late or often its events come.
StatusWasSaid ==
    \A a \in DOMAIN bankAccount :
        bankAccount[a].status # "new" =>
            [account |-> a, status |-> bankAccount[a].status] \in said

\* Accounts made for organization o.
AccountsOf(o) == {a \in DOMAIN account : account[a].organizationId = o}

\* Only an organization that Stripe reported able to be paid, by one of its
\* accounts, ever gets a collaboration, although the membership and the bank
\* status may change between the check and the update.
AcceptedWasAble ==
    \A c \in DOMAIN collaboration : collaboration[c] # None =>
        \E a \in AccountsOf(collaboration[c]) :
            [account |-> a, status |-> "able"] \in said

\* Who gets an onboarding link from createConnectAccount gets it for the account
\* that the database has for them: filling in any other one would leave them
\* with an account no donation is sent to.
LinkedIsStored ==
    \A r \in DOMAIN request :
        request[r].pc = "onboard" /\ request[r].organizationId = None =>
            /\ request[r].account \in DOMAIN bankAccount
            /\ bankAccount[request[r].account].userId = request[r].userId

\* "Check organization bank status" (collaborations.service.ts:175): the account
\* that the accepted organization's row named was able to be paid.
AcceptedAccountWasAble ==
    \A x \in accepted : [account |-> x.account, status |-> "able"] \in said
=============================================================================
