----------------------------- MODULE TaxReceipts -----------------------------
(***************************************************************************)
(* Tax receipts: a PDF of a user's donations of a year, made when it is    *)
(* first asked for and kept from then on (UsersService, src/users, and     *)
(* TaxReceiptGenerator).                                                   *)
(*                                                                         *)
(* Asking looks for the row of the receipt, then reads donations, uploads  *)
(* the PDF and creates the row: four awaits, between which the user may    *)
(* donate, the year may end and the same receipt may be asked for again.   *)
(***************************************************************************)
EXTENDS Tables, Naturals, Sequences

CONSTANTS
    User,
    LastYear,       \* bound: years are 1 to LastYear
    MaxDonations,   \* bound on the donations of a user
    Receipt,        \* ids of rows of tax_receipt_reports
    Request,        \* requests being handled; a request that ends frees its id
    None            \* no year: a request need not give one

ASSUME BoundsAssumption == LastYear \in Nat \ {0} /\ MaxDonations \in Nat
ASSUME NoYearAssumption == None \notin Nat

VARIABLES
    now,            \* the year
    donation,       \* the years of each user's donations, in order of createdAt
    profile,        \* users whose identity number, phone and address are set
    file,           \* the donations that each PDF in storage lists
    receipt,        \* table tax_receipt_reports
    request

vars == <<now, donation, profile, file, receipt, request>>

-----------------------------------------------------------------------------
Year == 1..LastYear

\* findUserDonationGroupByYear: take: 3
Take == 3

ReceiptRow == [userId: User, year: Year]

\* found: the donations read, by their places.
RequestRow == [pc: {"look", "read", "none", "upload", "create"},
               userId: User, year: Year \cup {None},
               found: SUBSET (1..MaxDonations)]

TypeOK ==
    /\ now \in Year
    /\ donation \in [User -> Seq(Year)]
    /\ \A u \in User : Len(donation[u]) <= MaxDonations
    /\ profile \subseteq User
    /\ IsTable(file, User \X Year, SUBSET (1..MaxDonations))
    /\ IsTable(receipt, Receipt, ReceiptRow)
    /\ IsTable(request, Request, RequestRow)

Init ==
    /\ now = 1
    /\ donation = [u \in User |-> <<>>]
    /\ profile = {}
    /\ file = EmptyTable
    /\ receipt = EmptyTable
    /\ request = EmptyTable

-----------------------------------------------------------------------------
At(r, pc) == r \in DOMAIN request /\ request[r].pc = pc

End(r) == request' = Drop(request, r)

NewYear ==
    /\ now < LastYear
    /\ now' = now + 1
    /\ UNCHANGED <<donation, profile, file, receipt, request>>

Donate(u) ==
    /\ Len(donation[u]) < MaxDonations
    /\ donation' = [donation EXCEPT ![u] = Append(@, now)]
    /\ UNCHANGED <<now, profile, file, receipt, request>>

\* updateProfile sets columns to what is given, and never back to null.
CompleteProfile(u) ==
    /\ profile' = profile \cup {u}
    /\ UNCHANGED <<now, donation, file, receipt, request>>

-----------------------------------------------------------------------------
(* UsersService.findUserDonationReceipt                                    *)

\* "Please complete your identity number (NRIC/Passpoer No.) first".  The year
\* of the query string may be left out.
AskForReceipt(u, y) ==
    /\ u \in profile
    /\ HasRoom(Request, request)
    /\ request' = Put(request, NewKey(Request, request),
          [pc |-> "look", userId |-> u, year |-> y, found |-> {}])
    /\ UNCHANGED <<now, donation, profile, file, receipt>>

\* A condition on an undefined year is none: any receipt of the user will do.
HasReceipt(u, y) ==
    \E k \in DOMAIN receipt :
        receipt[k].userId = u /\ y \in {receipt[k].year, None}

\* Mutant of LookForReceipt: what is found is not answered.
LookForReceiptIdly(r) ==
    /\ At(r, "look")
    /\ request' = [request EXCEPT ![r].pc = "read"]
    /\ UNCHANGED <<now, donation, profile, file, receipt>>

LookForReceipt(r) ==
    /\ At(r, "look")
    /\ IF HasReceipt(request[r].userId, request[r].year)
       THEN End(r)
       ELSE request' = [request EXCEPT ![r].pc = "read"]
    /\ UNCHANGED <<now, donation, profile, file, receipt>>

OfYear(u, y) == {i \in DOMAIN donation[u] : donation[u][i] = y}

\* Mutant of Latest: the latest one is skipped.
LatestButOne(u) ==
    {i \in DOMAIN donation[u] : i > Len(donation[u]) - Take /\ i # Len(donation[u])}

\* The places of the user's latest donations.
Latest(u) == {i \in DOMAIN donation[u] : i > Len(donation[u]) - Take}

\* findUserDonationGroupByYear: of what was read, the group of the year.  There
\* is no group of no year.
Grouped(u, y) == Latest(u) \cap OfYear(u, y)

\* "1. Check user have donations at that year"
ReadDonations(r) ==
    LET u == request[r].userId
        y == request[r].year IN
    /\ At(r, "read")
    /\ request' = [request EXCEPT
           ![r].found = Grouped(u, y),
           ![r].pc = IF Grouped(u, y) = {} THEN "none" ELSE "upload"]
    /\ UNCHANGED <<now, donation, profile, file, receipt>>

\* "No donation found for year ..."
AnswerNone(r) ==
    /\ At(r, "none")
    /\ End(r)
    /\ UNCHANGED <<now, donation, profile, file, receipt>>

\* "2. Generate donation receipt": the PDF lists what was found, and replaces
\* the one of the same user and year.
UploadReceipt(r) ==
    /\ At(r, "upload")
    /\ file' = Put(file, <<request[r].userId, request[r].year>>,
                   request[r].found)
    /\ request' = [request EXCEPT ![r].pc = "create"]
    /\ UNCHANGED <<now, donation, profile, receipt>>

\* "Failed to upload receipt pdf file"
UploadFails(r) ==
    /\ At(r, "upload")
    /\ End(r)
    /\ UNCHANGED <<now, donation, profile, file, receipt>>

\* Mutant of CreateReceipt: the year, which is optional, is left out.
CreateReceiptNoYear(r) ==
    /\ At(r, "create")
    /\ HasRoom(Receipt, receipt)
    /\ receipt' = Put(receipt, NewKey(Receipt, receipt),
                      [userId |-> request[r].userId])
    /\ End(r)
    /\ UNCHANGED <<now, donation, profile, file>>

CreateReceipt(r) ==
    /\ At(r, "create")
    /\ HasRoom(Receipt, receipt)
    /\ receipt' = Put(receipt, NewKey(Receipt, receipt),
          [userId |-> request[r].userId, year |-> request[r].year])
    /\ End(r)
    /\ UNCHANGED <<now, donation, profile, file>>

\* An await throws, or the process dies.
RequestFails(r) ==
    /\ r \in DOMAIN request
    /\ End(r)
    /\ UNCHANGED <<now, donation, profile, file, receipt>>

-----------------------------------------------------------------------------
Continue(r) ==
    \/ LookForReceipt(r) \/ ReadDonations(r) \/ AnswerNone(r)
    \/ UploadReceipt(r) \/ UploadFails(r) \/ CreateReceipt(r)
    \/ RequestFails(r)

Next ==
    \/ NewYear
    \/ \E u \in User : Donate(u) \/ CompleteProfile(u)
    \/ \E u \in User, y \in Year \cup {None} : AskForReceipt(u, y)
    \/ \E r \in Request : Continue(r)

Spec == Init /\ [][Next]_vars

-----------------------------------------------------------------------------
(* Properties                                                              *)

\* What the query gave of the year when the user had made n donations.
GivenAt(u, y, n) == {i \in OfYear(u, y) : n - Take < i /\ i <= n}

\* Donations ds are what one query has given, sometime.
ReadOnce(u, y, ds) ==
    /\ ds # {}
    /\ \E n \in 0..Len(donation[u]) : ds = GivenAt(u, y, n)

\* A receipt that a row names is in storage, and however many requests made
\* and replaced it, it lists at least one donation, none of another year, and
\* just what there was of the year among the user's latest three at one moment:
\* what it leaves out came later, or was the fourth or older by then
\* (users.service.ts:155, :217-227).  It need not be the latest such moment.
ReceiptsListTheYear ==
    \A k \in DOMAIN receipt :
        LET u == receipt[k].userId
            y == receipt[k].year IN
        /\ <<u, y>> \in DOMAIN file
        /\ ReadOnce(u, y, file[<<u, y>>])

\* A receipt has been made, and no request is left that looked for it before.
Settled(u, y) ==
    /\ HasReceipt(u, y)
    /\ \A r \in DOMAIN request :
           /\ request[r].userId = u
           /\ request[r].year = y
           => request[r].pc = "look"

RowsOf(u, y) ==
    {k \in DOMAIN receipt : receipt[k].userId = u /\ receipt[k].year = y}

\* Only requests that overlap its making replace a receipt's PDF or add a row
\* to it: once they have ended, both stay as they are, whoever asks again and
\* whatever is donated (users.service.ts:195-206 looks before anything else).
ReceiptsSettle ==
    [][\A u \in User, y \in Year : Settled(u, y) =>
           /\ Settled(u, y)'
           /\ RowsOf(u, y)' = RowsOf(u, y)
           /\ file'[<<u, y>>] = file[<<u, y>>]]_vars
=============================================================================
