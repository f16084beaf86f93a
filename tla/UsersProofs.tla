----------------------------- MODULE UsersProofs -----------------------------
(***************************************************************************)
(* Proofs about Users, for any number of users and requests.               *)
(*                                                                         *)
(* SessionsLast and NewCustomersStop speak of requests only.  They follow  *)
(* from what the rows hold: a token since the first session was answered,  *)
(* and a customer since the first payment was about to be.  Neither field  *)
(* is ever emptied, so what a request reads later is not null.             *)
(* TaxReceipts is proved about at the end: UsersService serves it too.     *)
(***************************************************************************)
EXTENDS Users, Naturals, Sequences, TLAPS

-----------------------------------------------------------------------------
(* The inductive invariant                                                 *)

\* Who was answered a session is stored, with a token.
SessionsAreStored ==
    \A u \in User : held[u] # {} =>
        u \in DOMAIN user /\ user[u].refreshToken # None

\* Who was answered a payment has a customer, and the stored ones are theirs.
CustomersAreStored ==
    /\ \A u \in paid : u \in DOMAIN user /\ user[u].stripeCustomerId # None
    /\ \A u \in DOMAIN user : user[u].stripeCustomerId # None =>
           /\ user[u].stripeCustomerId \in customer
           /\ user[u].stripeCustomerId.userId = u

\* Customers are made by first payments.
FirstPaymentsMake ==
    \A c \in customer :
        c.by \in DOMAIN request /\ request[c.by].kind = "pay" /\ ~request[c.by].before

\* What request r has found out, row by row.
Knows(r) ==
    LET q == request[r] IN
    /\ q.pc \in {"create", "read", "save"} => q.kind # "pay"
    /\ q.pc \in {"look", "make", "keep", "intend"} => q.kind = "pay"
    /\ q.pc = "create" => q.kind = "signUp"
    /\ q.pc = "save" => q.userId \in DOMAIN user
    /\ q.kind = "pay" => q.userId \in DOMAIN user
    /\ q.kind # "pay" /\ q.before => held[q.userId] # {}
    /\ q.kind = "pay" /\ q.before => q.userId \in paid
    /\ q.pc = "keep" =>
           q.customer = [userId |-> q.userId, by |-> r] /\ q.customer \in customer
    /\ q.pc = "intend" => user[q.userId].stripeCustomerId # None

RequestsKnow == \A r \in DOMAIN request : Knows(r)

IInv ==
    /\ TypeOK /\ SessionsLast /\ NewCustomersStop
    /\ SessionsAreStored /\ CustomersAreStored /\ FirstPaymentsMake /\ RequestsKnow

\* At first nobody is stored and nothing is asked.
LEMMA InitIInv == Init => IInv
BY DEF Init, IInv, TypeOK, SessionsLast, NewCustomersStop, SessionsAreStored,
       CustomersAreStored, FirstPaymentsMake, RequestsKnow, IsTable,
       EmptyTable

-----------------------------------------------------------------------------
(* Requests                                                                *)

Steps == Live \cup {"answered", "refused", "failed"}

\* The row of a request that has just been made.
Asked(kind, u, before, pc) ==
    [kind |-> kind, userId |-> u, before |-> before, pc |-> pc,
     token |-> None, customer |-> None]

\* A request that starts adds one row, under a key that was free.
LEMMA AskAdds ==
    ASSUME TypeOK, NEW kind \in Kind, NEW pc \in Steps, NEW u \in User,
           NEW before \in BOOLEAN, Ask(kind, pc, u, before)
    PROVE  \E n \in Request :
              /\ n \notin DOMAIN request
              /\ IsTable(request', Request, RequestRow)
              /\ DOMAIN request' = DOMAIN request \cup {n}
              /\ request'[n] = Asked(kind, u, before, pc)
              /\ \A r \in DOMAIN request : request'[r] = request[r]
<1>. DEFINE n == NewKey(Request, request)
            q == Asked(kind, u, before, pc)
<1>1. n \in Request /\ n \notin DOMAIN request
  BY DEF Ask, NewKey, HasRoom
<1>2. q \in RequestRow
  BY DEF RequestRow, Steps, Optional, Asked
<1>3. request' = Put(request, n, q)
  BY DEF Ask, Asked
<1>. HIDE DEF n, q
<1>4. IsTable(request', Request, RequestRow)
  BY <1>1, <1>2, <1>3 DEF TypeOK, IsTable, Put
<1>5. /\ DOMAIN request' = DOMAIN request \cup {n}
      /\ request'[n] = q
      /\ \A r \in DOMAIN request : request'[r] = request[r]
  BY <1>1, <1>3 DEF Put
<1>. QED
  BY <1>1, <1>2, <1>4, <1>5 DEF q

\* A request that goes on keeps who asked for what; the others stay.
LEMMA GoMoves ==
    ASSUME TypeOK, NEW r \in DOMAIN request, NEW pc \in Steps,
           NEW t \in Optional(Token), NEW c \in Optional(Customer), Go(r, pc, t, c)
    PROVE  /\ IsTable(request', Request, RequestRow)
           /\ DOMAIN request' = DOMAIN request
           /\ request'[r].kind = request[r].kind
           /\ request'[r].userId = request[r].userId
           /\ request'[r].before = request[r].before
           /\ request'[r].pc = pc
           /\ request'[r].token = t
           /\ request'[r].customer = c
           /\ \A o \in DOMAIN request \ {r} : request'[o] = request[o]
<1>. DEFINE q == [request[r] EXCEPT !.pc = pc, !.token = t, !.customer = c]
<1>1. request[r] \in RequestRow
  BY DEF TypeOK, IsTable
<1>2. request' = [request EXCEPT ![r] = q]
  BY DEF Go, TypeOK, IsTable
<1>3. /\ q \in RequestRow /\ q.pc = pc /\ q.token = t /\ q.customer = c
      /\ q.kind = request[r].kind /\ q.userId = request[r].userId
      /\ q.before = request[r].before
  BY <1>1 DEF RequestRow, Steps
<1>. HIDE DEF q
<1>4. IsTable(request', Request, RequestRow)
  BY <1>2, <1>3 DEF TypeOK, IsTable
<1>5. DOMAIN request' = DOMAIN request
  BY <1>2
<1>. QED
  BY <1>2, <1>3, <1>4, <1>5

\* A request that is refused or fails keeps all but its step.
LEMMA StopMoves ==
    ASSUME TypeOK, NEW r \in DOMAIN request, NEW pc \in {"refused", "failed"},
           request' = [request EXCEPT ![r].pc = pc]
    PROVE  Go(r, pc, request[r].token, request[r].customer)
BY DEF Go, TypeOK, IsTable, RequestRow

\* What the row of a request is.
LEMMA RowType ==
    ASSUME TypeOK, NEW r \in DOMAIN request
    PROVE  /\ r \in Request
           /\ request[r].kind \in Kind
           /\ request[r].userId \in User
           /\ request[r].before \in BOOLEAN
           /\ request[r].pc \in Steps
           /\ request[r].token \in Optional(Token)
           /\ request[r].customer \in Optional(Customer)
BY DEF TypeOK, IsTable, RequestRow, Steps

-----------------------------------------------------------------------------
(* Steps                                                                   *)

\* Rows, customers and histories only grow, and a customer field once set
\* stays set.
Grows ==
    /\ DOMAIN user \subseteq DOMAIN user'
    /\ \A u \in DOMAIN user :
           user[u].stripeCustomerId # None => user'[u].stripeCustomerId # None
    /\ customer \subseteq customer'
    /\ \A u \in User : held[u] \subseteq held'[u]
    /\ paid \subseteq paid'

\* Growth leaves what is known of a request true.
LEMMA StillKnows ==
    ASSUME IInv, Grows, NEW r \in DOMAIN request, r \in DOMAIN request',
           request'[r] = request[r]
    PROVE  Knows(r)'
<1>1. Knows(r)
  BY DEF IInv, RequestsKnow
<1>2. request[r].userId \in User
  BY RowType DEF IInv
<1>. QED
  BY <1>1, <1>2 DEF Knows, Grows

\* A new request that knows what its kind demands keeps the invariant.
LEMMA AskKeeps ==
    ASSUME IInv, NEW kind \in Kind, NEW pc \in Steps, NEW u \in User,
           NEW before \in BOOLEAN, Ask(kind, pc, u, before),
           kind = "signUp" => pc = "create",
           kind \in {"signIn", "refresh"} => pc = "read",
           kind = "pay" => pc = "look",
           kind # "pay" /\ before => held[u] # {},
           kind = "pay" => held[u] # {},
           kind = "pay" /\ before => u \in paid
    PROVE  IInv'
<1>1. TypeOK /\ RequestsKnow /\ SessionsAreStored /\ FirstPaymentsMake
      /\ CustomersAreStored /\ SessionsLast /\ NewCustomersStop
  BY DEF IInv
<1>2. PICK n \in Request :
              /\ n \notin DOMAIN request
              /\ IsTable(request', Request, RequestRow)
              /\ DOMAIN request' = DOMAIN request \cup {n}
              /\ request'[n] = Asked(kind, u, before, pc)
              /\ \A r \in DOMAIN request : request'[r] = request[r]
  BY <1>1, AskAdds
<1>3. UNCHANGED <<user, customer, held, paid>> /\ Grows
  BY DEF Ask, Grows
<1>4. pc \notin {"save", "answered", "refused", "make", "keep", "intend"}
      /\ (pc \in {"create", "read"} <=> kind # "pay")
      /\ (pc = "look" <=> kind = "pay") /\ (pc = "create" <=> kind = "signUp")
  BY DEF Kind
<1>5. /\ request'[n].kind = kind /\ request'[n].userId = u
      /\ request'[n].before = before /\ request'[n].pc = pc
  BY <1>2 DEF Asked
<1>6. Knows(n)'
  BY <1>5, <1>1, <1>3, <1>4 DEF Knows, SessionsAreStored
<1>7. RequestsKnow'
  BY <1>2, <1>3, <1>6, StillKnows DEF RequestsKnow
<1>8. SessionsLast'
  BY <1>5, <1>1, <1>2, <1>4 DEF SessionsLast
<1>9. NewCustomersStop'
  BY <1>5, <1>1, <1>2, <1>3, <1>4 DEF NewCustomersStop
<1>10. TypeOK' /\ SessionsAreStored' /\ CustomersAreStored'
  BY <1>1, <1>2, <1>3 DEF TypeOK, SessionsAreStored, CustomersAreStored
<1>11. FirstPaymentsMake'
  BY <1>1, <1>2, <1>3 DEF FirstPaymentsMake
<1>. QED
  BY <1>7, <1>8, <1>9, <1>10, <1>11 DEF IInv

\* A step of request r keeps what the invariant says of requests, if it is
\* right about r and the tables grow.
LEMMA GoKeeps ==
    ASSUME IInv, Grows, NEW r \in DOMAIN request, NEW pc \in Steps,
           NEW t \in Optional(Token), NEW c \in Optional(Customer), Go(r, pc, t, c),
           Knows(r)',
           request[r].kind \in {"signIn", "refresh"} /\ request[r].before =>
               pc # "refused" /\ (pc \in {"save", "answered"} => t # None),
           request[r].kind = "pay" =>
               /\ request[r].before => pc \notin {"make", "keep"}
               /\ pc \in {"intend", "answered"} =>
                      /\ c \in customer'
                      /\ c.userId = request[r].userId
                      /\ request[r].before => c.by # r,
           \A k \in customer' \ customer :
               k.by = r /\ request[r].kind = "pay" /\ ~request[r].before
    PROVE  /\ IsTable(request', Request, RequestRow)
           /\ SessionsLast' /\ NewCustomersStop' /\ FirstPaymentsMake' /\ RequestsKnow'
<1>1. TypeOK /\ RequestsKnow /\ FirstPaymentsMake /\ SessionsLast /\ NewCustomersStop
  BY DEF IInv
<1>2. /\ IsTable(request', Request, RequestRow)
      /\ DOMAIN request' = DOMAIN request
      /\ request'[r].kind = request[r].kind
      /\ request'[r].userId = request[r].userId
      /\ request'[r].before = request[r].before
      /\ request'[r].pc = pc
      /\ request'[r].token = t
      /\ request'[r].customer = c
      /\ \A o \in DOMAIN request \ {r} : request'[o] = request[o]
  BY <1>1, GoMoves
<1>3. RequestsKnow'
  BY <1>2, StillKnows DEF RequestsKnow
<1>4. SessionsLast'
  BY <1>1, <1>2 DEF SessionsLast
<1>5. NewCustomersStop'
  <2>1. customer \subseteq customer'
    BY DEF Grows
  <2>. SUFFICES ASSUME NEW o \in DOMAIN request, request'[o].kind = "pay"
                PROVE  /\ request'[o].before => request'[o].pc \notin {"make", "keep"}
                       /\ request'[o].pc \in {"intend", "answered"} =>
                              /\ request'[o].customer \in customer'
                              /\ request'[o].customer.userId = request'[o].userId
                              /\ request'[o].before => request'[o].customer.by # o
    BY <1>2 DEF NewCustomersStop
  <2>2. CASE o = r
    BY <1>2, <2>2
  <2>3. CASE o # r
    BY <1>1, <1>2, <2>1, <2>3 DEF NewCustomersStop
  <2>. QED
    BY <2>2, <2>3
<1>6. FirstPaymentsMake'
  <2>. SUFFICES ASSUME NEW k \in customer'
                PROVE  /\ k.by \in DOMAIN request' /\ request'[k.by].kind = "pay"
                       /\ ~request'[k.by].before
    BY DEF FirstPaymentsMake
  <2>1. CASE k \in customer
    BY <1>1, <1>2, <2>1 DEF FirstPaymentsMake
  <2>2. CASE k \notin customer
    BY <1>2, <2>2
  <2>. QED
    BY <2>1, <2>2
<1>. QED
  BY <1>2, <1>3, <1>4, <1>5, <1>6

-----------------------------------------------------------------------------
(* Each action keeps the invariant                                         *)

\* The requests that users make.
LEMMA ArriveKeeps == IInv /\ Arrive => IInv'
<1>. SUFFICES ASSUME IInv, NEW u \in User,
                     AskSignUp(u) \/ AskSignIn(u) \/ AskRefresh(u) \/ AskPay(u)
              PROVE  IInv'
  BY DEF Arrive
<1>1. CASE AskSignUp(u)
  BY <1>1, AskKeeps DEF AskSignUp, HasSession, Kind, Steps, Live
<1>2. CASE AskSignIn(u)
  BY <1>2, AskKeeps DEF AskSignIn, HasSession, Kind, Steps, Live
<1>3. CASE AskRefresh(u)
  <2>1. held[u] # {}
    BY <1>3 DEF AskRefresh
  <2>. QED
    BY <1>3, <2>1, AskKeeps DEF AskRefresh, Kind, Steps, Live
<1>4. CASE AskPay(u)
  <2>1. /\ held[u] # {} /\ Ask("pay", "look", u, u \in paid)
        /\ "pay" \in Kind /\ "look" \in Steps /\ (u \in paid) \in BOOLEAN
    BY <1>4 DEF AskPay, HasSession, Kind, Steps, Live
  <2>. QED
    BY <2>1, AskKeeps
<1>. QED
  BY <1>1, <1>2, <1>3, <1>4

\* A sign-up inserts a row without token and customer, or is refused.
LEMMA CreateUserKeeps ==
    ASSUME IInv, NEW r \in Request, CreateUser(r) PROVE IInv'
<1>. DEFINE u == request[r].userId
<1>1. /\ TypeOK /\ SessionsAreStored /\ CustomersAreStored /\ RequestsKnow
      /\ r \in DOMAIN request /\ request[r].pc = "create" /\ u \in User /\ Knows(r)
      /\ UNCHANGED <<customer, held, paid>>
  BY RowType DEF IInv, RequestsKnow, CreateUser, At
<1>2. request[r].kind = "signUp"
  BY <1>1 DEF Knows
<1>3. CASE u \in DOMAIN user
  <2>1. UNCHANGED user /\ Go(r, "refused", request[r].token, request[r].customer)
    BY <1>1, <1>3, StopMoves DEF CreateUser, Refuse
  <2>2. Grows
    BY <1>1, <2>1 DEF Grows
  <2>3. /\ request'[r].kind = request[r].kind /\ request'[r].userId = u
        /\ request'[r].pc = "refused" /\ request'[r].before = request[r].before
    BY <1>1, <2>1, RowType, GoMoves DEF Steps
  <2>4. Knows(r)'
    BY <1>1, <1>2, <2>1, <2>3 DEF Knows
  <2>5. /\ IsTable(request', Request, RequestRow)
        /\ SessionsLast' /\ NewCustomersStop' /\ FirstPaymentsMake' /\ RequestsKnow'
    BY <1>1, <1>2, <2>1, <2>2, <2>4, RowType, GoKeeps DEF Steps
  <2>. QED
    BY <1>1, <2>1, <2>5 DEF IInv, TypeOK, SessionsAreStored, CustomersAreStored
<1>4. CASE u \notin DOMAIN user
  <2>. DEFINE row == [refreshToken |-> None, stripeCustomerId |-> None]
  <2>1. user' = Put(user, u, row) /\ Go(r, "save", Signed(r), None)
    BY <1>4 DEF CreateUser
  <2>2. row \in UserRow /\ Signed(r) \in Token
    BY <1>1 DEF UserRow, Optional, Signed, Token
  <2>3. IsTable(user', User, UserRow)
    BY <1>1, <2>1, <2>2 DEF TypeOK, IsTable, Put
  <2>4. /\ DOMAIN user' = DOMAIN user \cup {u} /\ user'[u] = row
        /\ \A o \in DOMAIN user : user'[o] = user[o]
    BY <1>4, <2>1 DEF Put
  <2>5. Grows
    BY <1>1, <2>4 DEF Grows
  <2>6. /\ request'[r].kind = request[r].kind /\ request'[r].userId = u
        /\ request'[r].pc = "save" /\ request'[r].before = request[r].before
    BY <1>1, <2>1, <2>2, GoMoves DEF Steps, Live, Optional
  <2>7. Knows(r)'
    BY <1>1, <1>2, <2>4, <2>6 DEF Knows
  <2>8. /\ IsTable(request', Request, RequestRow)
        /\ SessionsLast' /\ NewCustomersStop' /\ FirstPaymentsMake' /\ RequestsKnow'
    BY <1>1, <1>2, <2>1, <2>2, <2>5, <2>7, GoKeeps DEF Steps, Live, Optional
  <2>9. CustomersAreStored' /\ SessionsAreStored'
    BY <1>1, <1>4, <2>4 DEF CustomersAreStored, SessionsAreStored
  <2>. QED
    BY <1>1, <2>3, <2>8, <2>9 DEF IInv, TypeOK
<1>. QED
  BY <1>3, <1>4

\* A sign-in or refresh reads; who had a session finds its token.
LEMMA ReadUserKeeps ==
    ASSUME IInv, NEW r \in Request, ReadUser(r) PROVE IInv'
<1>. DEFINE u == request[r].userId
            t == IF request[r].kind = "signIn" THEN user[u].refreshToken ELSE Signed(r)
            refused == \/ u \notin DOMAIN user
                       \/ request[r].kind = "refresh" /\ user[u].refreshToken = None
<1>1. /\ TypeOK /\ SessionsAreStored /\ CustomersAreStored /\ RequestsKnow
      /\ r \in DOMAIN request /\ request[r].pc = "read" /\ u \in User /\ Knows(r)
      /\ UNCHANGED <<user, customer, held, paid>>
  BY RowType DEF IInv, RequestsKnow, ReadUser, At
<1>2. request[r].kind # "pay"
  BY <1>1 DEF Knows
<1>3. request[r].before => u \in DOMAIN user /\ user[u].refreshToken # None
  BY <1>1, <1>2 DEF Knows, SessionsAreStored
<1>4. Grows
  BY <1>1 DEF Grows
<1>5. SessionsAreStored' /\ CustomersAreStored'
  BY <1>1 DEF SessionsAreStored, CustomersAreStored
<1>6. CASE refused
  <2>1. Go(r, "refused", request[r].token, request[r].customer)
    BY <1>1, <1>6, StopMoves DEF ReadUser, Refuse
  <2>2. Knows(r)'
    BY <1>1, <1>2, <2>1, RowType, GoMoves DEF Knows, Steps
  <2>3. ~request[r].before
    BY <1>3, <1>6
  <2>4. /\ IsTable(request', Request, RequestRow)
        /\ SessionsLast' /\ NewCustomersStop' /\ FirstPaymentsMake' /\ RequestsKnow'
    BY <1>1, <1>2, <1>4, <2>1, <2>2, <2>3, RowType, GoKeeps DEF Steps
  <2>. QED
    BY <1>1, <1>5, <2>4 DEF IInv, TypeOK
<1>7. CASE ~refused
  <2>1. Go(r, "save", t, None)
    BY <1>7 DEF ReadUser
  <2>2. Signed(r) \in Token /\ Signed(r) # None
    BY <1>1, NoneAssumption DEF Signed, Token
  <2>3. user[u] \in UserRow
    BY <1>1, <1>7 DEF TypeOK, IsTable
  <2>4. t \in Optional(Token)
    BY <2>2, <2>3 DEF UserRow, Optional
  <2>5. request[r].before => t # None
    BY <1>3, <2>2
  <2>. HIDE DEF t
  <2>6. Knows(r)'
    BY <1>1, <1>2, <1>7, <2>1, <2>4, GoMoves DEF Knows, Steps, Live, Optional
  <2>7. /\ IsTable(request', Request, RequestRow)
        /\ SessionsLast' /\ NewCustomersStop' /\ FirstPaymentsMake' /\ RequestsKnow'
    BY <1>1, <1>2, <1>4, <2>1, <2>4, <2>5, <2>6, GoKeeps DEF Steps, Live, Optional
  <2>. QED
    BY <1>1, <1>5, <2>7 DEF IInv, TypeOK
<1>. QED
  BY <1>6, <1>7

\* The signed token is stored, and what the request holds is answered.
LEMMA SaveTokenKeeps ==
    ASSUME IInv, NEW r \in Request, SaveToken(r) PROVE IInv'
<1>. DEFINE u == request[r].userId
            t == request[r].token
<1>1. /\ TypeOK /\ SessionsAreStored /\ CustomersAreStored /\ RequestsKnow /\ SessionsLast
      /\ r \in DOMAIN request /\ request[r].pc = "save" /\ u \in User /\ Knows(r)
      /\ t \in Optional(Token)
      /\ UNCHANGED <<customer, paid>>
  BY RowType DEF IInv, RequestsKnow, SaveToken, At
<1>2. request[r].kind # "pay" /\ u \in DOMAIN user
  BY <1>1 DEF Knows
<1>3. /\ user' = [user EXCEPT ![u].refreshToken = Signed(r)]
      /\ Go(r, "answered", t, None)
      /\ held' = [held EXCEPT ![u] = @ \cup {t}]
  BY DEF SaveToken
<1>4. Signed(r) \in Token /\ Signed(r) # None
  BY <1>1, NoneAssumption DEF Signed, Token
<1>5. user[u] \in UserRow
  BY <1>1, <1>2 DEF TypeOK, IsTable
<1>6. /\ user' = [user EXCEPT ![u] = [user[u] EXCEPT !.refreshToken = Signed(r)]]
      /\ [user[u] EXCEPT !.refreshToken = Signed(r)] \in UserRow
  BY <1>1, <1>2, <1>3, <1>4, <1>5 DEF UserRow, Optional, TypeOK, IsTable
<1>7. IsTable(user', User, UserRow)
  BY <1>1, <1>2, <1>6 DEF TypeOK, IsTable
<1>8. /\ DOMAIN user' = DOMAIN user
      /\ user'[u].refreshToken = Signed(r)
      /\ user'[u].stripeCustomerId = user[u].stripeCustomerId
      /\ \A o \in DOMAIN user \ {u} : user'[o] = user[o]
  BY <1>1, <1>2, <1>5, <1>6 DEF UserRow
<1>9. /\ held' \in [User -> SUBSET Optional(Token)]
      /\ held'[u] = held[u] \cup {t}
      /\ \A o \in User \ {u} : held'[o] = held[o]
  BY <1>1, <1>3 DEF TypeOK
<1>10. Grows
  BY <1>1, <1>8, <1>9 DEF Grows
<1>11. Knows(r)'
  BY <1>1, <1>2, <1>3, <1>9, GoMoves DEF Knows, Steps, Optional
<1>12. /\ IsTable(request', Request, RequestRow)
       /\ SessionsLast' /\ NewCustomersStop' /\ FirstPaymentsMake' /\ RequestsKnow'
  <2>1. request[r].kind \in {"signIn", "refresh"} /\ request[r].before => t # None
    BY <1>1 DEF SessionsLast
  <2>. QED
    BY <1>1, <1>2, <1>3, <1>10, <1>11, <2>1, GoKeeps DEF Steps, Optional
<1>13. SessionsAreStored'
  BY <1>1, <1>2, <1>4, <1>8, <1>9 DEF SessionsAreStored
<1>14. CustomersAreStored'
  BY <1>1, <1>2, <1>8 DEF CustomersAreStored
<1>. QED
  BY <1>1, <1>7, <1>9, <1>12, <1>13, <1>14 DEF IInv, TypeOK

\* A payment looks: after an answered one it finds a customer, not its own.
LEMMA LookForCustomerKeeps ==
    ASSUME IInv, NEW r \in Request, LookForCustomer(r) PROVE IInv'
<1>. DEFINE u == request[r].userId
            c == user[u].stripeCustomerId
            pc == IF c # None THEN "intend" ELSE "make"
<1>1. /\ TypeOK /\ SessionsAreStored /\ CustomersAreStored /\ RequestsKnow
      /\ FirstPaymentsMake
      /\ r \in DOMAIN request /\ request[r].pc = "look" /\ u \in User /\ Knows(r)
      /\ Go(r, pc, None, c)
      /\ UNCHANGED <<user, customer, held, paid>>
  BY RowType DEF IInv, RequestsKnow, LookForCustomer, At
<1>2. /\ request[r].kind = "pay" /\ u \in DOMAIN user
      /\ request[r].before => u \in paid
  BY <1>1 DEF Knows
<1>3. user[u] \in UserRow
  BY <1>1, <1>2 DEF TypeOK, IsTable
<1>4. c \in Optional(Customer) /\ None \in Optional(Token) /\ pc \in Steps
  BY <1>3 DEF UserRow, Optional, Steps, Live
<1>5. Grows /\ SessionsAreStored' /\ CustomersAreStored'
  BY <1>1 DEF Grows, SessionsAreStored, CustomersAreStored
<1>6. /\ request'[r].kind = "pay" /\ request'[r].userId = u
      /\ request'[r].pc = pc /\ request'[r].before = request[r].before
  BY <1>1, <1>2, <1>4, GoMoves
<1>7. Knows(r)'
  BY <1>1, <1>2, <1>6 DEF Knows
<1>8. request[r].before => pc = "intend"
  BY <1>1, <1>2 DEF CustomersAreStored
<1>9. pc = "intend" =>
          c \in customer /\ c.userId = u /\ (request[r].before => c.by # r)
  BY <1>1, <1>2 DEF CustomersAreStored, FirstPaymentsMake
<1>10. pc # "answered" /\ pc # "keep"
  OBVIOUS
<1>. HIDE DEF c, pc
<1>11. /\ IsTable(request', Request, RequestRow)
       /\ SessionsLast' /\ NewCustomersStop' /\ FirstPaymentsMake' /\ RequestsKnow'
  BY <1>1, <1>2, <1>4, <1>5, <1>7, <1>8, <1>9, <1>10, GoKeeps
<1>. QED
  BY <1>1, <1>5, <1>11 DEF IInv, TypeOK

\* Stripe makes a customer, for a first payment only.
LEMMA MakeCustomerKeeps ==
    ASSUME IInv, NEW r \in Request, MakeCustomer(r) PROVE IInv'
<1>. DEFINE u == request[r].userId
            c == [userId |-> u, by |-> r]
<1>1. /\ TypeOK /\ SessionsAreStored /\ CustomersAreStored /\ RequestsKnow
      /\ NewCustomersStop
      /\ r \in DOMAIN request /\ request[r].pc = "make" /\ u \in User /\ Knows(r)
      /\ Go(r, "keep", None, c)
      /\ customer' = customer \cup {c}
      /\ UNCHANGED <<user, held, paid>>
  BY RowType DEF IInv, RequestsKnow, MakeCustomer, At
<1>2. request[r].kind = "pay" /\ u \in DOMAIN user
  BY <1>1 DEF Knows
<1>3. ~request[r].before
  BY <1>1, <1>2 DEF NewCustomersStop
<1>4. c \in Customer /\ c.by = r
  BY <1>1 DEF Customer
<1>. HIDE DEF c
<1>5. c \in Optional(Customer) /\ None \in Optional(Token) /\ "keep" \in Steps
  BY <1>4 DEF Optional, Steps, Live
<1>6. Grows /\ SessionsAreStored' /\ CustomersAreStored'
  BY <1>1 DEF Grows, SessionsAreStored, CustomersAreStored
<1>7. /\ request'[r].kind = "pay" /\ request'[r].userId = u /\ request'[r].customer = c
      /\ request'[r].pc = "keep" /\ request'[r].before = request[r].before
  BY <1>1, <1>2, <1>5, GoMoves
<1>8. Knows(r)'
  BY <1>1, <1>2, <1>3, <1>7 DEF Knows, c
<1>9. \A k \in customer' \ customer :
          k.by = r /\ request[r].kind = "pay" /\ ~request[r].before
  BY <1>1, <1>2, <1>3, <1>4
<1>10. /\ IsTable(request', Request, RequestRow)
       /\ SessionsLast' /\ NewCustomersStop' /\ FirstPaymentsMake' /\ RequestsKnow'
  BY <1>1, <1>2, <1>3, <1>5, <1>6, <1>8, <1>9, GoKeeps
<1>. QED
  BY <1>1, <1>4, <1>6, <1>10 DEF IInv, TypeOK

\* The customer a request made is stored as its user's.
LEMMA KeepCustomerKeeps ==
    ASSUME IInv, NEW r \in Request, KeepCustomer(r) PROVE IInv'
<1>. DEFINE u == request[r].userId
            c == request[r].customer
            row == [user[u] EXCEPT !.stripeCustomerId = c]
<1>1. /\ TypeOK /\ SessionsAreStored /\ CustomersAreStored /\ RequestsKnow
      /\ NewCustomersStop
      /\ r \in DOMAIN request /\ request[r].pc = "keep" /\ u \in User /\ Knows(r)
      /\ Go(r, "intend", None, c)
      /\ user' = [user EXCEPT ![u].stripeCustomerId = c]
      /\ UNCHANGED <<customer, held, paid>>
  BY RowType DEF IInv, RequestsKnow, KeepCustomer, At
<1>2. /\ request[r].kind = "pay" /\ u \in DOMAIN user
      /\ c = [userId |-> u, by |-> r] /\ c \in customer
  BY <1>1 DEF Knows
<1>3. ~request[r].before
  BY <1>1, <1>2 DEF NewCustomersStop
<1>4. c \in Customer /\ c.userId = u /\ c # None
  BY <1>1, <1>2, NoneAssumption DEF Customer
<1>. HIDE DEF c
<1>5. user[u] \in UserRow
  BY <1>1, <1>2 DEF TypeOK, IsTable
<1>6. /\ user' = [user EXCEPT ![u] = row]
      /\ row \in UserRow /\ row.stripeCustomerId = c
      /\ row.refreshToken = user[u].refreshToken
  BY <1>1, <1>2, <1>4, <1>5 DEF UserRow, Optional, TypeOK, IsTable
<1>. HIDE DEF row
<1>7. IsTable(user', User, UserRow)
  <2>1. IsTable(user, User, UserRow) /\ u \in DOMAIN user
    BY <1>1, <1>2 DEF TypeOK
  <2>. QED
    BY <1>6, <2>1 DEF IsTable
<1>8. /\ DOMAIN user' = DOMAIN user
      /\ user'[u].stripeCustomerId = c
      /\ user'[u].refreshToken = user[u].refreshToken
      /\ \A o \in DOMAIN user \ {u} : user'[o] = user[o]
  BY <1>1, <1>2, <1>6
<1>9. Grows
  BY <1>1, <1>4, <1>8 DEF Grows
<1>10. SessionsAreStored' /\ CustomersAreStored'
  BY <1>1, <1>2, <1>4, <1>8 DEF SessionsAreStored, CustomersAreStored
<1>11. c \in Optional(Customer) /\ None \in Optional(Token) /\ "intend" \in Steps
  BY <1>4 DEF Optional, Steps, Live
<1>12. /\ request'[r].kind = "pay" /\ request'[r].userId = u
       /\ request'[r].pc = "intend" /\ request'[r].before = request[r].before
  BY <1>1, <1>2, <1>11, GoMoves
<1>13. Knows(r)'
  BY <1>1, <1>2, <1>3, <1>4, <1>8, <1>12 DEF Knows
<1>14. /\ IsTable(request', Request, RequestRow)
       /\ SessionsLast' /\ NewCustomersStop' /\ FirstPaymentsMake' /\ RequestsKnow'
  BY <1>1, <1>2, <1>3, <1>4, <1>9, <1>11, <1>13, GoKeeps
<1>. QED
  BY <1>1, <1>7, <1>10, <1>14 DEF IInv, TypeOK

\* The intent is made and answered.
LEMMA CreateIntentKeeps ==
    ASSUME IInv, NEW r \in Request, CreateIntent(r) PROVE IInv'
<1>. DEFINE u == request[r].userId
            c == request[r].customer
<1>1. /\ TypeOK /\ SessionsAreStored /\ CustomersAreStored /\ RequestsKnow
      /\ NewCustomersStop
      /\ r \in DOMAIN request /\ request[r].pc = "intend" /\ u \in User /\ Knows(r)
      /\ c \in Optional(Customer)
      /\ Go(r, "answered", None, c)
      /\ paid' = paid \cup {u}
      /\ UNCHANGED <<user, customer, held>>
  BY RowType DEF IInv, RequestsKnow, CreateIntent, At
<1>2. /\ request[r].kind = "pay" /\ u \in DOMAIN user
      /\ user[u].stripeCustomerId # None
  BY <1>1 DEF Knows
<1>3. c \in customer /\ c.userId = u /\ (request[r].before => c.by # r)
  BY <1>1, <1>2 DEF NewCustomersStop
<1>. HIDE DEF c
<1>4. None \in Optional(Token) /\ "answered" \in Steps
  BY DEF Optional, Steps
<1>5. Grows /\ SessionsAreStored' /\ CustomersAreStored'
  BY <1>1, <1>2 DEF Grows, SessionsAreStored, CustomersAreStored
<1>6. /\ request'[r].kind = "pay" /\ request'[r].userId = u
      /\ request'[r].pc = "answered" /\ request'[r].before = request[r].before
  BY <1>1, <1>2, <1>4, GoMoves
<1>7. Knows(r)'
  BY <1>1, <1>2, <1>6 DEF Knows
<1>8. /\ IsTable(request', Request, RequestRow)
      /\ SessionsLast' /\ NewCustomersStop' /\ FirstPaymentsMake' /\ RequestsKnow'
  BY <1>1, <1>2, <1>3, <1>4, <1>5, <1>7, GoKeeps
<1>. QED
  BY <1>1, <1>5, <1>8 DEF IInv, TypeOK

\* A request that fails leaves what it has written.
LEMMA RequestFailsKeeps ==
    ASSUME IInv, NEW r \in Request, RequestFails(r) PROVE IInv'
<1>. DEFINE u == request[r].userId
<1>1. /\ TypeOK /\ SessionsAreStored /\ CustomersAreStored /\ RequestsKnow
      /\ r \in DOMAIN request /\ u \in User /\ Knows(r)
      /\ request[r].token \in Optional(Token)
      /\ request[r].customer \in Optional(Customer)
      /\ request' = [request EXCEPT ![r].pc = "failed"]
      /\ UNCHANGED <<user, customer, held, paid>>
  BY RowType DEF IInv, RequestsKnow, RequestFails
<1>2. Go(r, "failed", request[r].token, request[r].customer) /\ "failed" \in Steps
  BY <1>1, StopMoves DEF Steps
<1>3. Grows /\ SessionsAreStored' /\ CustomersAreStored'
  BY <1>1 DEF Grows, SessionsAreStored, CustomersAreStored
<1>4. /\ request'[r].kind = request[r].kind /\ request'[r].userId = u
      /\ request'[r].pc = "failed" /\ request'[r].before = request[r].before
  BY <1>1, <1>2, GoMoves
<1>5. Knows(r)'
  BY <1>1, <1>4 DEF Knows
<1>6. /\ IsTable(request', Request, RequestRow)
      /\ SessionsLast' /\ NewCustomersStop' /\ FirstPaymentsMake' /\ RequestsKnow'
  BY <1>1, <1>2, <1>3, <1>5, GoKeeps
<1>. QED
  BY <1>1, <1>3, <1>6 DEF IInv, TypeOK

\* Every step keeps the invariant, one that changes nothing included.
LEMMA StepIInv == IInv /\ [Next]_vars => IInv'
<1>1. ASSUME IInv, NEW r \in Request, Serve(r) PROVE IInv'
  BY <1>1, CreateUserKeeps, ReadUserKeeps, SaveTokenKeeps, LookForCustomerKeeps,
     MakeCustomerKeeps, KeepCustomerKeeps, CreateIntentKeeps, RequestFailsKeeps DEF Serve
<1>2. ASSUME IInv, UNCHANGED vars PROVE IInv'
  <2>1. TypeOK' /\ SessionsLast' /\ NewCustomersStop'
    BY <1>2 DEF vars, IInv, TypeOK, SessionsLast, NewCustomersStop
  <2>2. SessionsAreStored' /\ CustomersAreStored' /\ FirstPaymentsMake'
    BY <1>2 DEF vars, IInv, SessionsAreStored, CustomersAreStored, FirstPaymentsMake
  <2>3. RequestsKnow'
    BY <1>2, StillKnows DEF vars, Grows, IInv, RequestsKnow
  <2>. QED
    BY <2>1, <2>2, <2>3 DEF IInv
<1>. QED
  BY <1>1, <1>2, ArriveKeeps DEF Next

LEMMA InvariantHolds == Spec => []IInv
  BY InitIInv, StepIInv, PTL DEF Spec

-----------------------------------------------------------------------------
(* Theorems                                                                *)

\* Every row, request and history is of its type.
THEOREM TypesKept == Spec => []TypeOK
<1>1. IInv => TypeOK
  BY DEF IInv
<1>. QED
  BY <1>1, InvariantHolds, PTL

\* Sessions last: sign-ins and refreshes of a user who was answered a session
\* are not refused (auth.service.ts:85-88), nor answered null (:58).
THEOREM SessionsDoLast == Spec => []SessionsLast
<1>1. IInv => SessionsLast
  BY DEF IInv
<1>. QED
  BY <1>1, InvariantHolds, PTL

\* After a payment was answered no other makes a customer, and payments are of
\* the payer's customers (stripe.service.ts:367-395).
THEOREM NewCustomersDoStop == Spec => []NewCustomersStop
<1>1. IInv => NewCustomersStop
  BY DEF IInv
<1>. QED
  BY <1>1, InvariantHolds, PTL

-----------------------------------------------------------------------------
(***************************************************************************)
(* Tax receipts, which are UsersService's too: the proofs about            *)
(* TaxReceipts, for any number of users, years, donations and requests.    *)
(***************************************************************************)
CONSTANTS LastYear, MaxDonations, Receipt
VARIABLES now, donation, profile, file, receipt, asking

R == INSTANCE TaxReceipts WITH request <- asking

\* The table lemmas, of the tables of TaxReceipts.
LEMMA ReceiptPut ==
    ASSUME NEW Key, NEW Row, NEW t, R!IsTable(t, Key, Row),
           NEW k \in Key, NEW v \in Row
    PROVE  R!IsTable(R!Put(t, k, v), Key, Row)
BY DEF R!IsTable, R!Put

LEMMA ReceiptUpdate ==
    ASSUME NEW Key, NEW Row, NEW t, R!IsTable(t, Key, Row),
           NEW k \in DOMAIN t, NEW v \in Row
    PROVE  R!IsTable([t EXCEPT ![k] = v], Key, Row)
BY DEF R!IsTable

LEMMA ReceiptDrop ==
    ASSUME NEW Key, NEW Row, NEW t, R!IsTable(t, Key, Row), NEW k
    PROVE  R!IsTable(R!Drop(t, k), Key, Row)
BY DEF R!IsTable, R!Drop

LEMMA ReceiptNewKey ==
    ASSUME NEW Key, NEW t, R!HasRoom(Key, t)
    PROVE  R!NewKey(Key, t) \in Key /\ R!NewKey(Key, t) \notin DOMAIN t
BY DEF R!NewKey, R!HasRoom

LEMMA ReceiptEmptyTable ==
    ASSUME NEW Key, NEW Row
    PROVE  R!IsTable(R!EmptyTable, Key, Row) /\ DOMAIN R!EmptyTable = {}
BY DEF R!IsTable, R!EmptyTable

\* PDFs are kept of the donations of their year, and a row is created for a
\* PDF that is there.
FilesListTheYear ==
    \A u \in User, y \in R!Year :
        <<u, y>> \in DOMAIN file => R!ReadOnce(u, y, file[<<u, y>>])

RowsHaveFiles ==
    /\ \A k \in DOMAIN receipt : <<receipt[k].userId, receipt[k].year>> \in DOMAIN file
    /\ \A r \in DOMAIN asking : asking[r].pc = "create" =>
           <<asking[r].userId, asking[r].year>> \in DOMAIN file

\* What a request has found so far.
Found(r) ==
    LET q == asking[r] IN
    /\ q.pc \in {"upload", "create"} => q.year \in R!Year
    /\ q.pc = "upload" => R!ReadOnce(q.userId, q.year, q.found)

ReceiptsInv ==
    /\ R!TypeOK
    /\ FilesListTheYear
    /\ RowsHaveFiles
    /\ \A r \in DOMAIN asking : Found(r)

\* At first nothing was given, asked for or kept.
LEMMA ReceiptsInit ==
    ASSUME R!BoundsAssumption
    PROVE  R!Init => ReceiptsInv
<1>. SUFFICES ASSUME R!Init PROVE ReceiptsInv
  OBVIOUS
<1>1. R!TypeOK
  BY R!BoundsAssumption, ReceiptEmptyTable DEF R!Init, R!TypeOK, R!Year, R!BoundsAssumption
<1>. QED
  BY <1>1, ReceiptEmptyTable DEF R!Init, ReceiptsInv, FilesListTheYear, RowsHaveFiles

\* What a request is.
LEMMA ReceiptRequestType ==
    ASSUME R!TypeOK, NEW r \in DOMAIN asking
    PROVE  /\ r \in Request
           /\ asking[r] \in R!RequestRow
           /\ asking[r].userId \in User
           /\ asking[r].year \in R!Year \cup {None}
           /\ asking[r].found \subseteq 1..MaxDonations
BY DEF R!TypeOK, R!IsTable, R!RequestRow

\* Donations only come in, after those that there are: what was read once still
\* is what one query gave.
LEMMA DonationsStay ==
    ASSUME R!TypeOK, [R!Next]_(R!vars), NEW u \in User, NEW y, NEW ds,
           R!ReadOnce(u, y, ds)
    PROVE  R!ReadOnce(u, y, ds)'
<1>1. CASE UNCHANGED donation
  BY <1>1 DEF R!ReadOnce, R!GivenAt, R!OfYear
<1>2. ASSUME NEW v \in User, R!Donate(v)
      PROVE  R!ReadOnce(u, y, ds)'
  <2>1. donation[u] \in Seq(R!Year) /\ now \in R!Year
    BY DEF R!TypeOK
  <2>2. donation'[u] = IF u = v THEN Append(donation[u], now) ELSE donation[u]
    BY <1>2 DEF R!Donate, R!TypeOK
  <2>3. PICK n \in 0..Len(donation[u]) : ds # {} /\ ds = R!GivenAt(u, y, n)
    BY DEF R!ReadOnce
  <2>4. /\ Len(donation[u]) \in Nat
        /\ n \in 0..Len(donation'[u])
        /\ DOMAIN donation[u] = 1..Len(donation[u])
        /\ DOMAIN donation'[u] = 1..Len(donation'[u])
        /\ Len(donation'[u]) \in {Len(donation[u]), Len(donation[u]) + 1}
        /\ \A i \in 1..Len(donation[u]) : donation'[u][i] = donation[u][i]
    BY <2>1, <2>2, <2>3
  <2>5. R!GivenAt(u, y, n)' = R!GivenAt(u, y, n)
    BY <2>3, <2>4 DEF R!GivenAt, R!OfYear, R!Take
  <2>. QED
    BY <2>3, <2>4, <2>5 DEF R!ReadOnce
<1>. QED
  BY <1>1, <1>2
     DEF R!Next, R!Continue, R!NewYear, R!CompleteProfile, R!AskForReceipt,
         R!LookForReceipt, R!ReadDonations, R!AnswerNone, R!UploadReceipt, R!UploadFails,
         R!CreateReceipt, R!RequestFails, R!vars

\* Requests that a step leaves alone have found what they had found.
LEMMA FoundStays ==
    ASSUME ReceiptsInv, [R!Next]_(R!vars), NEW r \in DOMAIN asking,
           asking'[r] = asking[r]
    PROVE  Found(r)'
<1>1. PICK u \in User, y \in R!Year \cup {None}, ds \in SUBSET (1..MaxDonations) :
          /\ u = asking[r].userId /\ y = asking[r].year
          /\ ds = asking[r].found
  BY ReceiptRequestType DEF ReceiptsInv
<1>2. Found(r)
  BY DEF ReceiptsInv
<1>3. R!ReadOnce(u, y, ds) => R!ReadOnce(u, y, ds)'
  BY DonationsStay DEF ReceiptsInv
<1>4. asking[r].pc = "upload" =>
          R!ReadOnce(asking[r].userId, asking[r].year, asking[r].found)'
  BY <1>1, <1>2, <1>3 DEF Found, R!ReadOnce, R!GivenAt, R!OfYear
<1>. QED
  BY <1>2, <1>4 DEF Found, R!Year, R!ReadOnce, R!GivenAt, R!OfYear

\* A request ends, and the others stay.
LEMMA ReceiptEndKeeps ==
    ASSUME ReceiptsInv, [R!Next]_(R!vars), NEW r, R!End(r)
    PROVE  /\ R!IsTable(asking', Request, R!RequestRow)
           /\ \A q \in DOMAIN asking' :
                  q \in DOMAIN asking /\ asking'[q] = asking[q] /\ Found(q)'
<1>1. /\ R!IsTable(asking', Request, R!RequestRow)
      /\ \A q \in DOMAIN asking' : q \in DOMAIN asking /\ asking'[q] = asking[q]
  BY ReceiptDrop DEF R!End, R!Drop, ReceiptsInv, R!TypeOK
<1>. QED
  BY <1>1, FoundStays

\* What steps of users and of the clock do to what is kept: nothing.
LEMMA FilesStay ==
    ASSUME ReceiptsInv, [R!Next]_(R!vars), UNCHANGED file
    PROVE  FilesListTheYear'
<1>. SUFFICES ASSUME NEW u \in User, NEW y \in R!Year, <<u, y>> \in DOMAIN file'
              PROVE  R!ReadOnce(u, y, file[<<u, y>>])'
  BY DEF FilesListTheYear, R!Year
<1>1. PICK ds : ds = file[<<u, y>>]
  OBVIOUS
<1>2. R!ReadOnce(u, y, ds)
  BY <1>1 DEF ReceiptsInv, FilesListTheYear
<1>3. R!ReadOnce(u, y, ds)'
  BY <1>2, DonationsStay DEF ReceiptsInv
<1>. QED
  BY <1>1, <1>3 DEF R!ReadOnce, R!GivenAt, R!OfYear

\* Request r moves on to row, and the others stay.
LEMMA ReceiptMoveKeeps ==
    ASSUME ReceiptsInv, [R!Next]_(R!vars),
           NEW r \in DOMAIN asking, NEW row \in R!RequestRow,
           asking' = [asking EXCEPT ![r] = row], Found(r)'
    PROVE  /\ R!IsTable(asking', Request, R!RequestRow)
           /\ DOMAIN asking' = DOMAIN asking
           /\ asking'[r] = row
           /\ \A q \in DOMAIN asking \ {r} : asking'[q] = asking[q]
           /\ \A q \in DOMAIN asking' : Found(q)'
<1>1. /\ DOMAIN asking' = DOMAIN asking
      /\ asking'[r] = row
      /\ \A q \in DOMAIN asking \ {r} : asking'[q] = asking[q]
  OBVIOUS
<1>2. R!IsTable(asking', Request, R!RequestRow)
  BY ReceiptUpdate DEF ReceiptsInv, R!TypeOK
<1>3. \A q \in DOMAIN asking' : Found(q)'
  BY <1>1, FoundStays
<1>. QED
  BY <1>1, <1>2, <1>3

\* Every step keeps the invariant.
LEMMA ReceiptsStep ==
    ASSUME R!BoundsAssumption
    PROVE  ReceiptsInv /\ [R!Next]_(R!vars) => ReceiptsInv'
<1>. SUFFICES ASSUME ReceiptsInv, [R!Next]_(R!vars) PROVE ReceiptsInv'
  OBVIOUS
<1>t. R!TypeOK /\ FilesListTheYear /\ RowsHaveFiles
      /\ \A r \in DOMAIN asking : Found(r)
  BY DEF ReceiptsInv
<1>u. UNCHANGED asking => \A r \in DOMAIN asking' : Found(r)'
  BY FoundStays
<1>1. ASSUME R!NewYear PROVE ReceiptsInv'
  <2>1. now' \in R!Year
    BY <1>1, <1>t DEF R!NewYear, R!TypeOK, R!Year, R!BoundsAssumption
  <2>. QED
    BY <1>1, <1>t, <1>u, <2>1, FilesStay DEF R!NewYear, ReceiptsInv, R!TypeOK, RowsHaveFiles
<1>2. ASSUME NEW u \in User, R!Donate(u) PROVE ReceiptsInv'
  <2>1. donation' \in [User -> Seq(R!Year)]
        /\ \A v \in User : Len(donation'[v]) <= MaxDonations
    <3>1. \A v \in User : donation[v] \in Seq(R!Year) /\ Len(donation[v]) <= MaxDonations
      BY <1>t DEF R!TypeOK
    <3>2. \A v \in User :
             donation'[v] = IF v = u THEN Append(donation[v], now) ELSE donation[v]
      BY <1>2, <1>t DEF R!Donate, R!TypeOK
    <3>3. now \in R!Year
      BY <1>t DEF R!TypeOK
    <3>4. \A v \in User : donation'[v] \in Seq(R!Year) /\ Len(donation'[v]) <= MaxDonations
      BY <1>2, <3>1, <3>2, <3>3 DEF R!Donate, R!BoundsAssumption
    <3>. QED
      BY <1>2, <1>t, <3>4 DEF R!Donate, R!TypeOK
  <2>. QED
    BY <1>2, <1>t, <1>u, <2>1, FilesStay DEF R!Donate, ReceiptsInv, R!TypeOK, RowsHaveFiles
<1>3. ASSUME NEW u \in User, R!CompleteProfile(u) PROVE ReceiptsInv'
  BY <1>3, <1>t, <1>u, FilesStay DEF R!CompleteProfile, ReceiptsInv, R!TypeOK, RowsHaveFiles
<1>4. ASSUME NEW u \in User, NEW y \in R!Year \cup {None}, R!AskForReceipt(u, y) PROVE ReceiptsInv'
  <2>. DEFINE row == [pc |-> "look", userId |-> u, year |-> y,
                      found |-> {}]
  <2>1. PICK r \in Request :
            r \notin DOMAIN asking /\ asking' = R!Put(asking, r, row)
    BY <1>4, ReceiptNewKey DEF R!AskForReceipt
  <2>2. row \in R!RequestRow
    BY DEF R!RequestRow
  <2>3. R!IsTable(asking', Request, R!RequestRow)
    BY <1>t, <2>1, <2>2, ReceiptPut DEF R!TypeOK
  <2>4. \A q \in DOMAIN asking' :
           \/ q \in DOMAIN asking /\ asking'[q] = asking[q]
           \/ q = r /\ asking'[q].pc = "look"
    BY <2>1 DEF R!Put
  <2>5. \A q \in DOMAIN asking' : Found(q)'
    BY <2>4, FoundStays DEF Found
  <2>. QED
    BY <1>4, <1>t, <2>3, <2>4, <2>5, FilesStay
       DEF R!AskForReceipt, ReceiptsInv, R!TypeOK, RowsHaveFiles
<1>5. ASSUME NEW r, R!End(r), UNCHANGED <<now, donation, profile, file, receipt>>
      PROVE  ReceiptsInv'
  BY <1>5, <1>t, ReceiptEndKeeps, FilesStay DEF ReceiptsInv, R!TypeOK, RowsHaveFiles
<1>6. ASSUME NEW r \in Request, R!LookForReceipt(r) PROVE ReceiptsInv'
  <2>1. CASE R!End(r)
    BY <1>5, <1>6, <2>1 DEF R!LookForReceipt
  <2>2. CASE ~R!End(r)
    <3>1. r \in DOMAIN asking /\ asking' = [asking EXCEPT ![r].pc = "read"]
          /\ UNCHANGED <<now, donation, profile, file, receipt>>
      BY <1>6, <2>2 DEF R!LookForReceipt, R!At
    <3>2. PICK row : row = [asking[r] EXCEPT !.pc = "read"]
      OBVIOUS
    <3>3. row \in R!RequestRow /\ row.pc = "read" /\ asking' = [asking EXCEPT ![r] = row]
      BY <1>t, <3>1, <3>2, ReceiptRequestType DEF R!RequestRow
    <3>4. Found(r)'
      BY <3>1, <3>3 DEF Found
    <3>5. /\ R!IsTable(asking', Request, R!RequestRow)
          /\ DOMAIN asking' = DOMAIN asking
          /\ asking'[r].pc = "read"
          /\ \A q \in DOMAIN asking \ {r} : asking'[q] = asking[q]
          /\ \A q \in DOMAIN asking' : Found(q)'
      BY <3>1, <3>3, <3>4, ReceiptMoveKeeps
    <3>. QED
      BY <1>t, <3>1, <3>5, FilesStay DEF ReceiptsInv, R!TypeOK, RowsHaveFiles
  <2>. QED
    BY <2>1, <2>2
<1>7. ASSUME NEW r \in Request, R!ReadDonations(r) PROVE ReceiptsInv'
  <2>1. PICK u \in User, y \in R!Year \cup {None} :
            /\ r \in DOMAIN asking
            /\ u = asking[r].userId /\ y = asking[r].year
    BY <1>7, <1>t, ReceiptRequestType DEF R!ReadDonations, R!At
  <2>2. PICK pc \in {"none", "upload"} :
            pc = IF R!Grouped(u, y) = {} THEN "none" ELSE "upload"
    OBVIOUS
  <2>3. donation[u] \in Seq(R!Year) /\ Len(donation[u]) <= MaxDonations
        /\ Len(donation[u]) \in Nat
    BY <1>t DEF R!TypeOK
  <2>4. R!Grouped(u, y) \subseteq R!OfYear(u, y) /\ R!OfYear(u, y) \subseteq 1..MaxDonations
    BY <2>3 DEF R!Grouped, R!OfYear, R!BoundsAssumption
  <2>5. PICK row : row = [asking[r] EXCEPT !.found = R!Grouped(u, y), !.pc = pc]
    OBVIOUS
  <2>6. asking' = [asking EXCEPT ![r] = row]
    <3>1. asking' = [asking EXCEPT ![r].found = R!Grouped(u, y), ![r].pc = pc]
      BY <1>7, <2>1, <2>2 DEF R!ReadDonations
    <3>. QED
      BY <2>1, <2>5, <3>1
  <2>7. /\ row \in R!RequestRow
        /\ row.pc = pc /\ row.userId = u /\ row.year = y
        /\ row.found = R!Grouped(u, y)
    <3>1. PICK q \in R!RequestRow, f \in SUBSET (1..MaxDonations) :
              q = asking[r] /\ f = R!Grouped(u, y)
      BY <1>t, <2>1, <2>4, ReceiptRequestType
    <3>. QED
      BY <2>1, <2>5, <3>1 DEF R!RequestRow
  <2>8. R!Grouped(u, y) # {} => y \in R!Year /\ R!ReadOnce(u, y, R!Grouped(u, y))
    <3>1. R!Grouped(u, y) # {} => y \in R!Year
      BY <2>3 DEF R!Grouped, R!OfYear
    <3>2. /\ Len(donation[u]) \in 0..Len(donation[u])
          /\ R!Grouped(u, y) = R!GivenAt(u, y, Len(donation[u]))
      BY <2>3 DEF R!Grouped, R!Latest, R!GivenAt, R!OfYear, R!Take
    <3>. QED
      BY <3>1, <3>2 DEF R!ReadOnce
  <2>9. UNCHANGED <<now, donation, profile, file, receipt>>
    BY <1>7 DEF R!ReadDonations
  <2>10. Found(r)'
    <3>1. asking'[r] = row /\ (pc = "upload" <=> R!Grouped(u, y) # {})
      BY <2>1, <2>2, <2>6
    <3>2. pc = "upload" =>
              /\ row.year \in R!Year
              /\ R!ReadOnce(row.userId, row.year, row.found)'
      BY <2>7, <2>8, <2>9, <3>1 DEF R!ReadOnce, R!GivenAt, R!OfYear
    <3>. QED
      BY <2>7, <3>1, <3>2 DEF Found, R!Year, R!ReadOnce, R!GivenAt, R!OfYear
  <2>11. /\ R!IsTable(asking', Request, R!RequestRow)
         /\ DOMAIN asking' = DOMAIN asking
         /\ asking'[r] = row
         /\ \A q \in DOMAIN asking \ {r} : asking'[q] = asking[q]
         /\ \A q \in DOMAIN asking' : Found(q)'
    BY <2>1, <2>6, <2>7, <2>10, ReceiptMoveKeeps
  <2>. QED
    BY <1>t, <2>7, <2>9, <2>11, FilesStay DEF ReceiptsInv, R!TypeOK, RowsHaveFiles
<1>8. ASSUME NEW r \in Request, R!UploadReceipt(r) PROVE ReceiptsInv'
  <2>1. PICK u \in User, y \in R!Year, found \in SUBSET (1..MaxDonations) :
            /\ r \in DOMAIN asking /\ asking[r].pc = "upload"
            /\ u = asking[r].userId /\ y = asking[r].year
            /\ found = asking[r].found
    <3>1. r \in DOMAIN asking /\ asking[r].pc = "upload"
      BY <1>8 DEF R!UploadReceipt, R!At
    <3>. QED
      BY <1>t, <3>1, ReceiptRequestType DEF Found
  <2>2. R!ReadOnce(u, y, found)
    BY <1>t, <2>1 DEF Found
  <2>3. file' = R!Put(file, <<u, y>>, found)
    BY <1>8, <2>1 DEF R!UploadReceipt
  <2>4. R!IsTable(file', User \X R!Year, SUBSET (1..MaxDonations))
    BY <1>t, <2>1, <2>3, ReceiptPut DEF R!TypeOK
  <2>5. UNCHANGED <<now, donation, profile, receipt>>
    BY <1>8 DEF R!UploadReceipt
  <2>6. FilesListTheYear'
    <3>1. ASSUME NEW v \in User, NEW z \in R!Year, <<v, z>> \in DOMAIN file'
          PROVE  R!ReadOnce(v, z, file'[<<v, z>>])
      <4>1. CASE v = u /\ z = y
        BY <2>2, <2>3, <4>1 DEF R!Put
      <4>2. CASE <<v, z>> # <<u, y>>
        BY <1>t, <2>3, <3>1, <4>2 DEF FilesListTheYear, R!Put
      <4>. QED
        BY <4>1, <4>2
    <3>2. ASSUME NEW v \in User, NEW z \in R!Year, NEW ds, R!ReadOnce(v, z, ds)
          PROVE  R!ReadOnce(v, z, ds)'
      BY <2>5, <3>2 DEF R!ReadOnce, R!GivenAt, R!OfYear
    <3>3. ASSUME NEW v \in User, NEW z \in R!Year, <<v, z>> \in DOMAIN file'
          PROVE  R!ReadOnce(v, z, file[<<v, z>>])'
      <4>1. PICK ds : ds = file'[<<v, z>>]
        OBVIOUS
      <4>2. R!ReadOnce(v, z, ds)'
        BY <3>1, <3>2, <3>3, <4>1
      <4>. QED
        BY <4>1, <4>2 DEF R!ReadOnce, R!GivenAt, R!OfYear
    <3>. QED
      BY <3>3 DEF FilesListTheYear, R!Year
  <2>7. PICK row : row = [asking[r] EXCEPT !.pc = "create"]
    OBVIOUS
  <2>8. /\ row \in R!RequestRow /\ row.pc = "create"
        /\ row.userId = u /\ row.year = y
        /\ asking' = [asking EXCEPT ![r] = row]
    BY <1>8, <1>t, <2>1, <2>7, ReceiptRequestType DEF R!UploadReceipt, R!RequestRow
  <2>9. Found(r)'
    BY <2>1, <2>8 DEF Found
  <2>10. /\ R!IsTable(asking', Request, R!RequestRow)
         /\ DOMAIN asking' = DOMAIN asking
         /\ asking'[r] = row
         /\ \A q \in DOMAIN asking \ {r} : asking'[q] = asking[q]
         /\ \A q \in DOMAIN asking' : Found(q)'
    BY <2>1, <2>8, <2>9, ReceiptMoveKeeps
  <2>11. <<u, y>> \in DOMAIN file' /\ DOMAIN file \subseteq DOMAIN file'
    BY <2>3 DEF R!Put
  <2>12. RowsHaveFiles'
    BY <1>t, <2>5, <2>8, <2>10, <2>11 DEF RowsHaveFiles
  <2>. QED
    BY <1>t, <2>4, <2>5, <2>6, <2>10, <2>12 DEF ReceiptsInv, R!TypeOK
<1>9. ASSUME NEW r \in Request, R!CreateReceipt(r) PROVE ReceiptsInv'
  <2>. DEFINE row == [userId |-> asking[r].userId, year |-> asking[r].year]
  <2>1. /\ r \in DOMAIN asking /\ asking[r].pc = "create"
        /\ row \in R!ReceiptRow
        /\ <<row.userId, row.year>> \in DOMAIN file
    <3>1. r \in DOMAIN asking /\ asking[r].pc = "create"
      BY <1>9 DEF R!CreateReceipt, R!At
    <3>2. asking[r].userId \in User /\ asking[r].year \in R!Year
      BY <1>t, <3>1, ReceiptRequestType DEF Found
    <3>. QED
      BY <1>t, <3>1, <3>2 DEF R!ReceiptRow, RowsHaveFiles
  <2>2. PICK k \in Receipt : receipt' = R!Put(receipt, k, row)
    BY <1>9, ReceiptNewKey DEF R!CreateReceipt
  <2>3. R!End(r) /\ UNCHANGED <<now, donation, profile, file>>
    BY <1>9 DEF R!CreateReceipt
  <2>. HIDE DEF row
  <2>4. R!IsTable(receipt', Receipt, R!ReceiptRow)
    BY <1>t, <2>1, <2>2, ReceiptPut DEF R!TypeOK
  <2>5. \A j \in DOMAIN receipt' : <<receipt'[j].userId, receipt'[j].year>> \in DOMAIN file'
    BY <1>t, <2>1, <2>2, <2>3 DEF RowsHaveFiles, R!Put
  <2>. QED
    BY <1>t, <2>3, <2>4, <2>5, ReceiptEndKeeps, FilesStay
       DEF ReceiptsInv, R!TypeOK, RowsHaveFiles
<1>10. CASE UNCHANGED R!vars
  BY <1>10, <1>t, <1>u, FilesStay DEF R!vars, ReceiptsInv, R!TypeOK, RowsHaveFiles
<1>. QED
  BY <1>1, <1>2, <1>3, <1>4, <1>5, <1>6, <1>7, <1>8, <1>9, <1>10
     DEF R!Next, R!Continue, R!AnswerNone, R!UploadFails, R!RequestFails

\* The invariant holds of every reachable state.
LEMMA ReceiptsInvariance ==
    ASSUME R!BoundsAssumption
    PROVE  R!Spec => []ReceiptsInv
BY ReceiptsInit, ReceiptsStep, PTL DEF R!Spec

\* Type correctness of tax receipts: what is kept of donations, PDFs, rows
\* and requests is of its type.
THEOREM ReceiptTypesKept ==
    ASSUME R!BoundsAssumption
    PROVE  R!Spec => []R!TypeOK
<1>1. ReceiptsInv => R!TypeOK
  BY DEF ReceiptsInv
<1>. QED
  BY <1>1, ReceiptsInvariance, PTL

\* Whatever is asked twice, fails or ends in another year, the PDF of a stored
\* receipt lists just the donations of its year that were among the user's
\* latest three at one moment, and at least one.
THEOREM ReceiptsAreOfTheYear ==
    ASSUME R!BoundsAssumption
    PROVE  R!Spec => []R!ReceiptsListTheYear
<1>1. ReceiptsInv => R!ReceiptsListTheYear
  <2>. SUFFICES ASSUME ReceiptsInv PROVE R!ReceiptsListTheYear
    BY DEF ReceiptsInv
  <2>1. ASSUME NEW k \in DOMAIN receipt
        PROVE  LET u == receipt[k].userId
                   y == receipt[k].year IN
               /\ <<u, y>> \in DOMAIN file
               /\ R!ReadOnce(u, y, file[<<u, y>>])
    <3>1. receipt[k].userId \in User /\ receipt[k].year \in R!Year
      BY DEF ReceiptsInv, R!TypeOK, R!IsTable, R!ReceiptRow
    <3>. QED
      BY <3>1 DEF ReceiptsInv, RowsHaveFiles, FilesListTheYear
  <2>. QED
    BY <2>1 DEF R!ReceiptsListTheYear
<1>. QED
  BY <1>1, ReceiptsInvariance, PTL

\* Where a receipt is made, what a request has read goes into its own PDF and
\* row: a receipt that is settled stays so, its PDF and rows as they are.
LEMMA SettledStays ==
    ASSUME R!BoundsAssumption, R!NoYearAssumption, ReceiptsInv, R!Next,
           NEW u \in User, NEW y \in R!Year, R!Settled(u, y)
    PROVE  /\ R!Settled(u, y)'
           /\ R!RowsOf(u, y)' = R!RowsOf(u, y)
           /\ file'[<<u, y>>] = file[<<u, y>>]
<1>. DEFINE Of(q) == asking[q].userId = u /\ asking[q].year = y
            Kept == /\ R!Settled(u, y)'
                    /\ R!RowsOf(u, y)' = R!RowsOf(u, y)
                    /\ file'[<<u, y>>] = file[<<u, y>>]
<1>1. /\ R!TypeOK /\ RowsHaveFiles
      /\ \A r \in DOMAIN asking : Of(r) => asking[r].pc = "look"
      /\ y # None
  BY DEF ReceiptsInv, R!Settled, R!Year, R!NoYearAssumption
<1>2. PICK k \in DOMAIN receipt : receipt[k].userId = u /\ receipt[k].year = y
  BY <1>1 DEF R!Settled, R!HasReceipt
<1>3. <<u, y>> \in DOMAIN file
  BY <1>1, <1>2 DEF RowsHaveFiles
<1>4. ASSUME /\ UNCHANGED <<file, receipt>>
             /\ \A q \in DOMAIN asking' : Of(q)' => asking'[q].pc = "look"
      PROVE  Kept
  BY <1>2, <1>4 DEF R!Settled, R!HasReceipt, R!RowsOf
<1>5. ASSUME NEW r, R!End(r), UNCHANGED <<file, receipt>> PROVE Kept
  BY <1>1, <1>4, <1>5 DEF R!End, R!Drop
<1>6. ASSUME UNCHANGED <<file, receipt, asking>> PROVE Kept
  BY <1>1, <1>4, <1>6
<1>7. ASSUME NEW v \in User, NEW z, R!AskForReceipt(v, z) PROVE Kept
  <2>1. PICK r \in Request : asking' = R!Put(asking, r,
            [pc |-> "look", userId |-> v, year |-> z, found |-> {}])
    BY <1>7, ReceiptNewKey DEF R!AskForReceipt
  <2>2. \A q \in DOMAIN asking' :
            \/ asking'[q].pc = "look"
            \/ q \in DOMAIN asking /\ asking'[q] = asking[q]
    BY <2>1 DEF R!Put
  <2>. QED
    BY <1>1, <1>4, <1>7, <2>2 DEF R!AskForReceipt
\* A request moves on that is not of this receipt.
<1>8. ASSUME NEW r \in DOMAIN asking, NEW row, asking' = [asking EXCEPT ![r] = row],
             row.userId = asking[r].userId, row.year = asking[r].year, ~Of(r)
      PROVE  \A q \in DOMAIN asking' : Of(q)' => asking'[q].pc = "look"
  BY <1>1, <1>8
<1>9. ASSUME NEW r \in Request, R!LookForReceipt(r) PROVE Kept
  <2>1. CASE R!HasReceipt(asking[r].userId, asking[r].year)
    BY <1>5, <1>9, <2>1 DEF R!LookForReceipt
  <2>2. CASE ~R!HasReceipt(asking[r].userId, asking[r].year)
    <3>1. PICK row : row = [asking[r] EXCEPT !.pc = "read"]
      OBVIOUS
    <3>2. /\ r \in DOMAIN asking /\ ~Of(r)
          /\ asking' = [asking EXCEPT ![r] = row]
          /\ row.userId = asking[r].userId /\ row.year = asking[r].year
      BY <1>1, <1>9, <2>2, <3>1, ReceiptRequestType
         DEF R!LookForReceipt, R!At, R!Settled, R!RequestRow
    <3>3. \A q \in DOMAIN asking' : Of(q)' => asking'[q].pc = "look"
      BY <1>8, <3>2
    <3>4. UNCHANGED <<file, receipt>>
      BY <1>9, <2>2 DEF R!LookForReceipt
    <3>. QED
      BY <1>4, <3>3, <3>4
  <2>. QED
    BY <2>1, <2>2
<1>10. ASSUME NEW r \in Request, R!ReadDonations(r) PROVE Kept
  <2>1. PICK found, pc : asking' = [asking EXCEPT ![r].found = found, ![r].pc = pc]
    BY <1>10 DEF R!ReadDonations
  <2>2. PICK row : row = [asking[r] EXCEPT !.found = found, !.pc = pc]
    OBVIOUS
  <2>3. /\ r \in DOMAIN asking /\ ~Of(r)
        /\ asking' = [asking EXCEPT ![r] = row]
        /\ row.userId = asking[r].userId /\ row.year = asking[r].year
    BY <1>1, <1>10, <2>1, <2>2, ReceiptRequestType DEF R!ReadDonations, R!At, R!RequestRow
  <2>4. \A q \in DOMAIN asking' : Of(q)' => asking'[q].pc = "look"
    BY <1>8, <2>3
  <2>5. UNCHANGED <<file, receipt>>
    BY <1>10 DEF R!ReadDonations
  <2>. QED
    BY <1>4, <2>4, <2>5
<1>11. ASSUME NEW r \in Request, R!UploadReceipt(r) PROVE Kept
  <2>1. PICK row : row = [asking[r] EXCEPT !.pc = "create"]
    OBVIOUS
  <2>2. /\ r \in DOMAIN asking /\ ~Of(r)
        /\ asking' = [asking EXCEPT ![r] = row]
        /\ row.userId = asking[r].userId /\ row.year = asking[r].year
    BY <1>1, <1>11, <2>1, ReceiptRequestType DEF R!UploadReceipt, R!At, R!RequestRow
  <2>3. \A q \in DOMAIN asking' : Of(q)' => asking'[q].pc = "look"
    BY <1>8, <2>2
  <2>4. file'[<<u, y>>] = file[<<u, y>>]
    BY <1>3, <1>11, <2>2 DEF R!UploadReceipt, R!Put
  <2>. QED
    BY <1>2, <1>11, <2>3, <2>4 DEF R!UploadReceipt, R!Settled, R!HasReceipt, R!RowsOf
<1>12. ASSUME NEW r \in Request, R!CreateReceipt(r) PROVE Kept
  <2>1. PICK j, row :
            /\ j \notin DOMAIN receipt
            /\ receipt' = R!Put(receipt, j, row)
            /\ row.userId = asking[r].userId /\ row.year = asking[r].year
    BY <1>12, ReceiptNewKey DEF R!CreateReceipt
  <2>2. r \in DOMAIN asking /\ ~Of(r)
    BY <1>1, <1>12 DEF R!CreateReceipt, R!At
  <2>3. R!RowsOf(u, y)' = R!RowsOf(u, y)
    BY <2>1, <2>2 DEF R!RowsOf, R!Put
  <2>4. \A q \in DOMAIN asking' : Of(q)' => asking'[q].pc = "look"
    BY <1>1, <1>12 DEF R!CreateReceipt, R!End, R!Drop
  <2>. QED
    BY <1>2, <1>12, <2>1, <2>3, <2>4
       DEF R!CreateReceipt, R!Settled, R!HasReceipt, R!RowsOf, R!Put
<1>. QED
  BY <1>5, <1>6, <1>7, <1>9, <1>10, <1>11, <1>12
     DEF R!Next, R!Continue, R!NewYear, R!Donate, R!CompleteProfile,
         R!AnswerNone, R!UploadFails, R!RequestFails

\* Whoever asks again and whatever is donated, a receipt stays as it is once
\* the requests that overlap its making have ended.
THEOREM ReceiptsDoSettle ==
    ASSUME R!BoundsAssumption, R!NoYearAssumption
    PROVE  R!Spec => R!ReceiptsSettle
<1>1. ASSUME ReceiptsInv, [R!Next]_(R!vars), NEW u \in User, NEW y \in R!Year,
             R!Settled(u, y)
      PROVE  /\ R!Settled(u, y)'
             /\ R!RowsOf(u, y)' = R!RowsOf(u, y)
             /\ file'[<<u, y>>] = file[<<u, y>>]
  <2>1. CASE R!Next
    BY <1>1, <2>1, SettledStays
  <2>2. CASE UNCHANGED R!vars
    BY <1>1, <2>2 DEF R!vars, R!Settled, R!HasReceipt, R!RowsOf
  <2>. QED
    BY <1>1, <2>1, <2>2
<1>2. ReceiptsInv /\ [R!Next]_(R!vars) =>
          [\A u \in User, y \in R!Year : R!Settled(u, y) =>
               /\ R!Settled(u, y)'
               /\ R!RowsOf(u, y)' = R!RowsOf(u, y)
               /\ file'[<<u, y>>] = file[<<u, y>>]]_(R!vars)
  BY <1>1
<1>. QED
  BY <1>2, ReceiptsInvariance, PTL DEF R!Spec, R!ReceiptsSettle
=============================================================================
