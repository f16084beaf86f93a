-------------------------------- MODULE Users --------------------------------
(***************************************************************************)
(* A user's session and a user's Stripe customer: the two fields of the    *)
(* users table that requests read first and write later (src/auth, and     *)
(* StripeService.createPaymentIntent).                                     *)
(*                                                                         *)
(*   signUp:            create -> save                        -> answered  *)
(*   signIn, refresh:   read -> save                          -> answered  *)
(*   pay:               look ( -> make -> keep ) -> intend    -> answered  *)
(*                                                                         *)
(* Each arrow is an await.  A client sends several requests at once, and   *)
(* any of them fails at any await, with what it has written left as it is. *)
(* AuthService.deleteAll is no action: every sign-up stores a preference,  *)
(* whose foreign key (ON DELETE RESTRICT) refuses the deletion.  Tokens do *)
(* not expire here (a refresh token lives for 200 days).                   *)
(***************************************************************************)
EXTENDS Tables

CONSTANTS
    User,           \* ids of the identity provider's users
    Request,        \* ids of requests, each used once
    None            \* null

VARIABLES
    user,           \* table users
    customer,       \* Stripe: the customers there are
    request,
    held,           \* history: refresh tokens (or null) answered to each user
    paid            \* history: users whose payment has been answered

vars == <<user, customer, request, held, paid>>

-----------------------------------------------------------------------------
Optional(S) == S \cup {None}

\* A refresh token: whom it was signed for, and by which request.
Token == [sub: User, by: Request]
Customer == [userId: User, by: Request]

\* null is no token and no customer.
ASSUME NoneAssumption == None \notin Token \cup Customer

UserRow == [refreshToken: Optional(Token), stripeCustomerId: Optional(Customer)]

Kind == {"signUp", "signIn", "refresh", "pay"}
Live == {"create", "read", "save", "look", "make", "keep", "intend"}

\* token, customer: what the answer will carry.
\* before: history, whether the user had been answered a request of the same
\* part (a session, or a payment) when this one was made.
RequestRow == [kind: Kind, userId: User, before: BOOLEAN,
               pc: Live \cup {"answered", "refused", "failed"},
               token: Optional(Token), customer: Optional(Customer)]

\* Rows are of their types; in particular a user row refers to a customer by
\* its id, and stores one refresh token and not the pair of tokens.
TypeOK ==
    /\ IsTable(user, User, UserRow)
    /\ customer \subseteq Customer
    /\ IsTable(request, Request, RequestRow)
    /\ held \in [User -> SUBSET Optional(Token)]
    /\ paid \subseteq User

Init ==
    /\ user = EmptyTable
    /\ customer = {}
    /\ request = EmptyTable
    /\ held = [u \in User |-> {}]
    /\ paid = {}

-----------------------------------------------------------------------------
(* Requests                                                                *)

At(r, pc) == r \in DOMAIN request /\ request[r].pc = pc

Ask(kind, pc, u, before) ==
    /\ HasRoom(Request, request)
    /\ request' = Put(request, NewKey(Request, request),
          [kind |-> kind, userId |-> u, before |-> before, pc |-> pc,
           token |-> None, customer |-> None])
    /\ UNCHANGED <<user, customer, held, paid>>

\* Request r goes on to step pc; its answer will carry token t, customer c.
Go(r, pc, t, c) ==
    request' = [request EXCEPT ![r] =
        [@ EXCEPT !.pc = pc, !.token = t, !.customer = c]]

HasSession(u) == held[u] # {}

AskSignUp(u) == Ask("signUp", "create", u, HasSession(u))
AskSignIn(u) == Ask("signIn", "read", u, HasSession(u))

\* RefreshTokenGuard: the client shows a refresh token it was answered.
AskRefresh(u) == held[u] \ {None} # {} /\ Ask("refresh", "read", u, TRUE)

\* AccessTokenGuard: an access token comes with every answered session.
AskPay(u) == HasSession(u) /\ Ask("pay", "look", u, u \in paid)

\* An await throws; only what the handlers decide themselves is "refused".
RequestFails(r) ==
    /\ r \in DOMAIN request /\ request[r].pc \in Live
    /\ request' = [request EXCEPT ![r].pc = "failed"]
    /\ UNCHANGED <<user, customer, held, paid>>

-----------------------------------------------------------------------------
(* Sessions: AuthService                                                   *)

Refuse(r) == request' = [request EXCEPT ![r].pc = "refused"]

\* _generateToken, of request r.
Signed(r) == [sub |-> request[r].userId, by |-> r]

\* signUp: the row is inserted, unless the id is already there.
CreateUser(r) ==
    LET u == request[r].userId IN
    /\ At(r, "create")
    /\ IF u \in DOMAIN user
       THEN Refuse(r) /\ UNCHANGED user
       ELSE /\ user' = Put(user, u, [refreshToken |-> None, stripeCustomerId |-> None])
            /\ Go(r, "save", Signed(r), None)
    /\ UNCHANGED <<customer, held, paid>>

\* refreshTokens denies access to who has no token stored; signIn has no
\* such test, and answers { ...jwt, ...user }: the token of the row it read.
ReadUser(r) ==
    LET u == request[r].userId IN
    /\ At(r, "read")
    /\ IF u \notin DOMAIN user \/ (request[r].kind = "refresh"
                                    /\ user[u].refreshToken = None)
       THEN Refuse(r)
       ELSE Go(r, "save", IF request[r].kind = "signIn" THEN user[u].refreshToken
                                                        ELSE Signed(r), None)
    /\ UNCHANGED <<user, customer, held, paid>>

\* Mutants of SaveToken: the update is left out; the row gets both tokens.
SaveNothing(r) ==
    /\ At(r, "save")
    /\ Go(r, "answered", request[r].token, None)
    /\ held' = [held EXCEPT ![request[r].userId] = @ \cup {request[r].token}]
    /\ UNCHANGED <<user, customer, paid>>

SaveBoth(r) ==
    LET u == request[r].userId IN
    /\ At(r, "save")
    /\ user' = [user EXCEPT ![u].refreshToken =
          [accessToken |-> Signed(r), refreshToken |-> Signed(r)]]
    /\ Go(r, "answered", request[r].token, None)
    /\ held' = [held EXCEPT ![u] = @ \cup {request[r].token}]
    /\ UNCHANGED <<customer, paid>>

\* updateUserRefreshToken, and the answer.
SaveToken(r) ==
    LET u == request[r].userId IN
    /\ At(r, "save")
    /\ user' = [user EXCEPT ![u].refreshToken = Signed(r)]
    /\ Go(r, "answered", request[r].token, None)
    /\ held' = [held EXCEPT ![u] = @ \cup {request[r].token}]
    /\ UNCHANGED <<customer, paid>>

-----------------------------------------------------------------------------
(* Customers: StripeService.createPaymentIntent and _createCustomer        *)

\* Existing customer, or a new one.
LookForCustomer(r) ==
    LET c == user[request[r].userId].stripeCustomerId IN
    /\ At(r, "look")
    /\ Go(r, IF c # None THEN "intend" ELSE "make", None, c)
    /\ UNCHANGED <<user, customer, held, paid>>

MakeCustomer(r) ==
    LET c == [userId |-> request[r].userId, by |-> r] IN
    /\ At(r, "make")
    /\ customer' = customer \cup {c}
    /\ Go(r, "keep", None, c)
    /\ UNCHANGED <<user, held, paid>>

\* Mutant of KeepCustomer: the update is left out.
KeepNoCustomer(r) ==
    /\ At(r, "keep")
    /\ Go(r, "intend", None, request[r].customer)
    /\ UNCHANGED <<user, customer, held, paid>>

\* The last of several updates stays; each request goes on with its own.
KeepCustomer(r) ==
    /\ At(r, "keep")
    /\ user' = [user EXCEPT ![request[r].userId].stripeCustomerId = request[r].customer]
    /\ Go(r, "intend", None, request[r].customer)
    /\ UNCHANGED <<customer, held, paid>>

\* paymentIntents.create, and the answer.
CreateIntent(r) ==
    /\ At(r, "intend")
    /\ Go(r, "answered", None, request[r].customer)
    /\ paid' = paid \cup {request[r].userId}
    /\ UNCHANGED <<user, customer, held>>

-----------------------------------------------------------------------------
Arrive == \E u \in User : AskSignUp(u) \/ AskSignIn(u) \/ AskRefresh(u) \/ AskPay(u)

Serve(r) ==
    \/ CreateUser(r) \/ ReadUser(r) \/ SaveToken(r)
    \/ LookForCustomer(r) \/ MakeCustomer(r) \/ KeepCustomer(r) \/ CreateIntent(r)
    \/ RequestFails(r)

Next == Arrive \/ \E r \in Request : Serve(r)

Spec == Init /\ [][Next]_vars

-----------------------------------------------------------------------------
(* What sessions and customers promise                                     *)

\* A session that was answered once lasts: whatever signs in, refreshes and
\* fails in between, the user's later sign-ins and refreshes are not refused,
\* and a sign-in is answered a refresh token and not null, although signIn
\* answers the token that was stored before and not the one it has signed.
SessionsLast ==
    \A r \in DOMAIN request :
        request[r].kind \in {"signIn", "refresh"} /\ request[r].before =>
            /\ request[r].pc # "refused"
            /\ request[r].pc \in {"save", "answered"} => request[r].token # None

\* Once a payment of a user has been answered, no later payment makes another
\* customer, although first payments at once make several and the stored one
\* changes; and every payment is of a customer of that user, known to Stripe.
NewCustomersStop ==
    \A r \in DOMAIN request : request[r].kind = "pay" =>
        /\ request[r].before => request[r].pc \notin {"make", "keep"}
        /\ request[r].pc \in {"intend", "answered"} =>
               /\ request[r].customer \in customer
               /\ request[r].customer.userId = request[r].userId
               /\ request[r].before => request[r].customer.by # r
=============================================================================
