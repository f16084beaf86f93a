----------------------------- MODULE Favourites -----------------------------
(***************************************************************************)
(* A user's favourite campaigns: a table, and a copy of each user's list   *)
(* in Redis (src/user-favourite-campaigns).                                *)
(*                                                                         *)
(* A find looks in the cache, then in the table, then fills the cache.  A  *)
(* create inserts, then deletes the cached list.  Each of these is an      *)
(* await of its own, so requests of the same user interleave between them. *)
(* Redis drops a list when its time to live is over, or before (it may     *)
(* evict, or restart): Expire may come at any time, and comes at last.     *)
(***************************************************************************)
EXTENDS Tables

CONSTANTS
    User,
    Campaign,
    Request         \* requests being handled; a request that ends frees its id

VARIABLES
    favourites,     \* table user_favourite_campaigns: each user's campaigns
    cache,          \* Redis: cached lists under the users' keys
    request,
    was,            \* history: the lists each user has had
    added           \* history: favourites whose create has invalidated the
                    \* cache, and that were not removed since

vars == <<favourites, cache, request, was, added>>

-----------------------------------------------------------------------------
Step == {"insert", "invalidate", "look", "query", "fill", "answer"}
RequestRow == [pc: Step, userId: User, data: SUBSET Campaign]

TypeOK ==
    /\ favourites \in [User -> SUBSET Campaign]
    /\ IsTable(cache, User, SUBSET Campaign)
    /\ IsTable(request, Request, RequestRow)
    /\ was \in [User -> SUBSET SUBSET Campaign]
    /\ added \in [User -> SUBSET Campaign]

Init ==
    /\ favourites = [u \in User |-> {}]
    /\ cache = EmptyTable
    /\ request = EmptyTable
    /\ was = [u \in User |-> {{}}]
    /\ added = [u \in User |-> {}]

-----------------------------------------------------------------------------
(* Requests                                                                *)

At(r, pc) == r \in DOMAIN request /\ request[r].pc = pc

Start(pc, u, data) ==
    /\ HasRoom(Request, request)
    /\ request' = Put(request, NewKey(Request, request),
          [pc |-> pc, userId |-> u, data |-> data])

MoveTo(r, pc, data) ==
    request' = [request EXCEPT ![r].pc = pc, ![r].data = data]

End(r) == request' = Drop(request, r)

\* An await throws (the handlers answer an error) or the process dies.
RequestFails(r) ==
    /\ r \in DOMAIN request
    /\ End(r)
    /\ UNCHANGED <<favourites, cache, was, added>>

\* The user's list becomes S.
Now(u, S) ==
    /\ favourites' = [favourites EXCEPT ![u] = S]
    /\ was' = [was EXCEPT ![u] = @ \cup {S}]

-----------------------------------------------------------------------------
(* UserFavouriteCampaignsService.create                                    *)

AskToCreate(u, c) ==
    /\ Start("insert", u, {c})
    /\ UNCHANGED <<favourites, cache, was, added>>

\* The insert; a favourite already there is refused by @@id and only ends it.
Insert(r) ==
    LET u == request[r].userId
        new == request[r].data IN
    /\ At(r, "insert")
    /\ IF new \subseteq favourites[u]
       THEN End(r) /\ UNCHANGED <<favourites, was>>
       ELSE Now(u, favourites[u] \cup new) /\ MoveTo(r, "invalidate", new)
    /\ UNCHANGED <<cache, added>>

\* Mutant of Invalidate: the cached list is left where it is.
InvalidateNothing(r) ==
    LET u == request[r].userId IN
    /\ At(r, "invalidate")
    /\ added' = [added EXCEPT ![u] = @ \cup (request[r].data \cap favourites[u])]
    /\ End(r)
    /\ UNCHANGED <<favourites, cache, was>>

\* "Delete , invalidate cache data", and the answer.
Invalidate(r) ==
    LET u == request[r].userId IN
    /\ At(r, "invalidate")
    /\ cache' = Drop(cache, u)
    /\ added' = [added EXCEPT ![u] = @ \cup (request[r].data \cap favourites[u])]
    /\ End(r)
    /\ UNCHANGED <<favourites, was>>

\* UserFavouriteCampaignsService.remove: one delete, and the cache keeps it.
Remove(u, c) ==
    /\ c \in favourites[u]
    /\ Now(u, favourites[u] \ {c})
    /\ added' = [added EXCEPT ![u] = @ \ {c}]
    /\ UNCHANGED <<cache, request>>

-----------------------------------------------------------------------------
(* UserFavouriteCampaignsService.findAllByUserId                           *)

AskToFind(u) ==
    /\ Start("look", u, {})
    /\ UNCHANGED <<favourites, cache, was, added>>

\* The list of any user, as if the key did not name one.  Mutant of Look.
LookAnywhere(r) ==
    /\ At(r, "look")
    /\ IF DOMAIN cache # {}
       THEN \E u \in DOMAIN cache : MoveTo(r, "answer", cache[u])
       ELSE MoveTo(r, "query", {})
    /\ UNCHANGED <<favourites, cache, was, added>>

\* An empty list is a hit too: [] is truthy.
Look(r) ==
    LET u == request[r].userId IN
    /\ At(r, "look")
    /\ IF u \in DOMAIN cache
       THEN MoveTo(r, "answer", cache[u])
       ELSE MoveTo(r, "query", {})
    /\ UNCHANGED <<favourites, cache, was, added>>

\* Mutant of Query: the user is read, whose favourites are one level deeper.
QueryUser(r) ==
    /\ At(r, "query")
    /\ MoveTo(r, "fill", {favourites[request[r].userId]})
    /\ UNCHANGED <<favourites, cache, was, added>>

Query(r) ==
    /\ At(r, "query")
    /\ MoveTo(r, "fill", favourites[request[r].userId])
    /\ UNCHANGED <<favourites, cache, was, added>>

\* cacheService.set, after which the data read before it is answered.
Fill(r) ==
    /\ At(r, "fill")
    /\ cache' = Put(cache, request[r].userId, request[r].data)
    /\ MoveTo(r, "answer", request[r].data)
    /\ UNCHANGED <<favourites, was, added>>

Answer(r) ==
    /\ At(r, "answer")
    /\ End(r)
    /\ UNCHANGED <<favourites, cache, was, added>>

\* Mutant of Expire: the time to live is forgotten, so that only create ends
\* the life of a cached list.
ExpireNever(u) ==
    /\ u \in DOMAIN cache
    /\ UNCHANGED vars

\* Redis forgets a list.
Expire(u) ==
    /\ u \in DOMAIN cache
    /\ cache' = Drop(cache, u)
    /\ UNCHANGED <<favourites, request, was, added>>

-----------------------------------------------------------------------------
Continue(r) ==
    \/ Insert(r) \/ Invalidate(r)
    \/ Look(r) \/ Query(r) \/ Fill(r) \/ Answer(r)

Ask ==
    \E u \in User :
        \/ AskToFind(u)
        \/ \E c \in Campaign : AskToCreate(u, c) \/ Remove(u, c)

Next ==
    \/ Ask
    \/ \E r \in Request : Continue(r) \/ RequestFails(r)
    \/ \E u \in User : Expire(u)

Spec == Init /\ [][Next]_vars

\* A request that goes on is resumed by the event loop, and Redis expires
\* keys.  Nobody has to ask for anything.
Fairness ==
    /\ \A r \in Request : WF_vars(Continue(r))
    /\ \A u \in User : WF_vars(Expire(u))

FairSpec == Spec /\ Fairness

-----------------------------------------------------------------------------
(* Properties                                                              *)

\* A list that is cached, read or answered is one that this very user has
\* had: not another user's, and not put together from several moments.
ListsAreTheUsers ==
    /\ \A u \in DOMAIN cache : cache[u] \in was[u]
    /\ \A r \in DOMAIN request :
           request[r].pc \in {"fill", "answer"} =>
               request[r].data \in was[request[r].userId]

\* A favourite whose create has been answered is missing from the cached list.
Misses(u) == u \in DOMAIN cache /\ ~ (added[u] \subseteq cache[u])

\* The one way for a cached list to lack an answered favourite is a find that
\* read the table before the insert and fills the cache after the
\* invalidation: neither create itself nor a find that begins later does it.
OnlyAnOldReadHidesAFavourite ==
    [][\A u \in User :
          (~ Misses(u) /\ Misses(u)') =>
              \E r \in Request :
                  /\ At(r, "fill") /\ request[r].userId = u
                  /\ cache'[u] = request[r].data
                  /\ ~ (added[u] \subseteq request[r].data)]_vars

\* remove does not invalidate and fills may be old, but once the favourites
\* change no more, the cached lists are right in the end, and stay right.
CacheCatchesUp ==
    <>[][UNCHANGED favourites]_vars =>
        <>[](\A u \in DOMAIN cache : cache[u] = favourites[u])
=============================================================================
