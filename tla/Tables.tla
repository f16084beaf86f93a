------------------------------- MODULE Tables -------------------------------
(***************************************************************************)
(* A database table is a partial function from primary keys to rows.  Its  *)
(* DOMAIN is the set of keys that are stored; inserting and updating a row *)
(* are both Put.  Shared by the modules that model Prisma tables.          *)
(***************************************************************************)

\* The table t with row v under key k, inserted or replaced.
Put(t, k, v) == [x \in DOMAIN t \cup {k} |-> IF x = k THEN v ELSE t[x]]

\* The table t without key k.
Drop(t, k) == [x \in DOMAIN t \ {k} |-> t[x]]

\* t stores rows of the set Row under keys of the set Key.
IsTable(t, Key, Row) == DOMAIN t \subseteq Key /\ t \in [DOMAIN t -> Row]

\* A table without rows.
EmptyTable == [k \in {} |-> {}]

\* A key that table t does not use yet.  Ids are uuids (@default(uuid())) or
\* ids minted by Stripe: which unused id is taken never matters.
NewKey(Key, t) == CHOOSE k \in Key : k \notin DOMAIN t

\* The bound on rows: some key is still free.
HasRoom(Key, t) == \E k \in Key : k \notin DOMAIN t
=============================================================================
