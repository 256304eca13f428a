--------------------------- MODULE StorageConnect ---------------------------
(***************************************************************************)
(* A user's own storage: the requests that connect it, add providers to    *)
(* its pool, take them out, change its rules or forget it (api handlers    *)
(* storage*.go), the row they share (shared/auth/storage.go), and the      *)
(* remotes of the one rclone daemon through which everything is reached    *)
(* (shared/rclonerc), with the transfers that make and use them: mirror,   *)
(* rehydration, streams, purges.                                           *)
(*                                                                         *)
(* Remotes are named after the user, not after the row or the request:     *)
(* every request and every transfer creates the same names, call by call,  *)
(* over what is there.                                                     *)
(*                                                                         *)
(* Abstractions: one user; a provider stands for a backend with its        *)
(* parameters, bucket and token; what a call of the daemon or of a         *)
(* provider answers is chosen; prefix, rules and policies are left out,    *)
(* and whether the storage is on is in ByosQueue; a rehydration, a stream  *)
(* and a purge are transfers like a mirroring.                             *)
(***************************************************************************)
EXTENDS Integers, Sequences, FiniteSets

CONSTANTS
  Provider,    \* the storages a user may name
  Blank,       \* a backend whose configuration is empty (setStorage)
  Bucket,      \* a bucket reached without rclone (setStorage)
  Pass,        \* encryption passphrases
  Clear,       \* no passphrase
  Earlier,     \* rows a user may have connected before
  Request, Transfer,
  MaxPool,     \* bound on the providers beside the primary one
  MaxAsk       \* bound on the requests

Primary == Provider \union {Blank, Bucket}
Pools == {s \in Seq(Provider) : Len(s) <= MaxPool}
StorageRow ==
  [prim : Primary, pass : Pass \union {Clear}, pool : Pools]

ASSUME StorageAssumption ==
  /\ Blank \notin Provider /\ Bucket \notin Provider /\ Blank # Bucket /\ Clear \notin Pass
  /\ MaxPool \in Nat /\ MaxAsk \in Nat /\ Earlier \subseteq StorageRow
  /\ Request \intersect Transfer = {}

\* storage_credentials, and the row of a user who has none.
RowOf(prim, pass, pool) == [prim |-> prim, pass |-> pass, pool |-> pool]
NoRow == RowOf(Blank, Clear, <<>>)
IsRclone(row) == row.prim # Bucket

\* rclonerc's names: u_<id>, u_<id>_src, u_<id>_src<i>, u_<id>_union.
UserRemoteName == <<"user", 0>>
SourceName     == <<"src", 0>>
PoolName(i)    == <<"src", i>>
UnionName      == <<"union", 0>>
RemoteName     == {UserRemoteName, UnionName} \union {<<"src", i>> : i \in 0 .. MaxPool + 1}

\* What a remote is: a provider, a crypt over another remote, or a union of remotes.
StoreRemote(p)      == [kind |-> "store", at |-> p, over |-> <<>>, pass |-> Clear]
CryptRemote(n, pw)  == [kind |-> "crypt", at |-> Blank, over |-> <<n>>, pass |-> pw]
UnionRemote(ns)     == [kind |-> "union", at |-> Blank, over |-> ns, pass |-> Clear]
Unmade             == [kind |-> "missing", at |-> Blank, over |-> <<>>, pass |-> Clear]

VARIABLES
  stored,      \* <<>>, or <<the user's row>>
  remote,      \* the daemon's configuration: RemoteName -> what it is
  ask,         \* Request -> what it is doing
  move,        \* Transfer -> what it is doing
  requests,       \* requests made
  alone        \* those of Request and Transfer whose remotes nothing else has redefined

storageVars == <<stored, remote, ask, move, requests, alone>>

RestAsk  == [at |-> "idle", for |-> "none", row |-> NoRow, todo |-> <<>>, seen |-> <<>>]
RestMove == [at |-> "idle", row |-> NoRow, todo |-> <<>>]

StorageInit ==
  /\ stored \in {<<>>} \union {<<row>> : row \in Earlier} /\ remote = [n \in RemoteName |-> Unmade]
  /\ ask = [r \in Request |-> RestAsk] /\ move = [t \in Transfer |-> RestMove]
  /\ requests = 0 /\ alone = Request \union Transfer

----------------------------------------------------------------------------
\* EnsureUserRemote and EnsureUserUnion: the calls of config/create, in their order.
Creation(n, what) == [name |-> n, what |-> what]
UserRemote(row) ==
  IF row.pass = Clear
  THEN <<Creation(UserRemoteName, StoreRemote(row.prim))>>
  ELSE <<Creation(SourceName, StoreRemote(row.prim)),
         Creation(UserRemoteName, CryptRemote(SourceName, row.pass))>>

Members(row) == <<row.prim>> \o row.pool
\* Bug: the union takes the name of the user's remote until the crypt is laid over it.
UserUnionUnderOneName(row) ==
  LET names == [i \in 1 .. Len(Members(row)) |-> PoolName(i)]
  IN  [i \in DOMAIN names |-> Creation(names[i], StoreRemote(Members(row)[i]))]
      \o <<Creation(UserRemoteName, UnionRemote(names)), Creation(UnionName, UnionRemote(names))>>
      \o (IF row.pass = Clear THEN <<>>
          ELSE <<Creation(UserRemoteName, CryptRemote(UnionName, row.pass))>>)
UserUnion(row) ==
  LET names == [i \in 1 .. Len(Members(row)) |-> PoolName(i)]
  IN  [i \in DOMAIN names |-> Creation(names[i], StoreRemote(Members(row)[i]))]
      \o <<Creation(UnionName, UnionRemote(names))>>
      \o (IF row.pass = Clear THEN <<>>
          ELSE <<Creation(UserRemoteName, CryptRemote(UnionName, row.pass))>>)

\* EnsureRemote, and the name it returns.
EnsureRemote(row) == IF row.pool = <<>> THEN UserRemote(row) ELSE UserUnion(row)
RemoteOf(row) == IF row.pool # <<>> /\ row.pass = Clear THEN UnionName ELSE UserRemoteName

\* One of the calls: x creates the next remote; those in the middle of other rows are
\* no longer alone.
Create(x, row, todo) ==
  /\ todo # <<>>
  /\ remote' = [remote EXCEPT ![Head(todo).name] = Head(todo).what]
  /\ alone' = alone \ ({r \in Request : r # x /\ ask[r].row # row}
                       \union {t \in Transfer : t # x /\ move[t].row # row})

\* Where data written to a remote ends: through which passphrase, in which storages.
StoresUnder(n) ==
  LET r == remote[n] IN
  IF r.kind = "store" THEN <<r.at>>
  ELSE IF r.kind = "union" THEN [i \in DOMAIN r.over |-> remote[r.over[i]].at]
  ELSE <<>>
Reached(n) ==
  IF remote[n].kind = "crypt"
  THEN [pass |-> remote[n].pass, in |-> StoresUnder(remote[n].over[1])]
  ELSE [pass |-> Clear, in |-> StoresUnder(n)]
Promised(row) == [pass |-> row.pass, in |-> Members(row)]

----------------------------------------------------------------------------
\* A request of the user.  A plan without it is refused, which changes nothing.
Asks(r, for, at, row, todo) ==
  /\ ask[r].at = "idle" /\ requests < MaxAsk /\ requests' = requests + 1
  /\ ask' = [ask EXCEPT ![r] = [at |-> at, for |-> for, row |-> row, todo |-> todo, seen |-> <<>>]]
  /\ alone' = alone \union {r}

\* connectStorage: a pasted block, an account or a bucket, with or without a passphrase.
Connect(r) ==
  \E p \in Provider, pw \in Pass \union {Clear} :
    LET row == RowOf(p, pw, <<>>) IN
    /\ Asks(r, "connect", "ensure", row, UserRemote(row))
    /\ UNCHANGED <<stored, remote, move>>

\* The browser comes back from a provider, to connect it or to add it to the pool; the code
\* is exchanged and the drive looked up before anything else.
OauthCallback(r) ==
  \E p \in Provider, for \in {"connect", "pool"} :
    /\ Asks(r, for, "exchange", RowOf(p, Clear, <<>>), <<>>)
    /\ UNCHANGED <<stored, remote, move>>
Exchange(r) ==
  /\ ask[r].at = "exchange"
  /\ ask' = [ask EXCEPT ![r].at = IF @ = "exchange" /\ ask[r].for = "pool" THEN "read" ELSE "ensure",
                        ![r].todo = IF ask[r].for = "pool" THEN <<>> ELSE UserRemote(ask[r].row)]
  /\ UNCHANGED <<stored, remote, move, requests, alone>>

\* setProviders and oauthAddToPool: the row as it is, with one more provider.
AddsTo(r, row, p) ==
  LET grown == [row EXCEPT !.pool = Append(@, p)] IN
  ask' = [ask EXCEPT ![r] = [at |-> "ensure", for |-> "pool", row |-> grown,
                             todo |-> EnsureRemote(grown), seen |-> <<>>]]
OauthAddToPool(r) ==
  /\ ask[r].at = "read" /\ stored # <<>> /\ IsRclone(stored[1]) /\ Len(stored[1].pool) < MaxPool
  /\ AddsTo(r, stored[1], ask[r].row.prim)
  /\ alone' = alone \union {r}
  /\ UNCHANGED <<stored, remote, move, requests>>
SetProviders(r) ==
  /\ stored # <<>> /\ IsRclone(stored[1]) /\ Len(stored[1].pool) < MaxPool
  /\ \E p \in Provider :
       LET grown == [stored[1] EXCEPT !.pool = Append(@, p)] IN
       Asks(r, "pool", "ensure", grown, EnsureRemote(grown))
  /\ UNCHANGED <<stored, remote, move>>

\* removeProvider, by its place in the list.
Without(s, i) == [k \in 1 .. Len(s) - 1 |-> IF k < i THEN s[k] ELSE s[k + 1]]
\* Bug: the pool is rebuilt from the row before the provider is taken out of it.
RemoveProviderLate(r) ==
  /\ stored # <<>> /\ IsRclone(stored[1])
  /\ \E i \in DOMAIN stored[1].pool :
       LET less == [stored[1] EXCEPT !.pool = Without(@, i)] IN
       Asks(r, "unpool", "ensure", less, EnsureRemote(stored[1]))
  /\ UNCHANGED <<stored, remote, move>>
RemoveProvider(r) ==
  /\ stored # <<>> /\ IsRclone(stored[1])
  /\ \E i \in DOMAIN stored[1].pool :
       LET less == [stored[1] EXCEPT !.pool = Without(@, i)] IN
       Asks(r, "unpool", "ensure", less, EnsureRemote(less))
  /\ UNCHANGED <<stored, remote, move>>

\* setEvictPolicy: the whole row is read, and written back with other rules.
SetEvictPolicy(r) ==
  /\ stored # <<>>
  /\ Asks(r, "rules", "save", stored[1], <<>>)
  /\ UNCHANGED <<stored, remote, move>>

\* One of the request's calls of config/create, or the first that fails, ends it.
Ensure(r) ==
  /\ ask[r].at = "ensure" /\ Create(r, ask[r].row, ask[r].todo)
  /\ ask' = [ask EXCEPT ![r].todo = Tail(@),
                        ![r].at = IF Len(ask[r].todo) = 1 THEN "check" ELSE "ensure"]
  /\ UNCHANGED <<stored, move, requests>>

\* CheckAccess lists what the name reaches by then.
CheckAccess(r) ==
  /\ ask[r].at = "check"
  /\ ask' = [ask EXCEPT ![r].at = "save", ![r].seen = <<Reached(RemoteOf(ask[r].row))>>]
  /\ UNCHANGED <<stored, remote, move, requests, alone>>

SaveStorageCreds(r) ==
  /\ ask[r].at = "save"
  /\ stored' = <<ask[r].row>> /\ ask' = [ask EXCEPT ![r] = RestAsk]
  /\ UNCHANGED <<remote, move, requests, alone>>

\* An error of the daemon, the provider or the database, or the client has gone.
GivesUp(r) ==
  /\ ask[r].at # "idle" /\ ask' = [ask EXCEPT ![r] = RestAsk]
  /\ UNCHANGED <<stored, remote, move, requests, alone>>

\* setStorage writes what the body says, which has no configuration for a backend.
SetStorage ==
  /\ requests < MaxAsk /\ requests' = requests + 1
  /\ \E p \in {Blank, Bucket} : stored' = <<RowOf(p, Clear, <<>>)>>
  /\ UNCHANGED <<remote, ask, move, alone>>

DelStorage ==
  /\ stored # <<>> /\ stored' = <<>>
  /\ UNCHANGED <<remote, ask, move, requests, alone>>

----------------------------------------------------------------------------
\* A transfer reads the row, makes its remotes and uses them.
ReadCreds(t) ==
  /\ move[t].at = "idle" /\ stored # <<>> /\ IsRclone(stored[1])
  /\ move' = [move EXCEPT ![t] = [at |-> "ensure", row |-> stored[1], todo |-> EnsureRemote(stored[1])]]
  /\ alone' = alone \union {t}
  /\ UNCHANGED <<stored, remote, ask, requests>>

TransferEnsures(t) ==
  /\ move[t].at = "ensure" /\ Create(t, move[t].row, move[t].todo)
  /\ move' = [move EXCEPT ![t].todo = Tail(@),
                          ![t].at = IF Len(move[t].todo) = 1 THEN "using" ELSE "ensure"]
  /\ UNCHANGED <<stored, ask, requests>>

TransferEnds(t) ==
  /\ move[t].at # "idle" /\ move' = [move EXCEPT ![t] = RestMove]
  /\ UNCHANGED <<stored, remote, ask, requests, alone>>

StorageNext ==
  \/ \E r \in Request :
       \/ Connect(r) \/ OauthCallback(r) \/ Exchange(r) \/ OauthAddToPool(r)
       \/ SetProviders(r) \/ RemoveProvider(r) \/ SetEvictPolicy(r)
       \/ Ensure(r) \/ CheckAccess(r) \/ SaveStorageCreds(r) \/ GivesUp(r)
  \/ SetStorage \/ DelStorage
  \/ \E t \in Transfer : ReadCreds(t) \/ TransferEnsures(t) \/ TransferEnds(t)
StorageSpec == StorageInit /\ [][StorageNext]_storageVars

----------------------------------------------------------------------------
RemoteWhat ==
  [kind : {"store", "crypt", "union", "missing"}, at : Primary, pass : Pass \union {Clear},
   over : UNION {[1 .. n -> RemoteName] : n \in 0 .. MaxPool + 1}]

\* The variables have the types the code gives them.
StorageTypeOK ==
  /\ stored = <<>> \/ (Len(stored) = 1 /\ stored[1] \in StorageRow)
  /\ \A n \in RemoteName : remote[n] \in RemoteWhat
  /\ \A r \in Request :
       ask[r].at \in {"idle", "exchange", "read", "ensure", "check", "save"} /\ ask[r].row \in StorageRow
  /\ \A t \in Transfer : move[t].at \in {"idle", "ensure", "using"} /\ move[t].row \in StorageRow
  /\ requests \in 0 .. MaxAsk /\ alone \subseteq Request \union Transfer

\* A transfer whose remotes were made for no other row meanwhile writes through its row's
\* passphrase into its row's storages, while others of the same row make the same remotes
\* again, call by call, and calls fail half-way (EnsureUserRemote, EnsureUserUnion).
TransferKeepsItsRow ==
  \A t \in Transfer \intersect alone :
    move[t].at = "using" => Reached(RemoteOf(move[t].row)) = Promised(move[t].row)

\* What a connection, an addition or a removal saves is what its access check has listed,
\* unless another request or transfer redefined the user's remotes in between.
SavedWasReached ==
  \A r \in Request \intersect alone :
    ask[r].at = "save" /\ ask[r].for # "rules" => ask[r].seen = <<Promised(ask[r].row)>>
=============================================================================
