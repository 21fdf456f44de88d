------------------------ MODULE PresentedTokenProofs ------------------------
(***************************************************************************)
(* Proofs about what decides on a presented token.  First the cut-offs, of *)
(* TokenRevocation, for any owners, credentials and requests, any number   *)
(* of open transactions and any lifetimes: an ended authority is refused,  *)
(* the sweep of cut-offs brings no token back, a person's token is not     *)
(* born revoked, and no token outlives its credential.  Then the verdict   *)
(* cache of the composition, for any readers, tokens and limits: it never  *)
(* exceeds its limit, and it implements the staleness window.  Last the    *)
(* composition: there the cache keeps both, and the key snapshot what it   *)
(* is proved to promise by itself (KeySnapshotProofs).                     *)
(***************************************************************************)
EXTENDS MCPresentedToken, FiniteSetTheorems, TLAPS

\* A request between its reading of the client and its signature.
InProgress == {"resolved", "weighed", "waiting"}

\* An open transaction has read a moment, and holds its row.
PendingInv == \A p \in pending :
    /\ 1 <= p.at /\ p.at <= now
    /\ p.kind \in {"issue", "remove"} => p.key \in Credentials
    /\ p.kind \in {"cutoff", "block", "delete"} => p.key \in Persons
    /\ p.kind = "disable" => p.key \in ServiceAccounts
    /\ p.kind = "issue" => cred[p.key].state = "none"
    /\ p.kind \in {"block", "delete"} => owner[p.key] # "gone"

Row == [state : {"none", "live", "gone"}, owner : Owners, issuedAt : Nat, expiresAt : Nat]

\* One issuance per credential; a block and a deletion exclude each other.
LocksInv == \A p, q \in pending :
    (/\ p.key = q.key
     /\ \/ p.kind = "issue" /\ q.kind = "issue"
        \/ p.kind \in {"block", "delete"} /\ q.kind \in {"block", "delete"})
    => p = q

\* How the two tables of cut-offs and the rows they are about hang together.
TablesInv ==
    /\ 1 <= now
    /\ \A c \in Credentials : cred[c].state # "none" => 1 <= cred[c].issuedAt
    /\ \A c \in Credentials : cred[c].state # "gone" => minted[c] = NoMoment
    /\ \A p \in Persons : owner[p] # "gone" => minted[p] <= revokeBefore[p]
    /\ \A s \in ServiceAccounts : owner[s] # "gone"

RestsOn(r) == req[r].pc # "idle" => cred[req[r].cred].state # "none"

\* A token's life is bounded by what it was signed with.
LifeIsBounded(r) == Issued(r) =>
    /\ req[r].iat <= now /\ req[r].exp <= req[r].iat + TokenTTL
    /\ cred[req[r].cred].expiresAt # NoMoment => req[r].exp <= cred[req[r].cred].expiresAt

\* What a request has read still stands, unless a commit has overtaken it.
StillStands(r) ==
    (req[r].pc \in InProgress /\ ~raced[r]) =>
       /\ cred[req[r].cred].state = "live"
       /\ OwnerOf(req[r].cred) \in ServiceAccounts => owner[OwnerOf(req[r].cred)] = "active"
       /\ OwnerOf(req[r].cred) \in Persons => owner[OwnerOf(req[r].cred)] # "gone"

\* So does the cut-off it was weighed against.
WeighedRight(r) ==
    (/\ req[r].pc \in {"weighed", "waiting"} /\ ~raced[r]
     /\ OwnerOf(req[r].cred) \in Persons) =>
       /\ req[r].cutoff = revokeBefore[OwnerOf(req[r].cred)]
       /\ revokeBefore[OwnerOf(req[r].cred)] < cred[req[r].cred].issuedAt

\* A transaction that is open against an issued token has read its moment later.
CutsLater(r) == (Issued(r) /\ ~raced[r]) =>
    \A p \in pending : p.key \in ForwardKeys(r) => req[r].iat <= p.at

\* The authority of a token has ended.
Ended(r) ==
    \/ cred[req[r].cred].state = "gone"
    \/ /\ OwnerOf(req[r].cred) \in ServiceAccounts
       /\ owner[OwnerOf(req[r].cred)] = "off"
    \/ /\ OwnerOf(req[r].cred) \in Persons
       /\ cred[req[r].cred].issuedAt <= revokeBefore[OwnerOf(req[r].cred)]

IsRefused(r) == (Issued(r) /\ ~raced[r] /\ WithinLifetime(r) /\ Ended(r)) => CutOff(r)

RowsInv == TypeOK /\ PendingInv /\ LocksInv /\ TablesInv

RequestInv(r) ==
    RestsOn(r) /\ LifeIsBounded(r) /\ StillStands(r) /\ WeighedRight(r) /\ CutsLater(r)
    /\ IsRefused(r)

IInv == RowsInv /\ \A r \in Requests : RequestInv(r)
-----------------------------------------------------------------------------
(* The operators.                                                          *)

LEMMA FloorFacts ==
    ASSUME NEW t \in Nat
    PROVE  FloorSecond(t) \in Nat /\ FloorSecond(t) <= t
BY RevocationAssumption DEF FloorSecond

LEMMA RaisedFacts ==
    ASSUME NEW D, NEW table \in [D -> Nat], NEW S, NEW at \in Nat
    PROVE  /\ Raised(table, S, at) \in [D -> Nat]
           /\ \A k \in D : table[k] <= Raised(table, S, at)[k]
           /\ \A k \in D : k \notin S => Raised(table, S, at)[k] = table[k]
           /\ \A k \in D : k \in S => /\ at <= Raised(table, S, at)[k]
                                     /\ Raised(table, S, at)[k] = MaxOf(table[k], at)
BY DEF Raised, MaxOf

LEMMA GoneFacts ==
    ASSUME TypeOK, NEW S
    PROVE  /\ Gone(S) \in [Credentials -> Row]
           /\ \A c \in Credentials :
                 /\ Gone(S)[c].owner = cred[c].owner
                 /\ Gone(S)[c].issuedAt = cred[c].issuedAt
                 /\ Gone(S)[c].expiresAt = cred[c].expiresAt
                 /\ c \in S => Gone(S)[c].state = "gone"
                 /\ c \notin S => Gone(S)[c].state = cred[c].state
<1>1. \A c \in Credentials :
         LET d == [cred[c] EXCEPT !.state = "gone"]
         IN /\ d \in Row /\ d.owner = cred[c].owner /\ d.issuedAt = cred[c].issuedAt
            /\ d.expiresAt = cred[c].expiresAt /\ d.state = "gone"
  BY DEF TypeOK, Row
<1>2. \A c \in Credentials : cred[c] \in Row
  BY DEF TypeOK, Row
<1>3. \A c \in Credentials :
         /\ c \in S => Gone(S)[c] = [cred[c] EXCEPT !.state = "gone"]
         /\ c \notin S => Gone(S)[c] = cred[c]
  BY DEF Gone
<1>4. Gone(S) \in [Credentials -> Row]
  BY <1>1, <1>2 DEF Gone
<1> QED
  BY <1>1, <1>3, <1>4
-----------------------------------------------------------------------------
(* Steps that leave the requests alone: what they may change, and what     *)
(* every change owes to the requests under way.                            *)

\* Every request that has read, before p commits, what p changes is marked.
Overtakes(p, pcs) ==
    \A r \in Requests : (p.key \in ForwardKeys(r) /\ req[r].pc \in pcs) => raced'[r]

CredentialMove(c) ==
    /\ cred'[c].owner = cred[c].owner
    /\ cred[c].state # "none" => /\ cred'[c].issuedAt = cred[c].issuedAt
                                 /\ cred'[c].expiresAt = cred[c].expiresAt
                                 /\ cred'[c].state # "none"
    /\ (cred[c].state = "live" /\ cred'[c].state = "gone") =>
          \E p \in pending : /\ p.key \in {c, OwnerOf(c)} /\ p.at <= minted'[c]
                             /\ Overtakes(p, InProgress)

AccountMove(s) ==
    (owner[s] = "active" /\ owner'[s] = "off") =>
       \E p \in pending : p.key = s /\ p.at <= minted'[s] /\ Overtakes(p, InProgress)

PersonMove(u) ==
    /\ revokeBefore'[u] # revokeBefore[u] =>
          \E p \in pending :
             /\ p.key = u /\ Overtakes(p, {"weighed", "waiting"})
             /\ revokeBefore'[u] = NoMoment \/ p.at <= minted'[u]
    /\ (owner'[u] = "gone" /\ owner[u] # "gone") =>
          \E p \in pending : p.key = u /\ Overtakes(p, InProgress)

TableMove ==
    /\ req' = req /\ now <= now'
    /\ \A r \in Requests : raced[r] => raced'[r]
    /\ \A r \in Requests : req[r].pc \notin InProgress => raced'[r] = raced[r]
    /\ \A p \in pending' : p \in pending \/ p.at = now
    /\ \A k \in Keys : minted[k] <= minted'[k] \/ Stale(k)
    /\ \A c \in Credentials : CredentialMove(c)
    /\ \A s \in ServiceAccounts : AccountMove(s)
    /\ \A u \in Persons : PersonMove(u)

LEMMA Types ==
    ASSUME TypeOK
    PROVE  /\ now \in Nat /\ revokeBefore \in [Persons -> Nat] /\ minted \in [Keys -> Nat]
           /\ owner \in [Owners -> {"active", "off", "gone"}]
           /\ \A c \in Credentials : cred[c] \in Row /\ OwnerOf(c) \in Owners /\ c \in Keys
           /\ cred \in [Credentials -> Row]
           /\ \A p \in pending : p.kind \in Kinds /\ p.key \in Keys /\ p.at \in Nat
           /\ Persons \subseteq Keys /\ ServiceAccounts \subseteq Keys
           /\ Persons \subseteq Owners /\ ServiceAccounts \subseteq Owners
           /\ \A r \in Requests : raced[r] \in BOOLEAN
BY DEF TypeOK, Row, OwnerOf, Keys, Owners, Tx

LEMMA CloseFacts ==
    ASSUME TypeOK, NEW p \in pending, Close(p)
    PROVE  /\ raced' \in [Requests -> BOOLEAN]
           /\ \A r \in Requests : raced[r] => raced'[r]
           /\ \A r \in Requests : req[r].pc \notin InProgress => raced'[r] = raced[r]
           /\ Overtakes(p, {"weighed", "waiting"})
           /\ p.kind \notin {"cutoff", "block"} => Overtakes(p, InProgress)
           /\ pending' = pending \ {p} /\ UNCHANGED <<now, verified, req>>
<1>1. /\ raced' = [r \in Requests |-> raced[r] \/ r \in Overtaken(p)]
      /\ pending' = pending \ {p} /\ UNCHANGED <<now, verified, req>>
  BY DEF Close
<1>2. \A r \in Requests : r \in Overtaken(p) => req[r].pc \in InProgress
  BY DEF Overtaken, InProgress
<1>3. \A r \in Requests : p.key \in ForwardKeys(r) =>
         /\ req[r].pc \in {"weighed", "waiting"} => r \in Overtaken(p)
         /\ p.kind \notin {"cutoff", "block"} /\ req[r].pc \in InProgress => r \in Overtaken(p)
  BY DEF Overtaken, InProgress
<1>4. \A r \in Requests : raced[r] \in BOOLEAN
  BY DEF TypeOK
<1>5. \A r \in Requests : raced'[r] = (raced[r] \/ r \in Overtaken(p))
  BY <1>1
<1>6. raced' \in [Requests -> BOOLEAN]
  BY <1>1
<1>7. /\ \A r \in Requests : raced[r] => raced'[r]
      /\ \A r \in Requests : req[r].pc \notin InProgress => raced'[r] = raced[r]
  BY <1>2, <1>4, <1>5
<1>8. /\ Overtakes(p, {"weighed", "waiting"})
      /\ p.kind \notin {"cutoff", "block"} => Overtakes(p, InProgress)
  BY <1>3, <1>5 DEF Overtakes
<1> QED
  BY <1>1, <1>6, <1>7, <1>8

\* Steps that touch neither tables nor moments.
LEMMA NothingMoves ==
    ASSUME TypeOK, UNCHANGED <<cred, revokeBefore, minted, req, raced>>, now <= now',
           \A p \in pending' : p \in pending \/ p.at = now,
           \A s \in ServiceAccounts : owner'[s] = "off" => owner[s] = "off",
           \A u \in Persons : owner'[u] = "gone" => owner[u] = "gone"
    PROVE  TableMove
<1>1. \A k \in Keys : minted[k] <= minted'[k]
  BY Types
<1>2. \A c \in Credentials : CredentialMove(c)
  BY DEF CredentialMove
<1> QED
  BY <1>1, <1>2 DEF TableMove, AccountMove, PersonMove

\* A transaction that leaves, with the tables as they are.
LEMMA FewerPending ==
    ASSUME RowsInv, TypeOK', pending' \subseteq pending, UNCHANGED <<now, owner, cred>>,
           TablesInv'
    PROVE  RowsInv'
<1>1. PendingInv' /\ LocksInv'
  BY DEF RowsInv, PendingInv, LocksInv
<1> QED
  BY <1>1 DEF RowsInv

LEMMA TickMoves ==
    ASSUME RowsInv, Tick PROVE RowsInv' /\ TableMove
<1>1. /\ now \in Nat /\ now' = now + 1
      /\ UNCHANGED <<owner, verified, cred, revokeBefore, minted, pending, req, raced>>
  BY DEF Tick, RowsInv, TypeOK
<1>2. TypeOK'
  BY <1>1 DEF RowsInv, TypeOK
<1>3. \A p \in pending : p.at \in Nat
  BY Types DEF RowsInv
<1>4. PendingInv'
  BY <1>1, <1>3 DEF RowsInv, PendingInv
<1>5. LocksInv' /\ TablesInv'
  BY <1>1 DEF RowsInv, LocksInv, TablesInv
<1>6. TableMove
  BY <1>1, NothingMoves DEF RowsInv
<1> QED
  BY <1>2, <1>4, <1>5, <1>6 DEF RowsInv

\* What opens has read the clock and holds its row.
LEMMA OpenMoves ==
    ASSUME RowsInv, NEW kind \in Kinds, NEW key \in Keys, Open(kind, key),
           kind \in {"issue", "remove"} => key \in Credentials,
           kind \in {"cutoff", "block", "delete"} => key \in Persons,
           kind = "disable" => key \in ServiceAccounts,
           kind = "issue" => cred[key].state = "none" /\ ~Locked({"issue"}, key),
           kind \in {"block", "delete"} =>
              owner[key] # "gone" /\ ~Locked({"block", "delete"}, key)
    PROVE  RowsInv' /\ TableMove
<1> DEFINE new == [kind |-> kind, key |-> key, at |-> now]
<1>1. /\ pending' = pending \cup {new}
      /\ UNCHANGED <<now, owner, verified, cred, revokeBefore, minted, req, raced>>
  BY DEF Open
<1>2. new \in Tx /\ new.kind = kind /\ new.key = key /\ new.at = now /\ 1 <= now /\ now \in Nat
  BY DEF RowsInv, TypeOK, Tx, TablesInv
<1> HIDE DEF new
<1>3. TypeOK'
  BY <1>1, <1>2 DEF RowsInv, TypeOK
<1>4. PendingInv'
  <2>1. ASSUME NEW p \in pending PROVE
          /\ 1 <= p.at /\ p.at <= now
          /\ p.kind \in {"issue", "remove"} => p.key \in Credentials
          /\ p.kind \in {"cutoff", "block", "delete"} => p.key \in Persons
          /\ p.kind = "disable" => p.key \in ServiceAccounts
          /\ p.kind = "issue" => cred[p.key].state = "none"
          /\ p.kind \in {"block", "delete"} => owner[p.key] # "gone"
    BY DEF RowsInv, PendingInv
  <2> QED
    BY <1>1, <1>2, <2>1 DEF PendingInv
<1>5. LocksInv'
  <2>1. \A p \in pending : p.key = key =>
           /\ ~(p.kind = "issue" /\ kind = "issue")
           /\ ~(p.kind \in {"block", "delete"} /\ kind \in {"block", "delete"})
    BY DEF Locked
  <2> QED
    BY <1>1, <1>2, <2>1 DEF RowsInv, LocksInv
<1>6. TablesInv'
  BY <1>1 DEF RowsInv, TablesInv
<1>7. TableMove
  BY <1>1, <1>2, NothingMoves DEF RowsInv
<1> QED
  BY <1>3, <1>4, <1>5, <1>6, <1>7 DEF RowsInv

LEMMA AbortMoves ==
    ASSUME RowsInv, NEW p \in pending, Abort(p) PROVE RowsInv' /\ TableMove
<1>1. /\ pending' = pending \ {p} /\ now \in Nat
      /\ UNCHANGED <<now, owner, verified, cred, revokeBefore, minted, req, raced>>
  BY DEF Abort, RowsInv, TypeOK
<1>2. TypeOK' /\ TablesInv'
  BY <1>1 DEF RowsInv, TypeOK, TablesInv
<1>3. TableMove
  BY <1>1, NothingMoves DEF RowsInv
<1> QED
  BY <1>1, <1>2, <1>3, FewerPending

\* Unblock and Enable.
LEMMA ReturnMoves ==
    ASSUME RowsInv, NEW o \in Owners, Unblock(o) \/ Enable(o) PROVE RowsInv' /\ TableMove
<1>1. /\ owner' = [owner EXCEPT ![o] = "active"] /\ owner[o] = "off" /\ now \in Nat
      /\ UNCHANGED <<now, verified, cred, revokeBefore, minted, pending, req, raced>>
  BY DEF Unblock, Enable, RowsInv, TypeOK
<1>2. /\ owner' \in [Owners -> {"active", "off", "gone"}] /\ owner'[o] = "active"
      /\ \A q \in Owners \ {o} : owner'[q] = owner[q]
  BY <1>1 DEF RowsInv, TypeOK
<1>3. \A q \in Owners : (owner'[q] = "gone" <=> owner[q] = "gone")
                        /\ (owner'[q] = "off" => owner[q] = "off")
  BY <1>1, <1>2
<1>4. TypeOK'
  BY <1>1, <1>2 DEF RowsInv, TypeOK
<1>5. PendingInv' /\ LocksInv'
  BY <1>1, <1>3 DEF RowsInv, PendingInv, LocksInv, Owners
<1>6. TablesInv'
  BY <1>1, <1>3 DEF RowsInv, TablesInv, Owners
<1>7. TableMove
  BY <1>1, <1>3, NothingMoves DEF RowsInv, Owners
<1> QED
  BY <1>4, <1>5, <1>6, <1>7 DEF RowsInv

LEMMA SetVerifiedMoves ==
    ASSUME RowsInv, NEW p \in Persons, SetVerified(p) PROVE RowsInv' /\ TableMove
<1>1. /\ verified' = [verified EXCEPT ![p] = ~@] /\ now \in Nat
      /\ UNCHANGED <<now, owner, cred, revokeBefore, minted, pending, req, raced>>
  BY DEF SetVerified, RowsInv, TypeOK
<1>2. verified' \in [Persons -> BOOLEAN]
  BY <1>1 DEF RowsInv, TypeOK
<1>3. TypeOK'
  BY <1>1, <1>2 DEF RowsInv, TypeOK
<1>4. PendingInv' /\ LocksInv' /\ TablesInv'
  BY <1>1 DEF RowsInv, PendingInv, LocksInv, TablesInv
<1>5. TableMove
  BY <1>1, NothingMoves DEF RowsInv
<1> QED
  BY <1>3, <1>4, <1>5 DEF RowsInv

LEMMA SweepMoves ==
    ASSUME RowsInv, NEW k \in Keys, SweepStaleCutoffs(k) PROVE RowsInv' /\ TableMove
<1>1. /\ minted' = [minted EXCEPT ![k] = NoMoment] /\ Stale(k) /\ now \in Nat
      /\ UNCHANGED <<now, owner, verified, cred, revokeBefore, pending, req, raced>>
  BY DEF SweepStaleCutoffs, RowsInv, TypeOK
<1>2. /\ minted' \in [Keys -> Nat] /\ minted'[k] = NoMoment /\ minted \in [Keys -> Nat]
      /\ \A j \in Keys \ {k} : minted'[j] = minted[j]
  BY <1>1 DEF RowsInv, TypeOK, NoMoment
<1>3. TypeOK'
  BY <1>1, <1>2 DEF RowsInv, TypeOK
<1>4. \A j \in Keys : minted'[j] = minted[j] \/ minted'[j] = NoMoment
  BY <1>2
<1>5. PendingInv' /\ LocksInv'
  BY <1>1 DEF RowsInv, PendingInv, LocksInv
<1>6. TablesInv'
  <2>1. \A p \in Persons : revokeBefore[p] \in Nat /\ p \in Keys
    BY Types DEF RowsInv
  <2>2. \A p \in Persons : owner[p] # "gone" => minted'[p] <= revokeBefore[p]
    BY <1>4, <2>1 DEF RowsInv, TablesInv, NoMoment
  <2>3. \A c \in Credentials : cred[c].state # "gone" => minted'[c] = NoMoment
    BY <1>4 DEF RowsInv, TablesInv, Keys
  <2> QED
    BY <1>1, <2>2, <2>3 DEF RowsInv, TablesInv
<1>7. TableMove
  <2>1. \A j \in Keys : minted[j] <= minted'[j] \/ Stale(j)
    BY <1>1, <1>2
  <2>2. \A c \in Credentials : CredentialMove(c)
    BY <1>1 DEF CredentialMove
  <2> QED
    BY <1>1, <2>1, <2>2 DEF TableMove, AccountMove, PersonMove
<1> QED
  BY <1>3, <1>5, <1>6, <1>7 DEF RowsInv
-----------------------------------------------------------------------------
(* The commits.                                                            *)

LEMMA CommitIssueMoves ==
    ASSUME RowsInv, NEW p \in pending, CommitIssue(p) PROVE RowsInv' /\ TableMove
<1>1. PICK e \in {NoMoment, FloorSecond(p.at + CredentialTTL)} :
         cred' = [cred EXCEPT ![p.key] =
                     [@ EXCEPT !.state = "live", !.issuedAt = p.at, !.expiresAt = e]]
  BY DEF CommitIssue
<1>2. /\ p.kind = "issue" /\ pending' = pending \ {p}
      /\ UNCHANGED <<now, owner, verified, revokeBefore, minted, req, raced>>
  BY DEF CommitIssue
<1>3. /\ p.key \in Credentials /\ p.at \in Nat /\ 1 <= p.at /\ now \in Nat
      /\ cred[p.key].state = "none"
  BY <1>2, Types DEF RowsInv, PendingInv
<1>4. e \in Nat
  <2>1. p.at + CredentialTTL \in Nat
    BY <1>3, RevocationAssumption
  <2> QED
    BY <2>1, FloorFacts DEF NoMoment
<1>5. /\ cred' \in [Credentials -> Row]
      /\ cred'[p.key].state = "live" /\ cred'[p.key].issuedAt = p.at
      /\ cred'[p.key].owner = cred[p.key].owner
      /\ \A c \in Credentials \ {p.key} : cred'[c] = cred[c]
  <2>1. cred \in [Credentials -> Row] /\ cred[p.key] \in Row
    BY <1>3, Types DEF RowsInv
  <2> DEFINE row == [cred[p.key] EXCEPT !.state = "live", !.issuedAt = p.at, !.expiresAt = e]
  <2>2. /\ row \in Row /\ row.state = "live" /\ row.issuedAt = p.at
        /\ row.owner = cred[p.key].owner
    BY <1>3, <1>4, <2>1 DEF Row
  <2>3. cred' = [cred EXCEPT ![p.key] = row]
    BY <1>1
  <2> HIDE DEF row
  <2> QED
    BY <1>3, <2>1, <2>2, <2>3
<1>6. TypeOK'
  BY <1>2, <1>5 DEF RowsInv, TypeOK, Row
<1>7. ASSUME NEW q \in pending' PROVE q.kind = "issue" => cred'[q.key].state = "none"
  <2>1. q \in pending /\ q # p
    BY <1>2, <1>7
  <2>2. q.kind = "issue" => q.key # p.key /\ q.key \in Credentials
    BY <1>2, <2>1 DEF RowsInv, LocksInv, PendingInv
  <2> QED
    BY <1>5, <2>1, <2>2 DEF RowsInv, PendingInv
<1>8. PendingInv' /\ LocksInv'
  BY <1>2, <1>7 DEF RowsInv, PendingInv, LocksInv
<1>9. TablesInv'
  <2>1. \A c \in Credentials : cred'[c].state # "none" => 1 <= cred'[c].issuedAt
    BY <1>3, <1>5 DEF RowsInv, TablesInv
  <2>2. \A c \in Credentials : cred'[c].state # "gone" => minted[c] = NoMoment
    BY <1>3, <1>5 DEF RowsInv, TablesInv
  <2> QED
    BY <1>2, <2>1, <2>2 DEF RowsInv, TablesInv
<1>10. TableMove
  <2>1. \A c \in Credentials : CredentialMove(c)
    BY <1>3, <1>5 DEF CredentialMove
  <2>2. \A k \in Keys : minted[k] <= minted'[k]
    BY <1>2, Types DEF RowsInv
  <2> QED
    BY <1>2, <1>3, <2>1, <2>2 DEF TableMove, AccountMove, PersonMove
<1> QED
  BY <1>6, <1>8, <1>9, <1>10 DEF RowsInv

\* Both records of a person rise together.
LEMMA BothRise ==
    ASSUME RowsInv, NEW p \in pending, p.key \in Persons, WriteBothCutoffs(p)
    PROVE  /\ revokeBefore' \in [Persons -> Nat] /\ minted' \in [Keys -> Nat]
           /\ \A u \in Persons \ {p.key} : revokeBefore'[u] = revokeBefore[u]
           /\ \A k \in Keys : minted[k] <= minted'[k]
           /\ \A k \in Keys \ {p.key} : minted'[k] = minted[k]
           /\ p.at <= minted'[p.key]
           /\ minted[p.key] <= revokeBefore[p.key] => minted'[p.key] <= revokeBefore'[p.key]
<1>1. p.at \in Nat /\ revokeBefore \in [Persons -> Nat] /\ minted \in [Keys -> Nat]
      /\ p.key \in Keys
  BY Types DEF RowsInv
<1>2. revokeBefore' = Raised(revokeBefore, {p.key}, p.at) /\ minted' = Raised(minted, {p.key}, p.at)
  BY DEF WriteBothCutoffs
<1>3. /\ revokeBefore' \in [Persons -> Nat]
      /\ \A u \in Persons \ {p.key} : revokeBefore'[u] = revokeBefore[u]
      /\ revokeBefore'[p.key] = MaxOf(revokeBefore[p.key], p.at)
  BY <1>1, <1>2, RaisedFacts
<1>4. /\ minted' \in [Keys -> Nat]
      /\ \A k \in Keys : minted[k] <= minted'[k]
      /\ \A k \in Keys \ {p.key} : minted'[k] = minted[k]
      /\ p.at <= minted'[p.key] /\ minted'[p.key] = MaxOf(minted[p.key], p.at)
  BY <1>1, <1>2, RaisedFacts
<1>5. minted[p.key] <= revokeBefore[p.key] => minted'[p.key] <= revokeBefore'[p.key]
  BY <1>1, <1>3, <1>4 DEF MaxOf
<1> QED
  BY <1>3, <1>4, <1>5

\* ForceLogout and its kin, and Block.
LEMMA CutoffMoves ==
    ASSUME RowsInv, NEW p \in pending, CommitCutoff(p) \/ CommitBlock(p)
    PROVE  RowsInv' /\ TableMove
<1>1. /\ p.kind \in {"cutoff", "block"} /\ WriteBothCutoffs(p) /\ Close(p) /\ UNCHANGED cred
      /\ owner[p.key] # "gone"
  BY DEF CommitCutoff, CommitBlock, RowsInv, PendingInv
<1>2. p.key \in Persons /\ p.key \in Owners /\ p.key \in Keys /\ p.key \notin ServiceAccounts
      /\ p.key \notin Credentials /\ now \in Nat
  BY <1>1, RevocationAssumption DEF RowsInv, PendingInv, Owners, Keys, TypeOK
<1>3. /\ owner' \in [Owners -> {"active", "off", "gone"}]
      /\ \A o \in Owners \ {p.key} : owner'[o] = owner[o]
      /\ \A o \in Owners : owner'[o] = "gone" => owner[o] = "gone"
      /\ \A o \in Owners : owner[o] = "gone" => owner'[o] = "gone"
  <2>1. owner \in [Owners -> {"active", "off", "gone"}]
    BY DEF RowsInv, TypeOK
  <2>2. owner' = owner \/ owner' = [owner EXCEPT ![p.key] = "off"]
    BY DEF CommitCutoff, CommitBlock
  <2> QED
    BY <1>1, <1>2, <2>1, <2>2
<1>4. /\ raced' \in [Requests -> BOOLEAN] /\ pending' = pending \ {p}
      /\ UNCHANGED <<now, verified, req>> /\ Overtakes(p, {"weighed", "waiting"})
      /\ \A r \in Requests : raced[r] => raced'[r]
      /\ \A r \in Requests : req[r].pc \notin InProgress => raced'[r] = raced[r]
  BY <1>1, CloseFacts DEF RowsInv
<1>5. TypeOK'
  BY <1>1, <1>2, <1>3, <1>4, BothRise DEF RowsInv, TypeOK
<1>6. PendingInv' /\ LocksInv'
  <2>1. \A q \in pending : q.kind \in {"block", "delete"} => q.key \in Owners
    BY DEF RowsInv, PendingInv, Owners
  <2> QED
    BY <1>1, <1>3, <1>4, <2>1 DEF RowsInv, PendingInv, LocksInv
<1>7. TablesInv'
  <2>1. \A u \in Persons : owner'[u] # "gone" => minted'[u] <= revokeBefore'[u]
    <3>1. ASSUME NEW u \in Persons, owner'[u] # "gone", u # p.key
          PROVE  minted'[u] <= revokeBefore'[u]
      <4>1. owner[u] # "gone" /\ u \in Keys
        BY <1>3, <3>1 DEF Owners, Keys
      <4> QED
        BY <1>1, <1>2, <3>1, <4>1, BothRise DEF RowsInv, TablesInv
    <3>2. minted'[p.key] <= revokeBefore'[p.key]
      BY <1>1, <1>2, BothRise DEF RowsInv, TablesInv
    <3> QED
      BY <3>1, <3>2
  <2>2. \A c \in Credentials : minted'[c] = minted[c]
    BY <1>1, <1>2, BothRise DEF Keys
  <2>3. \A s \in ServiceAccounts : owner'[s] # "gone"
    BY <1>2, <1>3 DEF RowsInv, TablesInv, Owners
  <2> QED
    BY <1>1, <1>4, <2>1, <2>2, <2>3 DEF RowsInv, TablesInv
<1>8. TableMove
  <2>1. \A c \in Credentials : CredentialMove(c)
    BY <1>1 DEF CredentialMove
  <2>2. \A s \in ServiceAccounts : AccountMove(s)
    BY <1>2, <1>3 DEF AccountMove, Owners
  <2>3. \A u \in Persons : PersonMove(u)
    BY <1>1, <1>2, <1>3, <1>4, BothRise DEF PersonMove, Owners
  <2>4. \A k \in Keys : minted[k] <= minted'[k]
    BY <1>1, <1>2, BothRise
  <2> QED
    BY <1>2, <1>4, <2>1, <2>2, <2>3, <2>4 DEF TableMove
<1> QED
  BY <1>5, <1>6, <1>7, <1>8 DEF RowsInv

\* The trigger on service_accounts.enabled.
LEMMA DisableMoves ==
    ASSUME RowsInv, NEW p \in pending, CommitDisable(p) PROVE RowsInv' /\ TableMove
<1>1. /\ p.kind = "disable" /\ owner' = [owner EXCEPT ![p.key] = "off"] /\ Close(p)
      /\ minted' = IF owner[p.key] = "active" THEN Raised(minted, {p.key}, p.at) ELSE minted
      /\ UNCHANGED <<cred, revokeBefore>>
  BY DEF CommitDisable
<1>2. /\ p.key \in ServiceAccounts /\ p.key \in Owners /\ p.key \in Keys
      /\ p.key \notin Persons /\ p.key \notin Credentials /\ p.at \in Nat /\ now \in Nat
      /\ minted \in [Keys -> Nat] /\ owner \in [Owners -> {"active", "off", "gone"}]
  BY <1>1, Types, RevocationAssumption DEF RowsInv, PendingInv, Owners, Keys
<1>3. /\ owner' \in [Owners -> {"active", "off", "gone"}] /\ owner'[p.key] = "off"
      /\ \A o \in Owners \ {p.key} : owner'[o] = owner[o]
  BY <1>1, <1>2
<1>4. /\ minted' \in [Keys -> Nat] /\ \A k \in Keys : minted[k] <= minted'[k]
      /\ \A k \in Keys \ {p.key} : minted'[k] = minted[k]
      /\ owner[p.key] = "active" => p.at <= minted'[p.key]
  BY <1>1, <1>2, RaisedFacts
<1>5. /\ raced' \in [Requests -> BOOLEAN] /\ pending' = pending \ {p}
      /\ UNCHANGED <<now, verified, req>> /\ Overtakes(p, InProgress)
      /\ \A r \in Requests : raced[r] => raced'[r]
      /\ \A r \in Requests : req[r].pc \notin InProgress => raced'[r] = raced[r]
  BY <1>1, CloseFacts DEF RowsInv
<1>6. TypeOK'
  BY <1>1, <1>3, <1>4, <1>5 DEF RowsInv, TypeOK
<1>7. PendingInv' /\ LocksInv'
  <2>1. \A q \in pending : q.kind \in {"block", "delete"} =>
           q.key \in Owners /\ q.key # p.key
    BY <1>2 DEF RowsInv, PendingInv, Owners
  <2> QED
    BY <1>1, <1>3, <1>5, <2>1 DEF RowsInv, PendingInv, LocksInv
<1>8. TablesInv'
  <2>1. \A u \in Persons : minted'[u] = minted[u] /\ owner'[u] = owner[u]
    BY <1>2, <1>3, <1>4 DEF Owners, Keys
  <2>2. \A c \in Credentials : minted'[c] = minted[c]
    BY <1>2, <1>4 DEF Keys
  <2>3. \A s \in ServiceAccounts : owner'[s] # "gone"
    BY <1>3 DEF RowsInv, TablesInv, Owners
  <2> QED
    BY <1>1, <1>5, <2>1, <2>2, <2>3 DEF RowsInv, TablesInv
<1>9. TableMove
  <2>1. \A c \in Credentials : CredentialMove(c)
    BY <1>1 DEF CredentialMove
  <2>2. \A s \in ServiceAccounts : AccountMove(s)
    BY <1>2, <1>3, <1>4, <1>5 DEF AccountMove, Owners
  <2>3. \A u \in Persons : PersonMove(u)
    BY <1>1, <1>2, <1>3 DEF PersonMove, Owners
  <2> QED
    BY <1>2, <1>4, <1>5, <2>1, <2>2, <2>3 DEF TableMove
<1> QED
  BY <1>6, <1>7, <1>8, <1>9 DEF RowsInv

\* The trigger on the removal of a credential row.
LEMMA RemoveMoves ==
    ASSUME RowsInv, NEW p \in pending, CommitRemove(p) PROVE RowsInv' /\ TableMove
<1>1. /\ p.kind = "remove" /\ cred[p.key].state = "live" /\ cred' = Gone({p.key}) /\ Close(p)
      /\ minted' = Raised(minted, {p.key}, p.at) /\ UNCHANGED <<owner, revokeBefore>>
  BY DEF CommitRemove
<1>2. /\ p.key \in Credentials /\ p.key \in Keys /\ p.key \notin Owners
      /\ p.at \in Nat /\ now \in Nat /\ minted \in [Keys -> Nat]
  BY <1>1, Types, RevocationAssumption DEF RowsInv, PendingInv, Owners, Keys
<1>3. /\ cred' \in [Credentials -> Row] /\ cred'[p.key].state = "gone"
      /\ \A c \in Credentials : /\ cred'[c].owner = cred[c].owner
                                /\ cred'[c].issuedAt = cred[c].issuedAt
                                /\ cred'[c].expiresAt = cred[c].expiresAt
                                /\ c # p.key => cred'[c].state = cred[c].state
  BY <1>1, <1>2, GoneFacts DEF RowsInv
<1>4. /\ minted' \in [Keys -> Nat] /\ \A k \in Keys : minted[k] <= minted'[k]
      /\ \A k \in Keys \ {p.key} : minted'[k] = minted[k]
      /\ p.at <= minted'[p.key]
  BY <1>1, <1>2, RaisedFacts
<1>5. /\ raced' \in [Requests -> BOOLEAN] /\ pending' = pending \ {p}
      /\ UNCHANGED <<now, verified, req>> /\ Overtakes(p, InProgress)
      /\ \A r \in Requests : raced[r] => raced'[r]
      /\ \A r \in Requests : req[r].pc \notin InProgress => raced'[r] = raced[r]
  BY <1>1, CloseFacts DEF RowsInv
<1>6. TypeOK'
  BY <1>1, <1>3, <1>4, <1>5 DEF RowsInv, TypeOK, Row
<1>7. PendingInv' /\ LocksInv'
  <2>1. \A q \in pending : q.kind = "issue" => cred'[q.key].state = "none"
    BY <1>1, <1>3 DEF RowsInv, PendingInv
  <2> QED
    BY <1>1, <1>5, <2>1 DEF RowsInv, PendingInv, LocksInv
<1>8. TablesInv'
  <2>1. \A c \in Credentials : cred'[c].state # "none" => 1 <= cred'[c].issuedAt
    BY <1>1, <1>3 DEF RowsInv, TablesInv
  <2>2. \A c \in Credentials : cred'[c].state # "gone" => minted'[c] = NoMoment
    BY <1>3, <1>4 DEF RowsInv, TablesInv, Keys
  <2>3. \A u \in Persons : minted'[u] = minted[u]
    BY <1>2, <1>4 DEF Owners, Keys
  <2> QED
    BY <1>1, <1>5, <2>1, <2>2, <2>3 DEF RowsInv, TablesInv
<1>9. TableMove
  <2>1. \A c \in Credentials : CredentialMove(c)
    BY <1>1, <1>3, <1>4, <1>5 DEF CredentialMove
  <2>2. /\ \A s \in ServiceAccounts : AccountMove(s)
        /\ \A u \in Persons : PersonMove(u)
    BY <1>1 DEF AccountMove, PersonMove
  <2> QED
    BY <1>2, <1>4, <1>5, <2>1, <2>2 DEF TableMove
<1> QED
  BY <1>6, <1>7, <1>8, <1>9 DEF RowsInv

\* Delete of a person, with its cascade.
LEMMA DeleteMoves ==
    ASSUME RowsInv, NEW p \in pending, CommitDelete(p) PROVE RowsInv' /\ TableMove
<1> DEFINE S == CredentialsOf(p.key)
<1>1. /\ p.kind = "delete" /\ owner' = [owner EXCEPT ![p.key] = "gone"] /\ cred' = Gone(S)
      /\ revokeBefore' = [revokeBefore EXCEPT ![p.key] = NoMoment]
      /\ minted' = Raised(minted, {p.key} \cup S, p.at) /\ Close(p)
  BY DEF CommitDelete
<1>2. /\ p.key \in Persons /\ p.key \in Owners /\ p.key \in Keys
      /\ p.key \notin ServiceAccounts /\ p.key \notin Credentials
      /\ p.at \in Nat /\ now \in Nat /\ minted \in [Keys -> Nat]
      /\ owner \in [Owners -> {"active", "off", "gone"}] /\ revokeBefore \in [Persons -> Nat]
  BY <1>1, Types, RevocationAssumption DEF RowsInv, PendingInv, Owners, Keys
<1>3. \A c \in S : c \in Credentials /\ OwnerOf(c) = p.key /\ cred[c].state = "live"
  BY DEF CredentialsOf
<1> HIDE DEF S
<1>4. /\ cred' \in [Credentials -> Row]
      /\ \A c \in Credentials : /\ cred'[c].owner = cred[c].owner
                                /\ cred'[c].issuedAt = cred[c].issuedAt
                                /\ cred'[c].expiresAt = cred[c].expiresAt
                                /\ c \in S => cred'[c].state = "gone"
                                /\ c \notin S => cred'[c].state = cred[c].state
  BY <1>1, <1>2, GoneFacts DEF RowsInv
<1>5. /\ minted' \in [Keys -> Nat] /\ \A k \in Keys : minted[k] <= minted'[k]
      /\ \A k \in Keys : k # p.key /\ k \notin S => minted'[k] = minted[k]
      /\ \A k \in Keys : k \in S => p.at <= minted'[k]
  BY <1>1, <1>2, RaisedFacts
<1>6. /\ owner' \in [Owners -> {"active", "off", "gone"}] /\ owner'[p.key] = "gone"
      /\ \A o \in Owners \ {p.key} : owner'[o] = owner[o]
      /\ revokeBefore' \in [Persons -> Nat] /\ revokeBefore'[p.key] = NoMoment
      /\ \A u \in Persons \ {p.key} : revokeBefore'[u] = revokeBefore[u]
  BY <1>1, <1>2 DEF NoMoment
<1>7. /\ raced' \in [Requests -> BOOLEAN] /\ pending' = pending \ {p}
      /\ UNCHANGED <<now, verified, req>>
      /\ Overtakes(p, InProgress) /\ Overtakes(p, {"weighed", "waiting"})
      /\ \A r \in Requests : raced[r] => raced'[r]
      /\ \A r \in Requests : req[r].pc \notin InProgress => raced'[r] = raced[r]
  BY <1>1, CloseFacts DEF RowsInv
<1>8. TypeOK'
  BY <1>4, <1>5, <1>6, <1>7 DEF RowsInv, TypeOK, Row
<1>9. PendingInv' /\ LocksInv'
  <2>1. \A q \in pending : q.kind = "issue" => cred'[q.key].state = "none"
    BY <1>3, <1>4 DEF RowsInv, PendingInv
  <2>2. ASSUME NEW q \in pending', q.kind \in {"block", "delete"} PROVE owner'[q.key] # "gone"
    <3>1. q \in pending /\ q # p /\ q.key \in Owners /\ q.key # p.key
      BY <1>1, <1>7, <2>2 DEF RowsInv, PendingInv, LocksInv, Owners
    <3> QED
      BY <1>6, <2>2, <3>1 DEF RowsInv, PendingInv
  <2> QED
    BY <1>7, <2>1, <2>2 DEF RowsInv, PendingInv, LocksInv
<1>10. TablesInv'
  <2>1. \A c \in Credentials : cred'[c].state # "none" => 1 <= cred'[c].issuedAt
    BY <1>3, <1>4 DEF RowsInv, TablesInv
  <2>2. \A c \in Credentials : cred'[c].state # "gone" => minted'[c] = NoMoment
    BY <1>2, <1>4, <1>5 DEF RowsInv, TablesInv, Keys
  <2>3. ASSUME NEW u \in Persons, owner'[u] # "gone" PROVE minted'[u] <= revokeBefore'[u]
    <3>1. u # p.key /\ u \in Owners /\ u \in Keys /\ u \notin S
      BY <1>3, <1>6, <2>3, RevocationAssumption DEF Owners, Keys
    <3> QED
      BY <1>5, <1>6, <2>3, <3>1 DEF RowsInv, TablesInv
  <2>4. \A s \in ServiceAccounts : owner'[s] # "gone"
    BY <1>2, <1>6 DEF RowsInv, TablesInv, Owners
  <2> QED
    BY <1>7, <2>1, <2>2, <2>3, <2>4 DEF RowsInv, TablesInv
<1>11. TableMove
  <2>1. \A c \in Credentials : CredentialMove(c)
    BY <1>3, <1>4, <1>5, <1>7 DEF CredentialMove, Keys
  <2>2. \A s \in ServiceAccounts : AccountMove(s)
    BY <1>2, <1>6 DEF AccountMove, Owners
  <2>3. \A u \in Persons : PersonMove(u)
    BY <1>2, <1>6, <1>7 DEF PersonMove, Owners
  <2> QED
    BY <1>2, <1>5, <1>7, <2>1, <2>2, <2>3 DEF TableMove
<1> QED
  BY <1>8, <1>9, <1>10, <1>11 DEF RowsInv
-----------------------------------------------------------------------------
(* What the tables' moves leave of a request's invariant.                  *)

LEMMA RequestTypes ==
    ASSUME TypeOK, NEW r \in Requests
    PROVE  /\ req[r].cred \in Credentials /\ req[r].iat \in Nat /\ req[r].exp \in Nat
           /\ req[r].cutoff \in Nat /\ req[r].ttl \in 1..TokenTTL
           /\ req[r].pc \in {"idle", "resolved", "weighed", "waiting", "issued"}
           /\ OwnerOf(req[r].cred) \in Owners /\ req[r].cred \in Keys
           /\ OwnerOf(req[r].cred) \in Keys
BY DEF TypeOK, OwnerOf, Keys, Owners

\* A cut-off that refuses a token is not swept as long as a verifier would take it.
LEMMA CutOffHolds ==
    ASSUME TypeOK, NEW r \in Requests, LifeIsBounded(r), Issued(r), WithinLifetime(r), CutOff(r),
           TypeOK', req' = req, \A c \in Credentials : cred'[c].owner = cred[c].owner,
           \A k \in Keys : minted[k] <= minted'[k] \/ Stale(k)
    PROVE  CutOff(r)'
<1>1. PICK k \in ForwardKeys(r) : minted[k] # NoMoment /\ req[r].iat <= minted[k]
  BY DEF CutOff
<1>2. k \in Keys /\ minted[k] \in Nat /\ minted'[k] \in Nat
  BY <1>1, RequestTypes, Types DEF ForwardKeys, TypeOK
<1>3. /\ now \in Nat /\ ClockSkew \in Nat /\ RemovalSlack \in Nat /\ TokenTTL \in Nat
      /\ req[r].iat \in Nat /\ req[r].exp \in Nat
  BY RequestTypes, RevocationAssumption DEF TypeOK
<1>4. ~Stale(k)
  <2>1. now - RemovalSlack < req[r].exp + ClockSkew /\ req[r].exp <= req[r].iat + TokenTTL
    BY DEF WithinLifetime, LifeIsBounded
  <2> QED
    BY <1>1, <1>2, <1>3, <2>1 DEF Stale
<1>5. minted'[k] # NoMoment /\ req[r].iat <= minted'[k]
  BY <1>1, <1>2, <1>3, <1>4 DEF NoMoment
<1>6. ForwardKeys(r)' = ForwardKeys(r)
  BY RequestTypes DEF ForwardKeys, OwnerOf
<1> QED
  BY <1>1, <1>5, <1>6 DEF CutOff

\* A transaction that has read its moment after the token was signed refuses it.
LEMMA CommitRefuses ==
    ASSUME RowsInv, TypeOK', NEW r \in Requests, CutsLater(r), Issued(r), ~raced[r], req' = req,
           NEW p \in pending, p.key \in ForwardKeys(r),
           NEW k \in ForwardKeys(r), p.at <= minted'[k],
           \A c \in Credentials : cred'[c].owner = cred[c].owner
    PROVE  CutOff(r)'
<1>1. req[r].iat <= p.at /\ 1 <= p.at /\ p.at \in Nat /\ req[r].iat \in Nat
  BY Types, RequestTypes DEF CutsLater, RowsInv, PendingInv
<1>2. k \in Keys /\ minted'[k] \in Nat
  BY RequestTypes DEF ForwardKeys, RowsInv, TypeOK
<1>3. minted'[k] # NoMoment /\ req[r].iat <= minted'[k]
  BY <1>1, <1>2 DEF NoMoment
<1>4. ForwardKeys(r)' = ForwardKeys(r)
  BY RequestTypes DEF ForwardKeys, OwnerOf, RowsInv
<1> QED
  BY <1>3, <1>4 DEF CutOff

LEMMA MoveKeepsRequest ==
    ASSUME RowsInv, RowsInv', TableMove, NEW r \in Requests, RequestInv(r)
    PROVE  RequestInv(r)'
<1> DEFINE c == req[r].cred
           o == OwnerOf(c)
<1>1. /\ req' = req /\ c \in Credentials /\ o \in Owners /\ c \in Keys /\ o \in Keys
      /\ OwnerOf(c)' = o /\ now \in Nat /\ now' \in Nat /\ now <= now'
      /\ raced[r] \in BOOLEAN /\ raced'[r] \in BOOLEAN /\ TypeOK /\ TypeOK'
      /\ c \in ForwardKeys(r) /\ o \in ForwardKeys(r) /\ ForwardKeys(r) = {c, o}
  BY RequestTypes, Types DEF TableMove, CredentialMove, RowsInv, TypeOK, OwnerOf, ForwardKeys
<1>2. \A d \in Credentials : cred'[d].owner = cred[d].owner
  BY DEF TableMove, CredentialMove
<1>3. CredentialMove(c) /\ (o \in ServiceAccounts => AccountMove(o)) /\ (o \in Persons => PersonMove(o))
      /\ (raced[r] => raced'[r]) /\ (req[r].pc \notin InProgress => raced'[r] = raced[r])
  BY <1>1 DEF TableMove
<1>4. /\ cred'[c].owner = o
      /\ req[r].pc # "idle" => /\ cred[c].state # "none" /\ cred'[c].state # "none"
                               /\ cred'[c].issuedAt = cred[c].issuedAt
                               /\ cred'[c].expiresAt = cred[c].expiresAt
      /\ cred[c].state \in {"none", "live", "gone"} /\ cred'[c].state \in {"none", "live", "gone"}
  BY <1>1, <1>3 DEF RequestInv, RestsOn, CredentialMove, RowsInv, TypeOK, OwnerOf
<1> HIDE DEF c, o
<1>5. RestsOn(r)'
  BY <1>1, <1>4 DEF RestsOn, c
<1>6. LifeIsBounded(r)'
  <2>1. ASSUME Issued(r)
        PROVE  /\ req[r].iat <= now' /\ req[r].exp <= req[r].iat + TokenTTL
               /\ cred'[c].expiresAt # NoMoment => req[r].exp <= cred'[c].expiresAt
    <3>1. /\ req[r].iat <= now /\ req[r].exp <= req[r].iat + TokenTTL /\ req[r].iat \in Nat
          /\ cred[c].expiresAt # NoMoment => req[r].exp <= cred[c].expiresAt
      BY <1>1, <2>1, RequestTypes DEF RequestInv, LifeIsBounded, c
    <3>2. cred'[c].expiresAt = cred[c].expiresAt
      BY <1>4, <2>1 DEF Issued
    <3> QED
      BY <1>1, <3>1, <3>2
  <2> QED
    BY <1>1, <2>1 DEF LifeIsBounded, Issued, c
<1>7. StillStands(r)'
  <2>1. ASSUME req[r].pc \in InProgress, ~raced'[r]
        PROVE  /\ cred'[c].state = "live"
               /\ o \in ServiceAccounts => owner'[o] = "active"
               /\ o \in Persons => owner'[o] # "gone"
    <3>1. /\ cred[c].state = "live" /\ (o \in ServiceAccounts => owner[o] = "active")
          /\ o \in Persons => owner[o] # "gone"
      BY <1>3, <2>1 DEF RequestInv, StillStands, c, o
    <3>2. \A p \in pending : p.key \in {c, o} => ~Overtakes(p, InProgress)
      BY <1>1, <2>1 DEF Overtakes
    <3>3. cred'[c].state = "live"
      BY <1>3, <1>4, <2>1, <3>1, <3>2 DEF CredentialMove, InProgress, c, o
    <3>4. o \in ServiceAccounts => owner'[o] = "active"
      <4>1. o \in ServiceAccounts => owner'[o] \in {"active", "off"}
        BY <1>1 DEF RowsInv, TypeOK, TablesInv
      <4> QED
        BY <1>3, <3>1, <3>2, <4>1 DEF AccountMove
    <3>5. o \in Persons => owner'[o] # "gone"
      BY <1>3, <3>1, <3>2 DEF PersonMove
    <3> QED
      BY <3>3, <3>4, <3>5
  <2> QED
    BY <1>1, <2>1 DEF StillStands, c
<1>8. WeighedRight(r)'
  <2>1. ASSUME req[r].pc \in {"weighed", "waiting"}, ~raced'[r], o \in Persons
        PROVE  req[r].cutoff = revokeBefore'[o] /\ revokeBefore'[o] < cred'[c].issuedAt
    <3>1. req[r].cutoff = revokeBefore[o] /\ revokeBefore[o] < cred[c].issuedAt
      BY <1>3, <2>1 DEF RequestInv, WeighedRight, c, o
    <3>2. \A p \in pending : p.key = o => ~Overtakes(p, {"weighed", "waiting"})
      BY <1>1, <2>1 DEF Overtakes
    <3>3. revokeBefore'[o] = revokeBefore[o]
      BY <1>3, <2>1, <3>2 DEF PersonMove
    <3>4. cred'[c].issuedAt = cred[c].issuedAt
      BY <1>4, <2>1
    <3> QED
      BY <3>1, <3>3, <3>4
  <2> QED
    BY <1>1, <2>1 DEF WeighedRight, c
<1>9. CutsLater(r)'
  <2>1. ASSUME Issued(r), ~raced'[r], NEW p \in pending', p.key \in ForwardKeys(r)
        PROVE  req[r].iat <= p.at
    <3>1. ~raced[r] /\ req[r].iat <= now
      BY <1>3, <2>1 DEF RequestInv, LifeIsBounded
    <3>2. p \in pending \/ p.at = now
      BY <2>1 DEF TableMove
    <3> QED
      BY <2>1, <3>1, <3>2 DEF RequestInv, CutsLater
  <2>2. ForwardKeys(r)' = ForwardKeys(r)
    BY <1>1 DEF ForwardKeys, c, o
  <2> QED
    BY <1>1, <2>1, <2>2 DEF CutsLater, Issued
<1>10. IsRefused(r)'
  <2>1. ASSUME Issued(r), ~raced'[r], WithinLifetime(r)', Ended(r)' PROVE CutOff(r)'
    <3>1. /\ ~raced[r] /\ req[r].pc = "issued" /\ req[r].pc # "idle" /\ WithinLifetime(r)
          /\ LifeIsBounded(r) /\ CutsLater(r)
      <4>1. req[r].exp \in Nat /\ ClockSkew \in Nat /\ RemovalSlack \in Nat
        BY <1>1, RequestTypes, RevocationAssumption
      <4>2. now' - RemovalSlack < req[r].exp + ClockSkew
        BY <1>1, <2>1 DEF WithinLifetime
      <4>3. WithinLifetime(r)
        BY <1>1, <4>1, <4>2 DEF WithinLifetime
      <4>4. req[r].pc = "issued" /\ req[r].pc \notin InProgress
        BY <2>1 DEF Issued, InProgress
      <4> QED
        BY <1>3, <2>1, <4>3, <4>4 DEF RequestInv
    <3>2. CASE Ended(r)
      <4>1. CutOff(r)
        BY <2>1, <3>1, <3>2 DEF RequestInv, IsRefused
      <4>2. \A k \in Keys : minted[k] <= minted'[k] \/ Stale(k)
        BY DEF TableMove
      <4> QED
        BY <1>1, <1>2, <2>1, <3>1, <4>1, <4>2, CutOffHolds
    <3>3. ASSUME NEW p \in pending, p.key \in ForwardKeys(r),
                 NEW k \in ForwardKeys(r), p.at <= minted'[k]
          PROVE  CutOff(r)'
      BY <1>1, <1>2, <2>1, <3>1, <3>3, CommitRefuses
    <3>4. CASE ~Ended(r) /\ cred'[c].state = "gone"
      <4>1. cred[c].state = "live"
        BY <1>4, <3>1, <3>4 DEF Ended, c
      <4>2. PICK p \in pending : p.key \in {c, o} /\ p.at <= minted'[c]
        BY <1>3, <3>4, <4>1 DEF CredentialMove, o
      <4> QED
        BY <1>1, <3>3, <4>2
    <3>5. CASE ~Ended(r) /\ o \in ServiceAccounts /\ owner'[o] = "off"
      <4>1. owner[o] = "active"
        BY <1>1, <3>5 DEF Ended, c, o, RowsInv, TypeOK, TablesInv
      <4>2. PICK p \in pending : p.key = o /\ p.at <= minted'[o]
        BY <1>3, <3>5, <4>1 DEF AccountMove
      <4> QED
        BY <1>1, <3>3, <4>2
    <3>6. CASE ~Ended(r) /\ o \in Persons /\ cred'[c].issuedAt <= revokeBefore'[o]
      <4>1. cred'[c].issuedAt = cred[c].issuedAt /\ 1 <= cred[c].issuedAt
        BY <1>1, <1>4, <3>1 DEF RowsInv, TablesInv
      <4>2. revokeBefore'[o] # revokeBefore[o]
        BY <3>6, <4>1 DEF Ended, c, o
      <4>3. revokeBefore'[o] # NoMoment
        <5>1. cred[c].issuedAt \in Nat
          BY <1>1 DEF RowsInv, TypeOK
        <5> QED
          BY <3>6, <4>1, <5>1 DEF NoMoment
      <4>4. PICK p \in pending : p.key = o /\ p.at <= minted'[o]
        BY <1>3, <3>6, <4>2, <4>3 DEF PersonMove
      <4> QED
        BY <1>1, <3>3, <4>4
    <3> QED
      BY <1>1, <2>1, <3>2, <3>4, <3>5, <3>6 DEF Ended, c
  <2> QED
    BY <1>1, <2>1 DEF IsRefused, Issued
<1> QED
  BY <1>5, <1>6, <1>7, <1>8, <1>9, <1>10 DEF RequestInv
-----------------------------------------------------------------------------
(* The steps of a request.                                                 *)

Token == [pc : {"idle", "resolved", "weighed", "waiting", "issued"}, cred : Credentials,
          ttl : 1..TokenTTL, cutoff : Nat, iat : Nat, exp : Nat]

LEMMA IdleFacts == Idle \in Token /\ Idle.pc = "idle"
<1>1. (CHOOSE c \in Credentials : TRUE) \in Credentials
  BY RevocationAssumption
<1> QED
  BY <1>1, RevocationAssumption DEF Idle, Token, NoMoment

\* A step of request r disturbs nobody else and no table.
LEMMA OthersKeep ==
    ASSUME RowsInv, UNCHANGED tables, NEW r \in Requests, NEW to \in Token, Move(r, to),
           raced' \in [Requests -> BOOLEAN],
           \A s \in Requests \ {r} : raced'[s] = raced[s],
           \A s \in Requests \ {r} : RequestInv(s)
    PROVE  /\ RowsInv' /\ req'[r] = to
           /\ \A s \in Requests \ {r} : req'[s] = req[s] /\ RequestInv(s)'
<1>1. UNCHANGED <<now, owner, verified, cred, revokeBefore, minted, pending>>
  BY DEF tables
<1>2. /\ req' \in [Requests -> Token] /\ req'[r] = to
      /\ \A s \in Requests \ {r} : req'[s] = req[s]
  BY DEF Move, RowsInv, TypeOK, Token
<1>3. TypeOK'
  BY <1>1, <1>2 DEF RowsInv, TypeOK, Token
<1>4. RowsInv'
  BY <1>1, <1>3 DEF RowsInv, PendingInv, LocksInv, TablesInv
<1>5. ASSUME NEW s \in Requests \ {r} PROVE RequestInv(s)'
  <2>1. req'[s] = req[s] /\ raced'[s] = raced[s] /\ RequestInv(s)
    BY <1>2, <1>5
  <2>2. RestsOn(s)' /\ LifeIsBounded(s)'
    BY <1>1, <2>1 DEF RequestInv, RestsOn, LifeIsBounded, Issued
  <2>3. StillStands(s)' /\ WeighedRight(s)'
    BY <1>1, <2>1 DEF RequestInv, StillStands, WeighedRight, OwnerOf
  <2>4. CutsLater(s)'
    BY <1>1, <2>1 DEF RequestInv, CutsLater, Issued, ForwardKeys, OwnerOf
  <2>5. IsRefused(s)'
    BY <1>1, <2>1
    DEF RequestInv, IsRefused, Issued, WithinLifetime, Ended, CutOff, ForwardKeys, OwnerOf
  <2> QED
    BY <2>2, <2>3, <2>4, <2>5 DEF RequestInv
<1> QED
  BY <1>2, <1>4, <1>5

\* A request that holds no token yet owes only what it has read.
LEMMA NotYetIssued ==
    ASSUME NEW r \in Requests, req'[r].pc # "issued", RestsOn(r)', StillStands(r)', WeighedRight(r)'
    PROVE  RequestInv(r)'
BY DEF RequestInv, LifeIsBounded, CutsLater, IsRefused, Issued

LEMMA ResolveKeeps ==
    ASSUME IInv, NEW r \in Requests, NEW c \in Credentials, Resolve(r, c) PROVE IInv'
<1>1. PICK drift \in (-RemovalSlack)..RemovalSlack :
         /\ Remaining(c, drift) > 0
         /\ Move(r, [Idle EXCEPT !.pc = "resolved", !.cred = c, !.ttl = Remaining(c, drift)])
  BY DEF Resolve, HasNotExpired
<1>2. /\ cred[c].state = "live" /\ owner[OwnerOf(c)] = "active" /\ UNCHANGED tables
      /\ raced' = [raced EXCEPT ![r] = FALSE]
  BY DEF Resolve
<1>3. Remaining(c, drift) \in 1..TokenTTL
  <2>1. /\ TokenTTL \in Nat \ {0} /\ drift \in Int /\ cred[c].expiresAt \in Nat /\ now \in Nat
    BY RevocationAssumption DEF IInv, RowsInv, TypeOK
  <2> QED
    BY <1>1, <2>1 DEF Remaining, MinOf
<1> DEFINE to == [Idle EXCEPT !.pc = "resolved", !.cred = c, !.ttl = Remaining(c, drift)]
<1>4. to \in Token /\ to.pc = "resolved" /\ to.cred = c
  BY <1>3, IdleFacts DEF Token
<1>5. /\ raced' \in [Requests -> BOOLEAN] /\ \A s \in Requests \ {r} : raced'[s] = raced[s]
  BY <1>2 DEF IInv, RowsInv, TypeOK
<1> HIDE DEF to
<1>6. /\ RowsInv' /\ req'[r] = to
      /\ \A s \in Requests \ {r} : RequestInv(s)'
  BY <1>1, <1>2, <1>4, <1>5, OthersKeep DEF IInv, to
<1>7. UNCHANGED <<cred, owner>>
  BY <1>2 DEF tables
<1>8. RestsOn(r)' /\ StillStands(r)' /\ WeighedRight(r)'
  BY <1>2, <1>4, <1>6, <1>7 DEF RestsOn, StillStands, WeighedRight, OwnerOf
<1> QED
  BY <1>4, <1>6, <1>8, NotYetIssued DEF IInv

LEMMA WeighKeeps ==
    ASSUME IInv, NEW r \in Requests, Weigh(r) PROVE IInv'
<1> DEFINE c == req[r].cred
           o == OwnerOf(c)
           to == [req[r] EXCEPT !.pc = "weighed",
                                !.cutoff = IF o \in Persons THEN revokeBefore[o] ELSE NoMoment]
<1>0. TypeOK /\ c \in Credentials /\ o \in Owners /\ req[r] \in Token
  BY RequestTypes DEF IInv, RowsInv, TypeOK, Token
<1>1. /\ req[r].pc = "resolved" /\ UNCHANGED <<tables, raced>> /\ Move(r, to)
      /\ o \in Persons => /\ ~(revokeBefore[o] # NoMoment /\ Forbids(revokeBefore[o], cred[c].issuedAt))
  BY DEF Weigh, AtIssuance
<1>2. /\ to \in Token /\ to.pc = "weighed" /\ to.cred = c
      /\ o \in Persons => to.cutoff = revokeBefore[o]
  <2>1. o \in Persons => revokeBefore[o] \in Nat
    BY <1>0 DEF TypeOK
  <2> QED
    BY <1>0, <2>1 DEF Token, NoMoment
<1>3. RequestInv(r) /\ cred[c].state # "none" /\ 1 <= cred[c].issuedAt /\ cred[c].issuedAt \in Nat
  BY <1>0, <1>1 DEF IInv, RequestInv, RestsOn, RowsInv, TablesInv, TypeOK
<1>4. o \in Persons => revokeBefore[o] < cred[c].issuedAt
  <2>1. o \in Persons => revokeBefore[o] \in Nat
    BY <1>0 DEF TypeOK
  <2> QED
    BY <1>1, <1>3, <2>1 DEF Forbids, NoMoment
<1> HIDE DEF c, o, to
<1>5. /\ RowsInv' /\ req'[r] = to
      /\ \A s \in Requests \ {r} : RequestInv(s)'
  <2>1. raced' \in [Requests -> BOOLEAN] /\ \A s \in Requests \ {r} : raced'[s] = raced[s]
    BY <1>1 DEF IInv, RowsInv, TypeOK
  <2>2. UNCHANGED tables
    BY <1>1
  <2> QED
    BY <1>1, <1>2, <2>1, <2>2, OthersKeep DEF IInv
<1>6. UNCHANGED <<cred, owner, revokeBefore, raced>>
  BY <1>1 DEF tables
<1>7. OwnerOf(req[r].cred)' = o
  BY <1>2, <1>5, <1>6 DEF OwnerOf, o
<1>8. RestsOn(r)'
  BY <1>2, <1>3, <1>5, <1>6 DEF RestsOn
<1>9. StillStands(r)'
  BY <1>1, <1>2, <1>3, <1>5, <1>6, <1>7 DEF RequestInv, StillStands, InProgress, c, o
<1>10. WeighedRight(r)'
  BY <1>2, <1>4, <1>5, <1>6, <1>7 DEF WeighedRight
<1> QED
  BY <1>2, <1>5, <1>8, <1>9, <1>10, NotYetIssued DEF IInv

LEMMA AwaitKeeps ==
    ASSUME IInv, NEW r \in Requests, AwaitSecond(r) PROVE IInv'
<1> DEFINE to == [req[r] EXCEPT !.pc = "waiting"]
<1>0. req[r] \in Token /\ RequestInv(r)
  BY DEF IInv, RowsInv, TypeOK, Token
<1>1. req[r].pc = "weighed" /\ UNCHANGED <<tables, raced>> /\ Move(r, to)
  BY DEF AwaitSecond
<1>2. /\ to \in Token /\ to.pc = "waiting" /\ to.cred = req[r].cred /\ to.cutoff = req[r].cutoff
  BY <1>0 DEF Token
<1> HIDE DEF to
<1>3. /\ RowsInv' /\ req'[r] = to
      /\ \A s \in Requests \ {r} : RequestInv(s)'
  <2>1. raced' \in [Requests -> BOOLEAN] /\ \A s \in Requests \ {r} : raced'[s] = raced[s]
    BY <1>1 DEF IInv, RowsInv, TypeOK
  <2>2. UNCHANGED tables
    BY <1>1
  <2> QED
    BY <1>1, <1>2, <2>1, <2>2, OthersKeep DEF IInv
<1>4. UNCHANGED <<cred, owner, revokeBefore, raced>>
  BY <1>1 DEF tables
<1>5. RestsOn(r)' /\ StillStands(r)' /\ WeighedRight(r)'
  BY <1>0, <1>1, <1>2, <1>3, <1>4
  DEF RequestInv, RestsOn, StillStands, WeighedRight, InProgress, OwnerOf
<1> QED
  BY <1>2, <1>3, <1>5, NotYetIssued DEF IInv

LEMMA RefuseKeeps ==
    ASSUME IInv, NEW r \in Requests, Refuse(r) PROVE IInv'
<1>1. Move(r, Idle) /\ raced' = [raced EXCEPT ![r] = FALSE] /\ UNCHANGED tables
  BY DEF Refuse
<1>2. raced' \in [Requests -> BOOLEAN] /\ \A s \in Requests \ {r} : raced'[s] = raced[s]
  BY <1>1 DEF IInv, RowsInv, TypeOK
<1>3. /\ RowsInv' /\ req'[r] = Idle
      /\ \A s \in Requests \ {r} : RequestInv(s)'
  BY <1>1, <1>2, IdleFacts, OthersKeep DEF IInv
<1>4. RestsOn(r)' /\ StillStands(r)' /\ WeighedRight(r)'
  BY <1>3, IdleFacts DEF RestsOn, StillStands, WeighedRight, InProgress
<1> QED
  BY <1>3, <1>4, IdleFacts, NotYetIssued DEF IInv

\* What Sign puts into a token.
LEMMA SignFacts ==
    ASSUME IInv, NEW r \in Requests, Sign(r), req[r].pc # "idle"
    PROVE  /\ RowsInv' /\ \A s \in Requests \ {r} : RequestInv(s)'
           /\ UNCHANGED <<now, owner, cred, revokeBefore, minted, pending>>
           /\ req'[r].pc = "issued" /\ req'[r].cred = req[r].cred
           /\ req'[r].iat = FloorSecond(now) /\ req'[r].iat <= now
           /\ req'[r].exp <= req'[r].iat + TokenTTL
           /\ cred[req[r].cred].expiresAt # NoMoment =>
                 req'[r].exp <= cred[req[r].cred].expiresAt
           /\ ~raced'[r] => ~raced[r] /\ \A p \in pending : p.key \notin ForwardKeys(r)
<1> DEFINE iat == FloorSecond(now)
           exp == Expiry(r, iat)
           to == [req[r] EXCEPT !.pc = "issued", !.iat = iat, !.exp = exp]
<1>0. req[r] \in Token /\ TypeOK /\ now \in Nat /\ req[r].cred \in Credentials
  BY DEF IInv, RowsInv, TypeOK, Token
<1>1. /\ exp > iat /\ Move(r, to) /\ UNCHANGED tables
      /\ raced' = [raced EXCEPT ![r] = @ \/ \E p \in pending : p.key \in ForwardKeys(r)]
  BY DEF Sign
<1>2. iat \in Nat /\ iat <= now
  BY <1>0, FloorFacts
<1>3. /\ exp \in Nat /\ exp <= iat + TokenTTL
      /\ cred[req[r].cred].expiresAt # NoMoment => exp <= cred[req[r].cred].expiresAt
  <2> DEFINE bound == cred[req[r].cred].expiresAt
             raw == iat + req[r].ttl
             least == IF bound # NoMoment THEN MinOf(raw, bound) ELSE raw
  <2>1. bound \in Nat /\ raw \in Nat /\ raw <= iat + TokenTTL /\ TokenTTL \in Nat
    BY <1>0, <1>2, RequestTypes, RevocationAssumption DEF TypeOK
  <2>2. least \in Nat /\ least <= raw /\ (bound # NoMoment => least <= bound)
    BY <2>1 DEF MinOf
  <2>3. exp = FloorSecond(least)
    BY DEF Expiry
  <2> HIDE DEF bound, raw, least, exp, iat
  <2>4. exp \in Nat /\ exp <= least
    BY <2>2, <2>3, FloorFacts
  <2>5. exp <= iat + TokenTTL /\ (bound # NoMoment => exp <= bound)
    BY <1>2, <2>1, <2>2, <2>4
  <2> QED
    BY <2>4, <2>5 DEF bound
<1> HIDE DEF iat, exp
<1>4. to \in Token /\ to.pc = "issued" /\ to.cred = req[r].cred /\ to.iat = iat /\ to.exp = exp
  BY <1>0, <1>2, <1>3 DEF Token
<1> HIDE DEF to
<1>5. /\ raced' \in [Requests -> BOOLEAN] /\ \A s \in Requests \ {r} : raced'[s] = raced[s]
      /\ raced'[r] = (raced[r] \/ \E p \in pending : p.key \in ForwardKeys(r))
  BY <1>0, <1>1 DEF TypeOK
<1>6. /\ RowsInv' /\ req'[r] = to
      /\ \A s \in Requests \ {r} : RequestInv(s)'
  BY <1>1, <1>4, <1>5, OthersKeep DEF IInv
<1>7. UNCHANGED <<now, owner, cred, revokeBefore, minted, pending>>
  BY <1>1 DEF tables
<1> QED
  BY <1>2, <1>3, <1>4, <1>5, <1>6, <1>7 DEF iat

LEMMA SignKeeps ==
    ASSUME IInv, NEW r \in Requests, SignAtOnce(r) \/ SignAfterWait(r) PROVE IInv'
<1> DEFINE c == req[r].cred
           o == OwnerOf(c)
<1>0. Sign(r) /\ req[r].pc \in {"weighed", "waiting"} /\ RequestInv(r) /\ TypeOK
  BY DEF SignAtOnce, SignAfterWait, IInv, RowsInv
<1>1. /\ RowsInv' /\ \A s \in Requests \ {r} : RequestInv(s)'
      /\ UNCHANGED <<now, owner, cred, revokeBefore, minted, pending>>
      /\ req'[r].pc = "issued" /\ req'[r].cred = c /\ req'[r].iat <= now
      /\ req'[r].exp <= req'[r].iat + TokenTTL
      /\ cred[c].expiresAt # NoMoment => req'[r].exp <= cred[c].expiresAt
      /\ ~raced'[r] => ~raced[r] /\ \A p \in pending : p.key \notin ForwardKeys(r)
  BY <1>0, SignFacts
<1>2. OwnerOf(c)' = o /\ ForwardKeys(r)' = ForwardKeys(r) /\ o \in Owners /\ c \in Credentials
  BY <1>0, <1>1, RequestTypes DEF OwnerOf, ForwardKeys
<1>3. RestsOn(r)' /\ LifeIsBounded(r)'
  BY <1>0, <1>1 DEF RequestInv, RestsOn, LifeIsBounded, Issued
<1>4. StillStands(r)' /\ WeighedRight(r)'
  BY <1>1 DEF StillStands, WeighedRight, InProgress
<1>5. CutsLater(r)'
  BY <1>1, <1>2 DEF CutsLater
<1>6. ASSUME ~raced'[r] PROVE ~Ended(r)'
  <2>1. /\ cred[c].state = "live" /\ (o \in ServiceAccounts => owner[o] = "active")
        /\ o \in Persons => revokeBefore[o] < cred[c].issuedAt
    BY <1>0, <1>1, <1>6 DEF RequestInv, StillStands, WeighedRight, InProgress
  <2>2. cred[c].issuedAt \in Nat /\ (o \in Persons => revokeBefore[o] \in Nat)
    BY <1>0, <1>2 DEF TypeOK
  <2>3. o \in Persons => ~(cred[c].issuedAt <= revokeBefore[o])
    BY <2>1, <2>2
  <2> QED
    BY <1>1, <1>2, <2>1, <2>3 DEF Ended
<1>7. IsRefused(r)'
  BY <1>6 DEF IsRefused
<1> QED
  BY <1>1, <1>3, <1>4, <1>5, <1>7 DEF IInv, RequestInv
-----------------------------------------------------------------------------
(* The theorems.                                                           *)

LEMMA InitInv == Init => IInv
<1> SUFFICES ASSUME Init PROVE IInv
  OBVIOUS
<1>1. /\ req \in [Requests -> Token] /\ \A r \in Requests : req[r].pc = "idle"
  BY IdleFacts DEF Init
<1>2. /\ cred \in [Credentials -> Row] /\ \A c \in Credentials : cred[c].state = "none"
  <2>1. \A o \in Owners : NoRow(o) \in Row /\ NoRow(o).state = "none"
    BY DEF NoRow, Row, NoMoment
  <2> QED
    BY <2>1 DEF Init
<1>3. now \in Nat /\ 1 <= now
  BY RevocationAssumption DEF Init
<1>4. TypeOK
  BY <1>1, <1>2, <1>3 DEF Init, TypeOK, Token, Row, NoMoment
<1>5. PendingInv /\ LocksInv /\ TablesInv
  BY <1>2, <1>3 DEF Init, PendingInv, LocksInv, TablesInv, NoMoment, Owners, Keys
<1>6. \A r \in Requests : RequestInv(r)
  BY <1>1 DEF RequestInv, RestsOn, LifeIsBounded, StillStands, WeighedRight, CutsLater,
              IsRefused, Issued, InProgress
<1> QED
  BY <1>4, <1>5, <1>6 DEF IInv, RowsInv

\* Every step moves the tables and leaves the requests, or the other way round.
LEMMA NextMoves ==
    ASSUME RowsInv, Next
    PROVE  \/ RowsInv' /\ TableMove
           \/ \E r \in Requests, c \in Credentials : Resolve(r, c)
           \/ \E r \in Requests : \/ Weigh(r) \/ SignAtOnce(r) \/ AwaitSecond(r)
                                  \/ SignAfterWait(r) \/ Refuse(r)
<1>1. CASE Tick
  BY <1>1, TickMoves
<1>2. ASSUME NEW c \in Credentials, OpenIssue(c) \/ OpenRemove(c) PROVE RowsInv' /\ TableMove
  <2>1. CASE OpenIssue(c)
    BY <2>1, OpenMoves DEF OpenIssue, Kinds, Keys
  <2>2. CASE OpenRemove(c)
    BY <2>2, OpenMoves DEF OpenRemove, Kinds, Keys
  <2> QED
    BY <1>2, <2>1, <2>2
<1>3. ASSUME NEW p \in Persons,
             OpenCutoff(p) \/ OpenBlock(p) \/ OpenDelete(p) \/ Unblock(p) \/ SetVerified(p)
      PROVE  RowsInv' /\ TableMove
  <2>0. p \in Owners /\ p \in Keys
    BY DEF Owners, Keys
  <2>1. CASE OpenCutoff(p)
    BY <2>0, <2>1, OpenMoves DEF OpenCutoff, Kinds
  <2>2. CASE OpenBlock(p)
    BY <2>0, <2>2, OpenMoves DEF OpenBlock, Kinds
  <2>3. CASE OpenDelete(p)
    BY <2>0, <2>3, OpenMoves DEF OpenDelete, Kinds
  <2>4. CASE Unblock(p)
    BY <2>0, <2>4, ReturnMoves
  <2>5. CASE SetVerified(p)
    BY <2>5, SetVerifiedMoves
  <2> QED
    BY <1>3, <2>1, <2>2, <2>3, <2>4, <2>5
<1>4. ASSUME NEW s \in ServiceAccounts, OpenDisable(s) \/ Enable(s) PROVE RowsInv' /\ TableMove
  <2>0. s \in Owners /\ s \in Keys
    BY DEF Owners, Keys
  <2>1. CASE OpenDisable(s)
    BY <2>0, <2>1, OpenMoves DEF OpenDisable, Kinds
  <2>2. CASE Enable(s)
    BY <2>0, <2>2, ReturnMoves
  <2> QED
    BY <1>4, <2>1, <2>2
<1>5. ASSUME NEW p \in pending, Commit(p) \/ Abort(p) PROVE RowsInv' /\ TableMove
  BY <1>5, CommitIssueMoves, CutoffMoves, DisableMoves, RemoveMoves, DeleteMoves, AbortMoves
  DEF Commit
<1>6. ASSUME NEW k \in Keys, SweepStaleCutoffs(k) PROVE RowsInv' /\ TableMove
  BY <1>6, SweepMoves
<1> QED
  BY <1>1, <1>2, <1>3, <1>4, <1>5, <1>6 DEF Next

LEMMA NextInv == IInv /\ [Next]_vars => IInv'
<1> SUFFICES ASSUME IInv, [Next]_vars PROVE IInv'
  OBVIOUS
<1>1. CASE RowsInv' /\ TableMove
  BY <1>1, MoveKeepsRequest DEF IInv
<1>2. ASSUME NEW r \in Requests, NEW c \in Credentials, Resolve(r, c) PROVE IInv'
  BY <1>2, ResolveKeeps
<1>3. ASSUME NEW r \in Requests,
             Weigh(r) \/ SignAtOnce(r) \/ AwaitSecond(r) \/ SignAfterWait(r) \/ Refuse(r)
      PROVE  IInv'
  BY <1>3, WeighKeeps, SignKeeps, AwaitKeeps, RefuseKeeps
<1>4. CASE UNCHANGED vars
  <2>1. RowsInv'
    BY <1>4 DEF vars, IInv, RowsInv, TypeOK, PendingInv, LocksInv, TablesInv
  <2>2. TableMove
    BY <1>4, NothingMoves DEF vars, IInv, RowsInv, TypeOK
  <2> QED
    BY <1>1, <2>1, <2>2
<1> QED
  BY <1>1, <1>2, <1>3, <1>4, NextMoves DEF IInv

\* What is open, what stands in the tables and what a request has read of them hang
\* together as IInv says.
THEOREM RevocationInvariant == Spec => []IInv
BY InitInv, NextInv, PTL DEF Spec

\* A token whose credential is gone, whose service account is off, or whose person was
\* cut off after the credential was issued is refused for as long as any verifier would
\* take it, unless its request and the commit overlapped.
THEOREM EndedIsRefused == Spec => []EndedAuthorityIsRefused
<1>1. IInv => EndedAuthorityIsRefused
  BY DEF IInv, RequestInv, IsRefused, Ended, EndedAuthorityIsRefused
<1> QED
  BY <1>1, RevocationInvariant, PTL

\* No token outlives the credential it was issued to.
THEOREM TokenEnds == Spec => []TokenEndsWithItsCredential
<1>1. IInv => TokenEndsWithItsCredential
  BY DEF IInv, RequestInv, LifeIsBounded, TokenEndsWithItsCredential
<1> QED
  BY <1>1, RevocationInvariant, PTL

\* The grace of the sweep covers the life of every token a cut-off refuses.
THEOREM SweepIsSafe == Spec => SweepRevivesNothing
<1>1. IInv /\ IInv' /\ [Next]_vars =>
         [\A r \in Requests : Issued(r) /\ CutOff(r) /\ WithinLifetime(r) => CutOff(r)']_vars
  <2> SUFFICES ASSUME IInv, IInv', [Next]_vars, NEW r \in Requests,
                      Issued(r), CutOff(r), WithinLifetime(r)
               PROVE  CutOff(r)'
    OBVIOUS
  <2>0. RowsInv /\ TypeOK /\ TypeOK' /\ LifeIsBounded(r) /\ now \in Nat
    BY DEF IInv, RowsInv, RequestInv, TypeOK
  <2>1. CASE TableMove
    <3>1. /\ req' = req /\ \A c \in Credentials : cred'[c].owner = cred[c].owner
          /\ \A k \in Keys : minted[k] <= minted'[k] \/ Stale(k)
      BY <2>1 DEF TableMove, CredentialMove
    <3> QED
      BY <2>0, <3>1, CutOffHolds
  <2>2. ASSUME NEW s \in Requests, UNCHANGED tables, s # r, NEW to, Move(s, to) PROVE CutOff(r)'
    <3>1. req'[r] = req[r]
      BY <2>0, <2>2 DEF Move, TypeOK
    <3> QED
      BY <2>2, <3>1 DEF CutOff, ForwardKeys, OwnerOf, tables
  <2>3. ASSUME NEW s \in Requests, NEW c \in Credentials, Resolve(s, c) PROVE CutOff(r)'
    BY <2>2, <2>3 DEF Resolve, Issued
  <2>4. ASSUME NEW s \in Requests,
               Weigh(s) \/ SignAtOnce(s) \/ AwaitSecond(s) \/ SignAfterWait(s) \/ Refuse(s)
        PROVE  CutOff(r)'
    <3>1. s # r
      BY <2>4 DEF Weigh, SignAtOnce, AwaitSecond, SignAfterWait, Refuse, Issued
    <3>2. UNCHANGED tables /\ \E to : Move(s, to)
      BY <2>4 DEF Weigh, AtIssuance, SignAtOnce, AwaitSecond, SignAfterWait, Sign, Refuse
    <3> QED
      BY <2>2, <3>1, <3>2
  <2>5. CASE UNCHANGED vars
    BY <2>5 DEF vars, CutOff, ForwardKeys, OwnerOf
  <2> QED
    BY <2>0, <2>1, <2>3, <2>4, <2>5, NextMoves
<1> QED
  BY <1>1, RevocationInvariant, PTL DEF Spec, SweepRevivesNothing

\* What the issue of a person's token allows, its first presentation allows too.
THEOREM NotBornRevoked == Spec => PersonsTokenIsNotBornRevoked
<1>1. IInv /\ [Next]_vars =>
         [\A r \in Requests :
             (Issued(r)' /\ ~Issued(r) /\ OwnerOf(req'[r].cred) \in Persons /\ ~raced[r])
             => ~CutOff(r)']_vars
  <2> SUFFICES ASSUME IInv, [Next]_vars, NEW r \in Requests, req'[r].pc = "issued",
                      req[r].pc # "issued", OwnerOf(req'[r].cred) \in Persons, ~raced[r]
               PROVE  ~CutOff(r)'
    BY DEF Issued
  <2>0. TypeOK /\ RowsInv /\ RequestInv(r)
    BY DEF IInv, RowsInv
  <2>1. (SignAtOnce(r) \/ SignAfterWait(r))
    <3>1. ~(req' = req)
      OBVIOUS
    <3>2. ~TableMove /\ ~UNCHANGED vars
      BY <3>1 DEF TableMove, vars
    <3>3. ASSUME NEW s \in Requests, NEW to \in Token, Move(s, to) PROVE s = r /\ to.pc = "issued"
      BY <2>0, <3>3 DEF Move, TypeOK
    <3>4. ASSUME NEW s \in Requests, NEW c \in Credentials, Resolve(s, c) PROVE FALSE
      <4>1. PICK t \in Int : Move(s, [Idle EXCEPT !.pc = "resolved", !.cred = c, !.ttl = t])
        <5>1. \A drift \in (-RemovalSlack)..RemovalSlack : Remaining(c, drift) \in Int
          BY <2>0, RevocationAssumption DEF Remaining, MinOf, TypeOK
        <5> QED
          BY <3>4, <5>1 DEF Resolve
      <4>2. req'[s].pc = "resolved" /\ \A q \in Requests \ {s} : req'[q] = req[q]
        BY <2>0, <4>1, IdleFacts DEF Move, TypeOK, Token
      <4> QED
        BY <4>2
    <3>5. ASSUME NEW s \in Requests, Weigh(s) \/ AwaitSecond(s) \/ Refuse(s) PROVE FALSE
      <4>1. CASE Weigh(s)
        BY <2>0, <4>1 DEF Weigh, AtIssuance, Move, TypeOK
      <4>2. CASE AwaitSecond(s)
        BY <2>0, <4>2 DEF AwaitSecond, Move, TypeOK
      <4>3. CASE Refuse(s)
        BY <2>0, <4>3, IdleFacts DEF Refuse, Move, TypeOK
      <4> QED
        BY <3>5, <4>1, <4>2, <4>3
    <3>6. ASSUME NEW s \in Requests, SignAtOnce(s) \/ SignAfterWait(s) PROVE s = r
      BY <2>0, <3>6 DEF SignAtOnce, SignAfterWait, Sign, Move, TypeOK
    <3> QED
      BY <2>0, <3>2, <3>4, <3>5, <3>6, NextMoves
  <2> DEFINE c == req[r].cred
             o == OwnerOf(c)
  <2>2. /\ Sign(r) /\ req[r].pc \in {"weighed", "waiting"} /\ AfterCutoff(r)
    BY <2>1 DEF SignAtOnce, SignAfterWait
  <2>3. /\ UNCHANGED <<now, owner, cred, minted>> /\ req'[r].cred = c
        /\ req'[r].iat = FloorSecond(now)
    BY <2>2, SignFacts
  <2>4. o \in Persons /\ c \in Credentials /\ o \in Keys /\ c \in Keys
    BY <2>0, <2>3, RequestTypes
  <2>5. /\ cred[c].state = "live" /\ owner[o] # "gone" /\ req[r].cutoff = revokeBefore[o]
    BY <2>0, <2>2, <2>4 DEF RequestInv, StillStands, WeighedRight, InProgress
  <2>6. minted[c] = NoMoment /\ minted[o] <= revokeBefore[o]
    BY <2>0, <2>4, <2>5 DEF RowsInv, TablesInv
  <2>7. minted[o] \in Nat /\ revokeBefore[o] \in Nat /\ FloorSecond(now) \in Nat
    BY <2>0, <2>4, FloorFacts DEF TypeOK
  <2>8. minted[o] = NoMoment \/ minted[o] < FloorSecond(now)
    BY <2>2, <2>5, <2>6, <2>7 DEF AfterCutoff, NoMoment
  <2>9. ForwardKeys(r)' = {c, o}
    BY <2>3 DEF ForwardKeys, OwnerOf
  <2> HIDE DEF c, o
  <2>10. ~\E k \in {c, o} : minted[k] # NoMoment /\ FloorSecond(now) <= minted[k]
    BY <2>6, <2>7, <2>8
  <2> QED
    BY <2>3, <2>9, <2>10 DEF CutOff
<1> QED
  BY <1>1, RevocationInvariant, PTL DEF Spec, PersonsTokenIsNotBornRevoked

-----------------------------------------------------------------------------
(* The verdict cache, by itself. *)

\* A verdict dated d stands for a token that is not revoked, or was not at d.
StoodAt(t, d) == t \notin revoked \/ revokedAt[t] >= d

\* Moments are read from the clock before they are used.
VerdictMomentsInv ==
    /\ \A r \in Readers : verdictReq[r].at <= verdictNow
    /\ \A t \in Tokens : cache[t] <= verdictNow + VerdictTTL

\* An answer of the authority, in a caller's hands or in the cache, stood at the
\* moment the caller had read before it asked.
VerdictAnswersInv ==
    /\ \A r \in Readers : verdictReq[r].pc = "cleared" =>
          StoodAt(verdictReq[r].token, verdictReq[r].at)
    /\ \A t \in Tokens : cache[t] # 0 => StoodAt(t, cache[t] - VerdictTTL)

CacheInv ==
    Verdicts!TypeOK /\ IsFiniteSet(Verdicts!Entries(cache)) /\ Verdicts!CacheIsBounded

VerdictInv == Verdicts!TypeOK /\ VerdictMomentsInv /\ VerdictAnswersInv

\* Presentation r goes to a step; its token and its moment stay.
LEMMA GotoOfReader ==
    ASSUME Verdicts!TypeOK, NEW r \in Readers, NEW pc \in Verdicts!Steps,
               Verdicts!Goto(r, pc)
    PROVE  /\ verdictReq' \in [Readers -> [pc : Verdicts!Steps, token : Tokens, at : Nat]]
           /\ verdictReq'[r].pc = pc /\ verdictReq'[r].token = verdictReq[r].token /\
                 verdictReq'[r].at = verdictReq[r].at
           /\ \A s \in Readers \ {r} : verdictReq'[s] = verdictReq[s]
BY DEF Verdicts!TypeOK, Verdicts!Goto

\* A presentation that begins has its token and the moment of the clock.
LEMMA BeginOfReader ==
    ASSUME Verdicts!TypeOK, NEW r \in Readers, NEW t \in Tokens, Verdicts!Begin(r, t)
    PROVE  /\ verdictReq' \in [Readers -> [pc : Verdicts!Steps, token : Tokens, at : Nat]]
           /\ verdictReq'[r].pc = "cached" /\ verdictReq'[r].token = t /\
                 verdictReq'[r].at = verdictNow
           /\ \A s \in Readers \ {r} : verdictReq'[s] = verdictReq[s]
BY DEF Verdicts!TypeOK, Verdicts!Begin, Verdicts!Steps

LEMMA IdleReader ==
    ASSUME Verdicts!CacheLimits
    PROVE  Verdicts!Idle \in [pc : Verdicts!Steps, token : Tokens, at : Nat] /\
               Verdicts!Idle.pc = "idle" /\ Verdicts!Idle.at = 0
<1>1. (CHOOSE t \in Tokens : TRUE) \in Tokens
  BY DEF Verdicts!CacheLimits
<1> QED
  BY <1>1 DEF Verdicts!Idle, Verdicts!Steps

\* Tokens leave the cache or come back with what the step writes.
LEMMA StoredVerdict ==
    ASSUME Verdicts!CacheLimits, Verdicts!TypeOK, NEW r \in Readers,
               Verdicts!StoreVerdict(r)
    PROVE  /\ cache' \in [Tokens -> Nat]
           /\ cache'[verdictReq[r].token] = verdictReq[r].at + VerdictTTL
           /\ \A t \in Tokens \ {verdictReq[r].token} : cache'[t] = 0 \/
                 cache'[t] = cache[t]
<1> DEFINE kept ==
      IF Verdicts!IsFull(cache) THEN Verdicts!Pruned(verdictReq[r].at) ELSE cache
<1>1. verdictReq[r].token \in Tokens /\ verdictReq[r].at + VerdictTTL \in Nat
  BY DEF Verdicts!TypeOK, Verdicts!CacheLimits
<1>2. kept \in [Tokens -> Nat] /\ \A t \in Tokens : kept[t] = 0 \/ kept[t] = cache[t]
  BY DEF Verdicts!TypeOK, Verdicts!Pruned, Verdicts!Alive
<1>3. cache' = [kept EXCEPT ![verdictReq[r].token] = verdictReq[r].at + VerdictTTL]
  BY DEF Verdicts!StoreVerdict, Verdicts!Until
<1> QED
  BY <1>1, <1>2, <1>3
-----------------------------------------------------------------------------
(* The verdicts.                                                           *)

LEMMA VerdictInvAtFirst == Verdicts!CacheLimits /\ Verdicts!Init => VerdictInv
<1> SUFFICES ASSUME Verdicts!CacheLimits, Verdicts!Init PROVE VerdictInv
  OBVIOUS
<1>1. /\ verdictReq \in [Readers -> [pc : Verdicts!Steps, token : Tokens, at : Nat]]
      /\ \A r \in Readers : verdictReq[r].pc = "idle" /\ verdictReq[r].at = 0
  BY IdleReader DEF Verdicts!Init
<1> QED
  BY <1>1 DEF Verdicts!Init, VerdictInv, Verdicts!TypeOK, VerdictMomentsInv,
       VerdictAnswersInv, Verdicts!CacheLimits

\* What a step of presentation r may do to the invariant: the authority and the clock
\* stay, the other presentations stay, and what is written stood when it was read.
LEMMA ReaderKeeps ==
    ASSUME Verdicts!CacheLimits, VerdictInv, NEW r \in Readers,
               UNCHANGED <<verdictNow, Verdicts!authority>>,
           verdictReq' \in [Readers -> [pc : Verdicts!Steps, token : Tokens, at : Nat]],
           \A s \in Readers \ {r} : verdictReq'[s] = verdictReq[s],
           verdictReq'[r].at <= verdictNow, verdictReq'[r].pc = "cleared" =>
               StoodAt(verdictReq'[r].token, verdictReq'[r].at),
           cache' \in [Tokens -> Nat],
           \A t \in Tokens :
              \/ cache'[t] = 0 \/ cache'[t] = cache[t]
              \/ \E d \in Nat : cache'[t] = d + VerdictTTL /\ d <= verdictNow /\
                    StoodAt(t, d)
    PROVE  VerdictInv'
<1> USE DEF VerdictInv, Verdicts!authority
<1>1. Verdicts!TypeOK'
  BY DEF Verdicts!TypeOK
<1>2. VerdictTTL \in Nat /\ verdictNow \in Nat
  BY DEF Verdicts!TypeOK, Verdicts!CacheLimits
<1>3. VerdictMomentsInv'
  BY <1>2 DEF VerdictMomentsInv, Verdicts!TypeOK
<1>4. ASSUME NEW s \in Readers, verdictReq'[s].pc = "cleared"
      PROVE StoodAt(verdictReq[s].token, verdictReq[s].at)'
  <2>1. CASE s = r
    BY <1>4, <2>1 DEF StoodAt
  <2>2. CASE s # r
    <3>1. verdictReq'[s] = verdictReq[s]
      BY <2>2
    <3> QED
      BY <1>4, <3>1 DEF VerdictAnswersInv, StoodAt
  <2> QED
    BY <2>1, <2>2
<1>5. ASSUME NEW t \in Tokens, cache'[t] # 0 PROVE StoodAt(t, cache[t] - VerdictTTL)'
  BY <1>2, <1>5 DEF VerdictAnswersInv, StoodAt, Verdicts!TypeOK
<1> QED
  BY <1>1, <1>3, <1>4, <1>5 DEF VerdictAnswersInv

LEMMA VerdictInvKept == Verdicts!CacheLimits /\ VerdictInv /\
    [Verdicts!Next]_(Verdicts!vars) => VerdictInv'
<1> SUFFICES ASSUME Verdicts!CacheLimits, VerdictInv, [Verdicts!Next]_(Verdicts!vars)
      PROVE VerdictInv'
  OBVIOUS
<1>0. /\ Verdicts!TypeOK /\ VerdictTTL \in Nat /\ verdictNow \in Nat
      /\ \A r \in Readers : verdictReq[r].at <= verdictNow /\
            verdictReq[r].token \in Tokens /\ verdictReq[r].at \in Nat
  BY DEF VerdictInv, Verdicts!TypeOK, VerdictMomentsInv, Verdicts!CacheLimits
<1>1. CASE Verdicts!Tick
  <2>1. /\ verdictNow' = verdictNow + 1 /\
            UNCHANGED <<revoked, revokedAt, cache, verdictReq>>
    BY <1>1 DEF Verdicts!Tick, Verdicts!authority
  <2>2. Verdicts!TypeOK' /\ VerdictMomentsInv'
    BY <1>0, <2>1 DEF VerdictInv, Verdicts!TypeOK, VerdictMomentsInv
  <2> QED
    BY <2>1, <2>2 DEF VerdictInv, VerdictAnswersInv, StoodAt
<1>2. CASE Verdicts!Restart
  <2>1. /\ verdictReq' \in [Readers -> [pc : Verdicts!Steps, token : Tokens, at : Nat]]
        /\ \A r \in Readers : verdictReq'[r].pc = "idle" /\ verdictReq'[r].at = 0
        /\ cache' = [t \in Tokens |-> 0] /\ UNCHANGED <<verdictNow, revoked, revokedAt>>
    BY <1>2, IdleReader DEF Verdicts!Restart, Verdicts!authority
  <2> QED
    BY <1>0, <2>1 DEF VerdictInv, Verdicts!TypeOK, VerdictMomentsInv, VerdictAnswersInv
<1>3. ASSUME NEW t \in Tokens, Verdicts!Revoke(t) PROVE VerdictInv'
  <2>1. /\ revoked' = revoked \cup {t} /\ UNCHANGED <<verdictNow, cache, verdictReq>>
        /\ revokedAt' \in [Tokens -> Nat] /\ revokedAt'[t] = verdictNow
        /\ \A u \in Tokens \ {t} : revokedAt'[u] = revokedAt[u]
    BY <1>0, <1>3 DEF Verdicts!Revoke, Verdicts!TypeOK
  <2>2. Verdicts!TypeOK' /\ VerdictMomentsInv'
    BY <1>0, <2>1 DEF VerdictInv, Verdicts!TypeOK, VerdictMomentsInv
  <2>3. ASSUME NEW u \in Tokens, NEW d \in Int, d <= verdictNow, StoodAt(u, d)
        PROVE StoodAt(u, d)'
    BY <1>0, <2>1, <2>3 DEF StoodAt
  <2>4. \A u \in Tokens : cache[u] - VerdictTTL \in Int /\
        cache[u] - VerdictTTL <= verdictNow
    BY <1>0 DEF VerdictInv, Verdicts!TypeOK, VerdictMomentsInv
  <2> QED
    BY <1>0, <2>1, <2>2, <2>3, <2>4 DEF VerdictInv, VerdictAnswersInv
<1>4. ASSUME NEW t \in Tokens, Verdicts!Restore(t) PROVE VerdictInv'
  BY <1>4 DEF Verdicts!Restore, VerdictInv, Verdicts!TypeOK, VerdictMomentsInv,
       VerdictAnswersInv, StoodAt
<1>5. ASSUME NEW r \in Readers, Verdicts!Judge(r) PROVE VerdictInv'
  <2>1. ASSUME NEW t \in Tokens, Verdicts!Begin(r, t) PROVE VerdictInv'
    <3>1. /\ verdictReq'[r].pc # "cleared" /\ verdictReq'[r].at <= verdictNow /\
              UNCHANGED <<verdictNow, Verdicts!authority>>
          /\ cache' \in [Tokens -> Nat] /\ \A u \in Tokens : cache'[u] = cache[u]
      BY <1>0, <2>1, BeginOfReader DEF Verdicts!Begin, Verdicts!TypeOK
    <3>2. /\ verdictReq' \in [Readers -> [pc : Verdicts!Steps, token : Tokens, at : Nat]]
          /\ \A s \in Readers \ {r} : verdictReq'[s] = verdictReq[s]
      BY <1>0, <2>1, BeginOfReader
    <3> QED
      BY <3>1, <3>2, ReaderKeeps
  <2>2. ASSUME NEW pc \in Verdicts!Steps \ {"cleared"}, Verdicts!Goto(r, pc),
        UNCHANGED <<verdictNow, Verdicts!authority>>,
               cache' \in [Tokens -> Nat], \A t \in Tokens : cache'[t] = 0 \/
                   cache'[t] = cache[t]
        PROVE  VerdictInv'
    BY <1>0, <2>2, GotoOfReader, ReaderKeeps
  <2>3. CASE Verdicts!CacheHit(r)
    BY <1>0, <2>2, <2>3 DEF Verdicts!CacheHit, Verdicts!Steps, Verdicts!TypeOK
  <2>4. CASE Verdicts!CacheMiss(r)
    BY <1>0, <2>2, <2>4 DEF Verdicts!CacheMiss, Verdicts!Steps, Verdicts!TypeOK
  <2>5. CASE Verdicts!AskAuthority(r) /\ verdictReq[r].token \in revoked
    BY <1>0, <2>2, <2>5 DEF Verdicts!AskAuthority, Verdicts!Steps, Verdicts!TypeOK
  <2>6. CASE Verdicts!AskAuthority(r) /\ verdictReq[r].token \notin revoked
    <3>1. Verdicts!Goto(r, "cleared") /\
          UNCHANGED <<verdictNow, Verdicts!authority, cache>>
      BY <2>6 DEF Verdicts!AskAuthority
    <3> QED
      BY <1>0, <2>6, <3>1, GotoOfReader, ReaderKeeps DEF Verdicts!Steps, Verdicts!TypeOK,
           StoodAt
  <2>7. CASE Verdicts!AuthorityFails(r)
    BY <1>0, <2>2, <2>7 DEF Verdicts!AuthorityFails, Verdicts!Steps, Verdicts!TypeOK
  <2>8. CASE Verdicts!StoreVerdict(r)
    <3>1. Verdicts!Goto(r, "accepted") /\ UNCHANGED <<verdictNow, Verdicts!authority>> /\
          StoodAt(verdictReq[r].token, verdictReq[r].at)
      BY <2>8 DEF Verdicts!StoreVerdict, VerdictInv, VerdictAnswersInv, Verdicts!At
    <3> QED
      BY <1>0, <2>8, <3>1, GotoOfReader, StoredVerdict, ReaderKeeps DEF Verdicts!Steps
  <2> QED
    BY <1>5, <2>1, <2>3, <2>4, <2>5, <2>6, <2>7, <2>8 DEF Verdicts!Judge
<1>6. CASE UNCHANGED Verdicts!vars
  BY <1>6 DEF Verdicts!vars, Verdicts!authority, VerdictInv, Verdicts!TypeOK,
       VerdictMomentsInv, VerdictAnswersInv, StoodAt
<1> QED
  BY <1>1, <1>2, <1>3, <1>4, <1>5, <1>6 DEF Verdicts!Next

\* What is cached, and what a presentation has been told, stood when it was dated.
THEOREM VerdictInvariant == Verdicts!CacheLimits => (Verdicts!Spec => []VerdictInv)
<1> SUFFICES ASSUME Verdicts!CacheLimits PROVE Verdicts!Spec => []VerdictInv
  OBVIOUS
<1> QED
  BY VerdictInvAtFirst, VerdictInvKept, PTL DEF Verdicts!Spec
-----------------------------------------------------------------------------
(* The limit.                                                              *)

\* The instance counts as this module does.
LEMMA SameSize == \A S : Verdicts!Cardinality(S) = Cardinality(S)
  BY DEF Verdicts!Cardinality, Cardinality

\* A cache that has lost entries of another stays within the limit.
LEMMA FewerEntries ==
    ASSUME Verdicts!CacheLimits, NEW c \in [Tokens -> Nat], NEW d \in [Tokens -> Nat],
           IsFiniteSet(Verdicts!Entries(d)),
               Cardinality(Verdicts!Entries(d)) <= MaxCached,
           \A t \in Tokens : c[t] = 0 \/ c[t] = d[t]
    PROVE  IsFiniteSet(Verdicts!Entries(c)) /\
               Cardinality(Verdicts!Entries(c)) <= MaxCached
<1>1. Verdicts!Entries(c) \subseteq Verdicts!Entries(d)
  BY DEF Verdicts!Entries
<1>2. IsFiniteSet(Verdicts!Entries(c)) /\
      Cardinality(Verdicts!Entries(c)) <= Cardinality(Verdicts!Entries(d))
  BY <1>1, FS_Subset
<1>3. Cardinality(Verdicts!Entries(c)) \in Nat /\ Cardinality(Verdicts!Entries(d)) \in Nat
  BY <1>2, FS_CardinalityType
<1> QED
  BY <1>2, <1>3 DEF Verdicts!CacheLimits

\* What is kept of a full cache leaves room for one more.
LEMMA RoomIsMade ==
    ASSUME Verdicts!CacheLimits, CacheInv, NEW at \in Nat,
           NEW kept, kept = IF Verdicts!IsFull(cache) THEN Verdicts!Pruned(at) ELSE cache
    PROVE  /\ kept \in [Tokens -> Nat] /\ IsFiniteSet(Verdicts!Entries(kept))
           /\ Cardinality(Verdicts!Entries(kept)) < MaxCached
<1>0. MaxCached \in Nat \ {0} /\ cache \in [Tokens -> Nat]
  BY DEF Verdicts!CacheLimits, CacheInv, Verdicts!TypeOK
<1>1. CASE ~Verdicts!IsFull(cache)
  <2>1. Cardinality(Verdicts!Entries(cache)) \in Nat
    BY FS_CardinalityType DEF CacheInv
  <2> QED
    BY <1>0, <1>1, <2>1, SameSize DEF Verdicts!IsFull, CacheInv
<1>2. CASE Verdicts!IsFull(cache) /\ Verdicts!IsFull(Verdicts!Alive(at))
  <2>1. kept = [t \in Tokens |-> 0]
    BY <1>2 DEF Verdicts!Pruned
  <2>2. Verdicts!Entries(kept) = {}
    BY <2>1 DEF Verdicts!Entries
  <2> QED
    BY <1>0, <2>1, <2>2, FS_EmptySet
<1>3. CASE Verdicts!IsFull(cache) /\ ~Verdicts!IsFull(Verdicts!Alive(at))
  <2>1. kept = Verdicts!Alive(at)
    BY <1>3 DEF Verdicts!Pruned
  <2>2. kept \in [Tokens -> Nat] /\ \A t \in Tokens : kept[t] = 0 \/ kept[t] = cache[t]
    BY <1>0, <2>1 DEF Verdicts!Alive
  <2>3. IsFiniteSet(Verdicts!Entries(kept))
    BY <1>0, <2>2, FewerEntries, SameSize DEF CacheInv, Verdicts!CacheIsBounded
  <2>4. Cardinality(Verdicts!Entries(kept)) \in Nat
    BY <2>3, FS_CardinalityType
  <2> QED
    BY <1>0, <1>3, <2>1, <2>2, <2>3, <2>4, SameSize DEF Verdicts!IsFull
<1> QED
  BY <1>1, <1>2, <1>3

LEMMA StoreIsBounded ==
    ASSUME Verdicts!CacheLimits, CacheInv, NEW r \in Readers, Verdicts!StoreVerdict(r)
    PROVE  IsFiniteSet(Verdicts!Entries(cache')) /\
               Cardinality(Verdicts!Entries(cache')) <= MaxCached
<1> DEFINE kept ==
      IF Verdicts!IsFull(cache) THEN Verdicts!Pruned(verdictReq[r].at) ELSE cache
           tok == verdictReq[r].token
<1>1. tok \in Tokens /\ verdictReq[r].at \in Nat /\ MaxCached \in Nat
  BY DEF CacheInv, Verdicts!TypeOK, Verdicts!CacheLimits
<1>2. /\ kept \in [Tokens -> Nat] /\ IsFiniteSet(Verdicts!Entries(kept))
      /\ Cardinality(Verdicts!Entries(kept)) < MaxCached
  BY <1>1, RoomIsMade
<1>3. cache' = [kept EXCEPT ![tok] = Verdicts!Until(r)]
  BY DEF Verdicts!StoreVerdict
<1> HIDE DEF kept, tok
<1>4. Verdicts!Entries(cache') \subseteq Verdicts!Entries(kept) \cup {tok}
  BY <1>1, <1>2, <1>3 DEF Verdicts!Entries
<1>5. /\ IsFiniteSet(Verdicts!Entries(kept) \cup {tok})
      /\ \/ Cardinality(Verdicts!Entries(kept) \cup {tok}) = Cardinality(Verdicts!Entries(kept))
         \/ Cardinality(Verdicts!Entries(kept) \cup {tok}) = Cardinality(Verdicts!Entries(kept)) + 1
  BY <1>2, FS_AddElement
<1>6. /\ IsFiniteSet(Verdicts!Entries(cache'))
      /\ Cardinality(Verdicts!Entries(cache')) <= Cardinality(Verdicts!Entries(kept) \cup {tok})
  BY <1>4, <1>5, FS_Subset
<1>7. Cardinality(Verdicts!Entries(cache')) \in Nat /\
      Cardinality(Verdicts!Entries(kept)) \in Nat
  BY <1>2, <1>6, FS_CardinalityType
<1> QED
  BY <1>1, <1>2, <1>5, <1>6, <1>7

LEMMA CacheInvAtFirst == Verdicts!CacheLimits /\ Verdicts!Init => CacheInv
<1> SUFFICES ASSUME Verdicts!CacheLimits, Verdicts!Init PROVE CacheInv
  OBVIOUS
<1>1. Verdicts!TypeOK
  BY VerdictInvAtFirst DEF VerdictInv
<1>2. Verdicts!Entries(cache) = {}
  BY DEF Verdicts!Init, Verdicts!Entries
<1> QED
  BY <1>1, <1>2, FS_EmptySet, SameSize DEF CacheInv, Verdicts!CacheIsBounded, Verdicts!CacheLimits

LEMMA CacheInvKept == Verdicts!CacheLimits /\ CacheInv /\ Verdicts!TypeOK' /\
    [Verdicts!Next]_(Verdicts!vars) => CacheInv'
<1> SUFFICES ASSUME Verdicts!CacheLimits, CacheInv, Verdicts!TypeOK',
      [Verdicts!Next]_(Verdicts!vars) PROVE CacheInv'
  OBVIOUS
<1>0. cache \in [Tokens -> Nat] /\ cache' \in [Tokens -> Nat]
  BY DEF CacheInv, Verdicts!TypeOK
<1>1. ASSUME \A t \in Tokens : cache'[t] = 0 \/ cache'[t] = cache[t] PROVE CacheInv'
  <2>1. IsFiniteSet(Verdicts!Entries(cache')) /\
        Cardinality(Verdicts!Entries(cache')) <= MaxCached
    BY <1>0, <1>1, FewerEntries, SameSize DEF CacheInv, Verdicts!CacheIsBounded
  <2> QED
    BY <2>1, SameSize DEF CacheInv, Verdicts!CacheIsBounded, Verdicts!Entries
<1>2. ASSUME NEW r \in Readers, Verdicts!Judge(r) PROVE CacheInv'
  <2>1. CASE Verdicts!StoreVerdict(r)
    BY <2>1, StoreIsBounded, SameSize DEF CacheInv, Verdicts!CacheIsBounded, Verdicts!Entries
  <2>2. CASE Verdicts!CacheMiss(r)
    BY <1>0, <1>1, <2>2 DEF Verdicts!CacheMiss
  <2>3. CASE ~Verdicts!StoreVerdict(r) /\ ~Verdicts!CacheMiss(r)
    <3>1. cache' = cache
      BY <1>2, <2>3 DEF Verdicts!Judge, Verdicts!Begin, Verdicts!CacheHit,
           Verdicts!AskAuthority, Verdicts!AuthorityFails
    <3> QED
      BY <1>1, <3>1
  <2> QED
    BY <2>1, <2>2, <2>3
<1>3. CASE Verdicts!Restart
  BY <1>1, <1>3 DEF Verdicts!Restart
<1>4. CASE Verdicts!Tick
  BY <1>1, <1>4 DEF Verdicts!Tick
<1>5. ASSUME NEW t \in Tokens, Verdicts!Revoke(t) \/ Verdicts!Restore(t) PROVE CacheInv'
  BY <1>1, <1>5 DEF Verdicts!Revoke, Verdicts!Restore
<1>6. CASE UNCHANGED Verdicts!vars
  BY <1>1, <1>6 DEF Verdicts!vars
<1> QED
  BY <1>2, <1>3, <1>4, <1>5, <1>6 DEF Verdicts!Next

\* Whatever is presented, and whoever overtakes whom between the question to the
\* authority and the write, the cache holds at most maxCachedVerdicts entries.
THEOREM CacheKeepsItsLimit == Verdicts!CacheLimits =>
    (Verdicts!Spec => []Verdicts!CacheIsBounded)
<1> SUFFICES ASSUME Verdicts!CacheLimits PROVE Verdicts!Spec => []Verdicts!CacheIsBounded
  OBVIOUS
<1>1. Verdicts!Spec => []VerdictInv
  BY VerdictInvariant
<1>2. Verdicts!Init => CacheInv
  BY CacheInvAtFirst
<1>3. VerdictInv' /\ CacheInv /\ [Verdicts!Next]_(Verdicts!vars) => CacheInv'
  BY CacheInvKept DEF VerdictInv
<1>4. CacheInv => Verdicts!CacheIsBounded
  BY DEF CacheInv
<1> QED
  BY <1>1, <1>2, <1>3, <1>4, PTL DEF Verdicts!Spec
-----------------------------------------------------------------------------
(* The window.                                                             *)

UnderWay == {"cached", "ask", "cleared"}
Asked == {Verdicts!Call(r) : r \in Verdicts!In(UnderWay)}
Granted == {Verdicts!Call(r) : r \in Verdicts!In({"accepted"})}

\* Calls are told apart by their callers.
LEMMA CallsOf ==
    ASSUME NEW x
    PROVE  /\ x \in Asked <=> \E r \in Readers : verdictReq[r].pc \in UnderWay /\
               x = Verdicts!Call(r)
           /\ x \in Granted <=> \E r \in Readers : verdictReq[r].pc = "accepted" /\
                 x = Verdicts!Call(r)
BY DEF Asked, Granted, Verdicts!In

LEMMA CallIsUnique == \A r, s \in Readers : Verdicts!Call(r) = Verdicts!Call(s) => r = s
BY DEF Verdicts!Call

\* A step of one presentation that keeps its token and its moment changes no other call.
LEMMA OtherCalls ==
    ASSUME NEW r \in Readers, verdictReq'[r].token = verdictReq[r].token,
               verdictReq'[r].at = verdictReq[r].at,
           \A s \in Readers \ {r} : verdictReq'[s] = verdictReq[s]
    PROVE  \A s \in Readers : Verdicts!Call(s)' = Verdicts!Call(s) /\
               (s # r => verdictReq'[s].pc = verdictReq[s].pc)
BY DEF Verdicts!Call

\* Steps that only move a call under way.
LEMMA MovedCall ==
    ASSUME NEW r \in Readers, verdictReq'[r].token = verdictReq[r].token,
               verdictReq'[r].at = verdictReq[r].at,
           \A s \in Readers \ {r} : verdictReq'[s] = verdictReq[s],
           verdictReq[r].pc \in UnderWay
    PROVE  /\ verdictReq'[r].pc \in UnderWay => Asked' = Asked /\ Granted' = Granted
           /\ verdictReq'[r].pc = "accepted" =>
                 /\ Verdicts!Call(r) \in Asked
                 /\ Asked' = Asked \ {Verdicts!Call(r)} /\ Granted' = Granted \cup
                       {Verdicts!Call(r)}
           /\ verdictReq'[r].pc \in {"refused", "unavailable"} =>
                 Asked' \subseteq Asked /\ Granted' \subseteq Granted
<1>1. \A s \in Readers : Verdicts!Call(s)' = Verdicts!Call(s) /\
      (s # r => verdictReq'[s].pc = verdictReq[s].pc)
  BY OtherCalls
<1>2. \A x : /\ x \in Asked <=> \E s \in Readers : verdictReq[s].pc \in UnderWay /\
                 x = Verdicts!Call(s)
             /\ x \in Granted <=> \E s \in Readers : verdictReq[s].pc = "accepted" /\
                   x = Verdicts!Call(s)
  BY CallsOf
<1>3. \A x : /\ x \in Asked' <=> \E s \in Readers : verdictReq'[s].pc \in UnderWay /\
                 x = Verdicts!Call(s)
             /\ x \in Granted' <=> \E s \in Readers : verdictReq'[s].pc = "accepted" /\
                   x = Verdicts!Call(s)
  BY <1>1 DEF Asked, Granted, Verdicts!In
<1>4. verdictReq[r].pc # "accepted" /\ "accepted" \notin UnderWay
      /\ "refused" \notin UnderWay /\ "unavailable" \notin UnderWay
  BY DEF UnderWay
<1>5. ASSUME verdictReq'[r].pc \in UnderWay PROVE Asked' = Asked /\ Granted' = Granted
  <2>1. \A x : (x \in Asked' <=> x \in Asked) /\ (x \in Granted' <=> x \in Granted)
    BY <1>1, <1>2, <1>3, <1>4, <1>5
  <2> QED
    BY <2>1
<1>6. ASSUME verdictReq'[r].pc = "accepted"
      PROVE  Verdicts!Call(r) \in Asked /\ Asked' = Asked \ {Verdicts!Call(r)} /\
                 Granted' = Granted \cup {Verdicts!Call(r)}
  <2>1. \A x : x \in Asked' <=> x \in Asked /\ x # Verdicts!Call(r)
    BY <1>1, <1>2, <1>3, <1>4, <1>6, CallIsUnique
  <2>2. \A x : x \in Granted' <=> x \in Granted \/ x = Verdicts!Call(r)
    BY <1>1, <1>2, <1>3, <1>4, <1>6
  <2>3. Verdicts!Call(r) \in Asked
    BY <1>2
  <2> QED
    BY <2>1, <2>2, <2>3
<1>7. ASSUME verdictReq'[r].pc \in {"refused", "unavailable"}
      PROVE  Asked' \subseteq Asked /\ Granted' \subseteq Granted
  <2>1. \A x : (x \in Asked' => x \in Asked) /\ (x \in Granted' => x \in Granted)
    BY <1>1, <1>2, <1>3, <1>4, <1>7
  <2> QED
    BY <2>1
<1> QED
  BY <1>5, <1>6, <1>7

\* A new call replaces whatever its caller had.
LEMMA NewCall ==
    ASSUME Verdicts!TypeOK, NEW r \in Readers, NEW t \in Tokens, Verdicts!Begin(r, t)
    PROVE  /\ Asked' = {x \in Asked : x.caller # r}
                          \cup {[caller |-> r, subject |-> t, at |-> verdictNow]}
           /\ Granted' = {x \in Granted : x.caller # r}
<1>1. /\ verdictReq'[r].pc = "cached" /\
          \A s \in Readers \ {r} : verdictReq'[s] = verdictReq[s]
      /\ Verdicts!Call(r)' = [caller |-> r, subject |-> t, at |-> verdictNow]
  BY BeginOfReader DEF Verdicts!Call
<1>2. \A s \in Readers \ {r} : Verdicts!Call(s)' = Verdicts!Call(s) /\
      verdictReq'[s].pc = verdictReq[s].pc
  BY <1>1 DEF Verdicts!Call
<1>3. \A s \in Readers : Verdicts!Call(s).caller = s
  BY DEF Verdicts!Call
<1>4. \A x : /\ x \in Asked' <=> \E s \in Readers : verdictReq'[s].pc \in UnderWay /\
                 x = Verdicts!Call(s)'
             /\ x \in Granted' <=> \E s \in Readers : verdictReq'[s].pc = "accepted" /\
                   x = Verdicts!Call(s)'
  BY DEF Asked, Granted, Verdicts!In
<1>5. \A x : /\ x \in Asked <=> \E s \in Readers : verdictReq[s].pc \in UnderWay /\
                 x = Verdicts!Call(s)
             /\ x \in Granted <=> \E s \in Readers : verdictReq[s].pc = "accepted" /\
                   x = Verdicts!Call(s)
  BY CallsOf
<1>6. "cached" \in UnderWay
  BY DEF UnderWay
<1>7. Asked' = {x \in Asked : x.caller # r} \cup
      {[caller |-> r, subject |-> t, at |-> verdictNow]}
  <2>1. \A x : x \in Asked' <=> \/ x \in Asked /\ x.caller # r
                              \/ x = [caller |-> r, subject |-> t, at |-> verdictNow]
    BY <1>1, <1>2, <1>3, <1>4, <1>5, <1>6
  <2> QED
    BY <2>1
<1>8. Granted' = {x \in Granted : x.caller # r}
  <2>1. \A x : x \in Granted' <=> x \in Granted /\ x.caller # r
    BY <1>1, <1>2, <1>3, <1>4, <1>5
  <2> QED
    BY <2>1
<1> QED
  BY <1>7, <1>8

\* The authority, as StalenessWindow sees it.
LEMMA VerdictWindowInit == Verdicts!CacheLimits /\ Verdicts!Init =>
    Verdicts!VerdictWindow!Init
<1> SUFFICES ASSUME Verdicts!CacheLimits, Verdicts!Init PROVE Verdicts!VerdictWindow!Init
  OBVIOUS
<1>1. \A r \in Readers : verdictReq[r].pc = "idle"
  BY IdleReader DEF Verdicts!Init
<1>2. Asked = {} /\ Granted = {}
  BY <1>1 DEF Asked, Granted, Verdicts!In, UnderWay
<1> QED
  BY <1>2 DEF Verdicts!Init, Verdicts!VerdictWindow!Init, Asked, Granted, UnderWay

LEMMA VerdictWindowNext == Verdicts!CacheLimits /\ VerdictInv /\
    [Verdicts!Next]_(Verdicts!vars) =>
    [Verdicts!VerdictWindow!Next]_(Verdicts!VerdictWindow!vars)
<1> SUFFICES ASSUME Verdicts!CacheLimits, VerdictInv, [Verdicts!Next]_(Verdicts!vars)
             PROVE  [Verdicts!VerdictWindow!Next]_(Verdicts!VerdictWindow!vars)
  OBVIOUS
<1>0. /\ Verdicts!TypeOK /\ VerdictTTL \in Nat /\ verdictNow \in Nat
      /\ \A r \in Readers : verdictReq[r].token \in Tokens /\ verdictReq[r].at \in Nat
      /\ cache \in [Tokens -> Nat] /\ revokedAt \in [Tokens -> Nat]
  BY DEF VerdictInv, Verdicts!TypeOK, Verdicts!CacheLimits
<1>1. ASSUME UNCHANGED verdictReq PROVE Asked' = Asked /\ Granted' = Granted
  BY <1>1 DEF Asked, Granted, Verdicts!In, Verdicts!Call
<1>2. CASE Verdicts!Tick
  <2>1. Verdicts!VerdictWindow!Tick
    BY <1>1, <1>2 DEF Verdicts!Tick, Verdicts!authority, Verdicts!VerdictWindow!Tick,
         Asked, Granted, UnderWay
  <2> QED
    BY <2>1 DEF Verdicts!VerdictWindow!Next
<1>3. ASSUME UNCHANGED <<verdictNow, Verdicts!authority>>, Asked' \subseteq Asked,
      Granted' \subseteq Granted
      PROVE  Verdicts!VerdictWindow!Forget
  BY <1>3 DEF Verdicts!authority, Verdicts!VerdictWindow!Forget, Asked, Granted, UnderWay
<1>4. CASE Verdicts!Restart
  <2>1. \A r \in Readers : verdictReq'[r].pc = "idle"
    BY <1>4, IdleReader DEF Verdicts!Restart
  <2>2. Asked' = {} /\ Granted' = {}
    BY <2>1 DEF Asked, Granted, Verdicts!In, UnderWay
  <2> QED
    BY <1>3, <1>4, <2>2 DEF Verdicts!Restart, Verdicts!VerdictWindow!Next
<1>5. ASSUME NEW t \in Tokens, Verdicts!Revoke(t) PROVE Verdicts!VerdictWindow!Next
  <2>1. Verdicts!VerdictWindow!Invalidate(t)
    BY <1>1, <1>5 DEF Verdicts!Revoke, Verdicts!VerdictWindow!Invalidate, Asked, Granted,
         UnderWay
  <2> QED
    BY <2>1 DEF Verdicts!VerdictWindow!Next
<1>6. ASSUME NEW t \in Tokens, Verdicts!Restore(t) PROVE Verdicts!VerdictWindow!Next
  <2>1. Verdicts!VerdictWindow!Validate(t)
    BY <1>1, <1>6 DEF Verdicts!Restore, Verdicts!VerdictWindow!Validate, Asked, Granted,
         UnderWay
  <2> QED
    BY <2>1 DEF Verdicts!VerdictWindow!Next
<1>7. ASSUME NEW r \in Readers, Verdicts!Judge(r)
      PROVE [Verdicts!VerdictWindow!Next]_(Verdicts!VerdictWindow!vars)
  <2>1. ASSUME NEW t \in Tokens, Verdicts!Begin(r, t) PROVE Verdicts!VerdictWindow!Next
    <3>1. Verdicts!VerdictWindow!Ask(r, t)
      BY <1>0, <2>1, NewCall
      DEF Verdicts!Begin, Verdicts!authority, Verdicts!VerdictWindow!Ask,
           Verdicts!VerdictWindow!Others, Asked, Granted, UnderWay
    <3> QED
      BY <3>1 DEF Verdicts!VerdictWindow!Next
  <2>2. ASSUME NEW pc \in Verdicts!Steps, Verdicts!Goto(r, pc),
        verdictReq[r].pc \in UnderWay
        PROVE  /\ pc \in UnderWay => Asked' = Asked /\ Granted' = Granted
               /\ pc = "accepted" =>
                     /\ Verdicts!Call(r) \in Asked
                     /\ Asked' = Asked \ {Verdicts!Call(r)} /\ Granted' = Granted \cup
                           {Verdicts!Call(r)}
               /\ pc \in {"refused", "unavailable"} =>
                     Asked' \subseteq Asked /\ Granted' \subseteq Granted
    BY <1>0, <2>2, GotoOfReader, MovedCall
  <2>3. ASSUME Asked' = Asked /\ Granted' = Granted,
        UNCHANGED <<verdictNow, Verdicts!authority>>
        PROVE  UNCHANGED Verdicts!VerdictWindow!vars
    BY <2>3 DEF Verdicts!authority, Verdicts!VerdictWindow!vars, Asked, Granted, UnderWay
  <2>4. ASSUME Verdicts!Goto(r, "accepted"), verdictReq[r].pc \in UnderWay,
        UNCHANGED <<verdictNow, Verdicts!authority>>,
               \/ verdictReq[r].token \notin revoked
               \/ revokedAt[verdictReq[r].token] > verdictReq[r].at - VerdictTTL
        PROVE  Verdicts!VerdictWindow!Next
    <3>1. /\ Verdicts!Call(r) \in Asked
          /\ Asked' = Asked \ {Verdicts!Call(r)} /\ Granted' = Granted \cup
                {Verdicts!Call(r)}
      BY <2>2, <2>4 DEF Verdicts!Steps
    <3>2. Verdicts!VerdictWindow!Recent(Verdicts!Call(r))
      BY <1>0, <2>4 DEF Verdicts!VerdictWindow!Recent, Verdicts!Call
    <3>3. Verdicts!VerdictWindow!Grant(Verdicts!Call(r))
      BY <2>4, <3>1, <3>2 DEF Verdicts!authority, Verdicts!VerdictWindow!Grant, Asked,
           Granted, UnderWay
    <3> QED
      BY <3>1, <3>3 DEF Verdicts!VerdictWindow!Next, Asked, UnderWay
  <2>5. CASE Verdicts!CacheHit(r)
    <3>1. /\ Verdicts!Goto(r, "accepted") /\ verdictReq[r].pc \in UnderWay /\
              UNCHANGED <<verdictNow, Verdicts!authority>>
          /\ cache[verdictReq[r].token] # 0 /\
                verdictReq[r].at < cache[verdictReq[r].token]
      BY <2>5 DEF Verdicts!CacheHit, Verdicts!At, Verdicts!Cached, Verdicts!Before,
           UnderWay
    <3>2. \/ verdictReq[r].token \notin revoked
          \/ revokedAt[verdictReq[r].token] >= cache[verdictReq[r].token] - VerdictTTL
      BY <1>0, <3>1 DEF VerdictInv, VerdictAnswersInv, StoodAt
    <3>3. \/ verdictReq[r].token \notin revoked
          \/ revokedAt[verdictReq[r].token] > verdictReq[r].at - VerdictTTL
      BY <1>0, <3>1, <3>2
    <3> QED
      BY <2>4, <3>1, <3>3
  <2>6. CASE Verdicts!StoreVerdict(r)
    <3>1. /\ Verdicts!Goto(r, "accepted") /\ verdictReq[r].pc \in UnderWay /\
              UNCHANGED <<verdictNow, Verdicts!authority>>
          /\ verdictReq[r].pc = "cleared"
      BY <2>6 DEF Verdicts!StoreVerdict, Verdicts!At, UnderWay
    <3>2. verdictReq[r].token \notin revoked \/
          revokedAt[verdictReq[r].token] >= verdictReq[r].at
      BY <3>1 DEF VerdictInv, VerdictAnswersInv, StoodAt
    <3>3. verdictReq[r].token \notin revoked \/
          revokedAt[verdictReq[r].token] > verdictReq[r].at - VerdictTTL
      BY <1>0, <3>2 DEF Verdicts!CacheLimits
    <3> QED
      BY <2>4, <3>1, <3>3
  <2>7. CASE Verdicts!CacheMiss(r)
    BY <2>2, <2>3, <2>7 DEF Verdicts!CacheMiss, Verdicts!At, UnderWay, Verdicts!Steps
  <2>8. CASE Verdicts!AskAuthority(r) /\ verdictReq[r].token \notin revoked
    BY <2>2, <2>3, <2>8 DEF Verdicts!AskAuthority, Verdicts!At, UnderWay, Verdicts!Steps
  <2>9. CASE Verdicts!AskAuthority(r) /\ verdictReq[r].token \in revoked
    <3>1. Verdicts!VerdictWindow!Forget
      BY <1>3, <2>2, <2>9 DEF Verdicts!AskAuthority, Verdicts!At, UnderWay, Verdicts!Steps
    <3> QED
      BY <3>1 DEF Verdicts!VerdictWindow!Next
  <2>10. CASE Verdicts!AuthorityFails(r)
    <3>1. Verdicts!VerdictWindow!Forget
      BY <1>3, <2>2, <2>10 DEF Verdicts!AuthorityFails, Verdicts!At, UnderWay,
           Verdicts!Steps
    <3> QED
      BY <3>1 DEF Verdicts!VerdictWindow!Next
  <2> QED
    BY <1>7, <2>1, <2>5, <2>6, <2>7, <2>8, <2>9, <2>10 DEF Verdicts!Judge
<1>8. CASE UNCHANGED Verdicts!vars
  BY <1>1, <1>8 DEF Verdicts!vars, Verdicts!authority, Verdicts!VerdictWindow!vars,
       Asked, Granted, UnderWay
<1> QED
  BY <1>2, <1>4, <1>5, <1>6, <1>7, <1>8 DEF Verdicts!Next

\* The cache implements the window of VerdictTTL over the revocation authority: a token
\* revoked VerdictTTL before it is presented is refused, whatever the other presentations
\* have written into the cache meanwhile.
THEOREM CacheImplementsTheWindow == Verdicts!CacheLimits =>
    (Verdicts!Spec => Verdicts!VerdictsAreRecent)
<1> SUFFICES ASSUME Verdicts!CacheLimits PROVE Verdicts!Spec => Verdicts!VerdictsAreRecent
  OBVIOUS
<1>1. Verdicts!Spec => []VerdictInv
  BY VerdictInvariant
<1>2. Verdicts!Init => Verdicts!VerdictWindow!Init
  BY VerdictWindowInit
<1>3. VerdictInv /\ [Verdicts!Next]_(Verdicts!vars) =>
      [Verdicts!VerdictWindow!Next]_(Verdicts!VerdictWindow!vars)
  BY VerdictWindowNext
<1> QED
  BY <1>1, <1>2, <1>3, PTL DEF Verdicts!Spec, Verdicts!VerdictsAreRecent,
       Verdicts!VerdictWindow!Spec

-----------------------------------------------------------------------------
(* The composition. *)

\* Every step of the composition is one of TokenRevocation's or leaves it alone.
LEMMA CutOffsRun == PartsSpec => Spec
<1>1. PartsInit => Init
  BY DEF PartsInit
<1>2. [PartsNext]_<<part, vars, snapshotVars, verdictVars>> => [Next]_vars
  BY DEF PartsNext
<1> QED
  BY <1>1, <1>2, PTL DEF PartsSpec, Spec

\* Every step of the composition is one of the verdict cache's or leaves it alone.
LEMMA CacheRuns == PartsSpec => Verdicts!Spec
<1>1. PartsInit => Verdicts!Init
  BY DEF PartsInit
<1>2. [PartsNext]_<<part, vars, snapshotVars, verdictVars>> =>
      [Verdicts!Next]_(Verdicts!vars)
  BY DEF PartsNext, verdictVars, Verdicts!vars, Verdicts!authority
<1> QED
  BY <1>1, <1>2, PTL DEF PartsSpec, Verdicts!Spec

\* Every step of the composition is one of the key snapshot's or leaves it alone.
LEMMA SnapshotRuns == PartsSpec => Snapshot!Spec
<1>1. PartsInit => Snapshot!Init
  BY DEF PartsInit
<1>2. [PartsNext]_<<part, vars, snapshotVars, verdictVars>> =>
      [Snapshot!Next]_(Snapshot!vars)
  BY DEF PartsNext, snapshotVars, Snapshot!vars, Snapshot!registry, Snapshot!snapshot
<1> QED
  BY <1>1, <1>2, PTL DEF PartsSpec, Snapshot!Spec

\* The cache of verdicts stays within maxCachedVerdicts (pruneLocked).
THEOREM CacheStaysBounded == PartsSpec => []CacheIsBounded
BY CacheRuns, CacheKeepsItsLimit, ReaderAssumption DEF CacheIsBounded

\* A token revoked VerdictTTL before it is presented is refused (revoked in reader.go).
THEOREM VerdictsStayRecent == PartsSpec => VerdictsAreRecent
BY CacheRuns, CacheImplementsTheWindow, ReaderAssumption DEF VerdictsAreRecent

\* A key that left the published set verifies nothing presented KeySetTTL later
\* (keySnapshot).
THEOREM KeysStayRecent == PartsSpec => KeysAreRecent
BY SnapshotRuns, Snapshot!SnapshotImplementsTheWindow, ReaderAssumption DEF KeysAreRecent

\* A key published before its forced look-up is unknown only inside the interval of
\* another forced refresh (keySnapshot).
THEOREM RotationsAreSeen == PartsSpec => RotationIsSeen
BY SnapshotRuns, Snapshot!RotationSeen, ReaderAssumption DEF RotationIsSeen

\* What is proved of the cut-offs holds beside the two copies: an ended authority is
\* refused, no token outlives its credential, the sweep revives nothing, and a person's
\* token is not born revoked (CutOff, Expiry, SweepStaleCutoffs, AtIssuance).
THEOREM CutOffsHold ==
  PartsSpec => /\ []EndedAuthorityIsRefused /\ []TokenEndsWithItsCredential
               /\ SweepRevivesNothing /\ PersonsTokenIsNotBornRevoked
BY CutOffsRun, EndedIsRefused, TokenEnds, SweepIsSafe, NotBornRevoked
=============================================================================
