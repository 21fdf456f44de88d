-------------------------- MODULE TokenRevocation --------------------------
(***************************************************************************)
(* Cut-offs against issued tokens.  A cut-off is a moment of the database  *)
(* clock, kept in two tables: user_token_revocations, by which an issuance *)
(* is judged, and minted_token_revocations, by which a presented token is. *)
(* A token carries its issue moment in whole seconds, rounded down.        *)
(*                                                                         *)
(* Every writer reads its moment some time before its transaction commits, *)
(* and an issuance reads its client, judges the cut-off and signs in three *)
(* steps; the steps of all of them interleave.  Time is in ticks, so that  *)
(* several moments fall into one second.                                   *)
(***************************************************************************)
EXTENDS Integers, FiniteSets

CONSTANTS
    Persons,            \* users
    ServiceAccounts,
    Credentials,        \* rows of user_oauth_clients and sa_oauth_clients
    Requests,           \* token requests; each leaves at most one token
    TicksPerSecond,
    TokenTTL,           \* MaxTokenTTL of the platform, and what is asked for
    CredentialTTL,      \* lifetime of a credential issued with an expiry
    ClockSkew,          \* leeway of every verifier
    RemovalSlack,       \* a process clock and the database differ by at most this
    MaxNow,             \* bound on the clock
    MaxPending          \* bound on the transactions open at one time

ASSUME RevocationAssumption ==
    /\ Persons \cap ServiceAccounts = {}
    /\ Credentials \cap (Persons \cup ServiceAccounts) = {}
    /\ TicksPerSecond \in Nat \ {0}
    /\ TokenTTL \in Nat \ {0} /\ CredentialTTL \in Nat \ {0}
    /\ ClockSkew \in Nat /\ RemovalSlack \in Nat
    /\ MaxNow \in Nat /\ MaxPending \in Nat
    /\ Credentials # {}

Owners == Persons \cup ServiceAccounts
Keys == Owners \cup Credentials
NoMoment == 0

VARIABLES
    now,            \* the database clock
    owner,          \* owner -> "active", "off" (blocked, disabled) or "gone"
    verified,       \* person -> is the current address confirmed
    cred,           \* credential -> its row, and the owner it is or will be issued to
    revokeBefore,   \* person -> user_token_revocations.revoke_before
    minted,         \* key -> minted_token_revocations.revoke_before
    pending,        \* transactions whose moment is read and that are still open
    req,            \* request -> where it is, and its token once issued
    raced           \* request -> did a cut-off of its keys overlap it (history)

vars == <<now, owner, verified, cred, revokeBefore, minted, pending, req, raced>>

MaxOf(a, b) == IF a >= b THEN a ELSE b
MinOf(a, b) == IF a <= b THEN a ELSE b
FloorSecond(t) == t - (t % TicksPerSecond)

NoRow(o) == [state |-> "none", owner |-> o, issuedAt |-> NoMoment, expiresAt |-> NoMoment]
Idle == [pc |-> "idle", cred |-> CHOOSE c \in Credentials : TRUE,
         ttl |-> TokenTTL, cutoff |-> NoMoment, iat |-> NoMoment, exp |-> NoMoment]

Kinds == {"issue", "cutoff", "block", "disable", "remove", "delete"}
Tx == [kind : Kinds, key : Keys, at : Nat]

TypeOK ==
    /\ now \in Nat
    /\ owner \in [Owners -> {"active", "off", "gone"}]
    /\ verified \in [Persons -> BOOLEAN]
    /\ cred \in [Credentials -> [state : {"none", "live", "gone"}, owner : Owners,
                                 issuedAt : Nat, expiresAt : Nat]]
    /\ revokeBefore \in [Persons -> Nat]
    /\ minted \in [Keys -> Nat]
    /\ pending \subseteq Tx
    /\ req \in [Requests -> [pc : {"idle", "resolved", "weighed", "waiting", "issued"},
                             cred : Credentials, ttl : 1..TokenTTL,
                             cutoff : Nat, iat : Nat, exp : Nat]]
    /\ raced \in [Requests -> BOOLEAN]

Init ==
    /\ now = TicksPerSecond
    /\ owner = [o \in Owners |-> "active"]
    /\ verified = [p \in Persons |-> TRUE]
    /\ cred \in [Credentials -> {NoRow(o) : o \in Owners}]
    /\ revokeBefore = [p \in Persons |-> NoMoment]
    /\ minted = [k \in Keys |-> NoMoment]
    /\ pending = {}
    /\ req = [r \in Requests |-> Idle]
    /\ raced = [r \in Requests |-> FALSE]

OwnerOf(c) == cred[c].owner

\* The owners with a credential; nothing here reads the others.
Involved == {OwnerOf(c) : c \in Credentials}

-----------------------------------------------------------------------------
(* The rule on a presented token.                                          *)

ForwardKeys(r) == {req[r].cred, OwnerOf(req[r].cred)}

\* tokenrevocation.Revoked, its cut-offs; the boundary is inclusive.  These tokens
\* belong to no family.
CutOff(r) == \E k \in ForwardKeys(r) :
    minted[k] # NoMoment /\ req[r].iat <= minted[k]

Issued(r) == req[r].pc = "issued"

\* A verifier's own clock is off by at most RemovalSlack.
WithinLifetime(r) == now - RemovalSlack < req[r].exp + ClockSkew

-----------------------------------------------------------------------------
(* Writers of cut-offs, of owner states and of credential rows.            *)

\* A transaction learns its moment (SharedClock before it begins, now() as it
\* begins, clock_timestamp() under its row lock) and commits later.
Open(kind, key) ==
    /\ pending' = pending \cup {[kind |-> kind, key |-> key, at |-> now]}
    /\ UNCHANGED <<now, owner, verified, cred, revokeBefore, minted, req, raced>>

HasRoom == Cardinality(pending) < MaxPending

Locked(kinds, key) == \E p \in pending : p.kind \in kinds /\ p.key = key

\* IssueUserToken and IssueSAKey: the owner is judged, then the moment is read.
OpenIssue(c) ==
    /\ HasRoom /\ cred[c].state = "none" /\ ~Locked({"issue"}, c)
    /\ owner[OwnerOf(c)] = "active"
    /\ Open("issue", c)

\* Revoke (revoke-all), ForceLogout and every other verb that logs a person out.
OpenCutoff(p) == HasRoom /\ owner[p] # "gone" /\ Open("cutoff", p)

\* Block, idempotent; it holds the row of the person from before it reads its moment.
OpenBlock(p) ==
    /\ HasRoom /\ owner[p] # "gone" /\ ~Locked({"block", "delete"}, p)
    /\ Open("block", p)

\* Delete of a person, under the same row lock.
OpenDelete(p) ==
    /\ HasRoom /\ owner[p] # "gone" /\ ~Locked({"block", "delete"}, p)
    /\ Open("delete", p)

\* Disable of a service account; the moment is the start of the transaction.
OpenDisable(s) == HasRoom /\ ~Locked({"disable"}, s) /\ Open("disable", s)

\* Revoke of one credential: its row is removed.
OpenRemove(c) ==
    /\ HasRoom /\ cred[c].state = "live" /\ ~Locked({"remove"}, c)
    /\ Open("remove", c)

\* Every writer keeps the greater moment.
Raised(table, S, at) == [k \in DOMAIN table |->
                            IF k \in S THEN MaxOf(table[k], at) ELSE table[k]]

CredentialsOf(o) == {c \in Credentials : OwnerOf(c) = o /\ cred[c].state = "live"}

Gone(S) == [c \in Credentials |-> IF c \in S THEN [cred[c] EXCEPT !.state = "gone"]
                                  ELSE cred[c]]

\* The requests a commit of p falls into: those that read, before it, what it changes.
Overtaken(p) ==
    {r \in Requests :
        /\ p.key \in ForwardKeys(r)
        /\ req[r].pc \in IF p.kind \in {"cutoff", "block"} THEN {"weighed", "waiting"}
                         ELSE {"resolved", "weighed", "waiting"}}

Close(p) ==
    /\ pending' = pending \ {p}
    /\ raced' = [r \in Requests |-> raced[r] \/ r \in Overtaken(p)]
    /\ UNCHANGED <<now, verified, req>>

\* commitMapping: the row carries the moment read before its transaction; its foreign
\* key holds it to an owner that is there.
CommitIssue(p) ==
    /\ p.kind = "issue" /\ owner[OwnerOf(p.key)] # "gone"
    /\ \E e \in {NoMoment, FloorSecond(p.at + CredentialTTL)} :
          cred' = [cred EXCEPT ![p.key] =
                      [@ EXCEPT !.state = "live", !.issuedAt = p.at, !.expiresAt = e]]
    /\ pending' = pending \ {p}
    /\ UNCHANGED <<now, owner, verified, revokeBefore, minted, req, raced>>

\* Mutant: the first record is written and the second is left behind.
WriteFirstOnly(p) ==
    /\ revokeBefore' = Raised(revokeBefore, {p.key}, p.at)
    /\ UNCHANGED minted

\* writeBothCutoffs, and the mirror trigger under it.
WriteBothCutoffs(p) ==
    /\ revokeBefore' = Raised(revokeBefore, {p.key}, p.at)
    /\ minted' = Raised(minted, {p.key}, p.at)

CommitCutoff(p) ==
    /\ p.kind = "cutoff" /\ owner[p.key] # "gone"
    /\ WriteBothCutoffs(p) /\ Close(p)
    /\ UNCHANGED <<owner, cred>>

CommitBlock(p) ==
    /\ p.kind = "block"
    /\ owner' = [owner EXCEPT ![p.key] = "off"]
    /\ WriteBothCutoffs(p) /\ Close(p)
    /\ UNCHANGED cred

\* The trigger on service_accounts.enabled fires on the change to FALSE only.
CommitDisable(p) ==
    /\ p.kind = "disable"
    /\ owner' = [owner EXCEPT ![p.key] = "off"]
    /\ minted' = IF owner[p.key] = "active" THEN Raised(minted, {p.key}, p.at) ELSE minted
    /\ Close(p)
    /\ UNCHANGED <<cred, revokeBefore>>

\* The trigger on the removal of a credential row.
CommitRemove(p) ==
    /\ p.kind = "remove" /\ cred[p.key].state = "live"
    /\ cred' = Gone({p.key})
    /\ minted' = Raised(minted, {p.key}, p.at)
    /\ Close(p)
    /\ UNCHANGED <<owner, revokeBefore>>

\* Delete cuts the person off, then cascades to the credentials and the first record.
CommitDelete(p) ==
    /\ p.kind = "delete"
    /\ owner' = [owner EXCEPT ![p.key] = "gone"]
    /\ cred' = Gone(CredentialsOf(p.key))
    /\ revokeBefore' = [revokeBefore EXCEPT ![p.key] = NoMoment]
    /\ minted' = Raised(minted, {p.key} \cup CredentialsOf(p.key), p.at)
    /\ Close(p)

\* The transaction rolls back, or finds its row gone.
Abort(p) ==
    /\ pending' = pending \ {p}
    /\ UNCHANGED <<now, owner, verified, cred, revokeBefore, minted, req, raced>>

\* Unblock waits for the row lock of a block; Enable does not wait for a disable
\* that has begun and has not reached its statement.
Unblock(p) ==
    /\ owner[p] = "off" /\ ~Locked({"block", "delete"}, p)
    /\ owner' = [owner EXCEPT ![p] = "active"]
    /\ UNCHANGED <<now, verified, cred, revokeBefore, minted, pending, req, raced>>

Enable(s) ==
    /\ owner[s] = "off"
    /\ owner' = [owner EXCEPT ![s] = "active"]
    /\ UNCHANGED <<now, verified, cred, revokeBefore, minted, pending, req, raced>>

\* An address is changed, or confirmed.
SetVerified(p) ==
    /\ verified' = [verified EXCEPT ![p] = ~@]
    /\ UNCHANGED <<now, owner, cred, revokeBefore, minted, pending, req, raced>>

\* Mutant: the sweep forgets how long a token lives.
StaleWithoutLifetime(k) ==
    minted[k] # NoMoment /\ minted[k] < now - (ClockSkew + RemovalSlack)

\* SweepStaleCutoffs, with the grace of the retention registry.
Stale(k) ==
    minted[k] # NoMoment /\ minted[k] < now - (TokenTTL + ClockSkew + RemovalSlack)

SweepStaleCutoffs(k) ==
    /\ Stale(k)
    /\ minted' = [minted EXCEPT ![k] = NoMoment]
    /\ UNCHANGED <<now, owner, verified, cred, revokeBefore, pending, req, raced>>

-----------------------------------------------------------------------------
(* A token request.                                                        *)

Move(r, to) == req' = [req EXCEPT ![r] = to]

tables == <<now, owner, verified, cred, revokeBefore, minted, pending>>

\* What Issue leaves of TokenTTL to a client, by the clock of the replica.
Remaining(c, drift) ==
    IF cred[c].expiresAt = NoMoment THEN TokenTTL
    ELSE MinOf(TokenTTL, cred[c].expiresAt - (now + drift))

HasNotExpired(c, drift) == Remaining(c, drift) > 0

\* The client row and its owner are read.
Resolve(r, c) ==
    /\ req[r].pc = "idle"
    /\ cred[c].state = "live" /\ owner[OwnerOf(c)] = "active"
    /\ \E drift \in (-RemovalSlack)..RemovalSlack :
          /\ HasNotExpired(c, drift)
          /\ Move(r, [Idle EXCEPT !.pc = "resolved", !.cred = c,
                                  !.ttl = Remaining(c, drift)])
    /\ raced' = [raced EXCEPT ![r] = FALSE]
    /\ UNCHANGED tables

\* revocationpolicy.Forbids: an authority as old as the cut-off is forbidden.
Forbids(cutoff, anchor) == anchor = NoMoment \/ anchor <= cutoff

\* Mutant: the cut-off that stands is not handed to the signer.
AtIssuanceWithoutCutoff(r) ==
    LET c == req[r].cred  o == OwnerOf(c) IN
    /\ o \in Persons =>
          /\ ~(revokeBefore[o] # NoMoment /\ Forbids(revokeBefore[o], cred[c].issuedAt))
          /\ verified[o]
    /\ Move(r, [req[r] EXCEPT !.pc = "weighed"])

\* revocationpolicy.AtIssuance: a person's cut-off and address are judged and the
\* standing cut-off goes on to the signer; a service account is let through.
AtIssuance(r) ==
    LET c == req[r].cred  o == OwnerOf(c) IN
    /\ o \in Persons =>
          /\ ~(revokeBefore[o] # NoMoment /\ Forbids(revokeBefore[o], cred[c].issuedAt))
          /\ verified[o]
    /\ Move(r, [req[r] EXCEPT !.pc = "weighed",
                              !.cutoff = IF o \in Persons THEN revokeBefore[o] ELSE NoMoment])

Weigh(r) ==
    /\ req[r].pc = "resolved"
    /\ AtIssuance(r)
    /\ UNCHANGED <<tables, raced>>

\* Mutant: the client's own expiry does not bound the token.
ExpiryUnbounded(r, iat) == FloorSecond(iat + req[r].ttl)

\* The expiry Sign puts into the token: whole seconds, never past the client's.
Expiry(r, iat) ==
    LET bound == cred[req[r].cred].expiresAt
        exp   == iat + req[r].ttl
    IN FloorSecond(IF bound # NoMoment THEN MinOf(exp, bound) ELSE exp)

\* The clock is read and the token is signed with its whole second.
Sign(r) ==
    LET iat == FloorSecond(now) IN
    /\ Expiry(r, iat) > iat
    /\ Move(r, [req[r] EXCEPT !.pc = "issued", !.iat = iat, !.exp = Expiry(r, iat)])
    /\ raced' = [raced EXCEPT ![r] = @ \/ \E p \in pending : p.key \in ForwardKeys(r)]
    /\ UNCHANGED tables

AfterCutoff(r) == req[r].cutoff = NoMoment \/ FloorSecond(now) > req[r].cutoff

\* issueMoment, its first reading of the clock.
SignAtOnce(r) == req[r].pc = "weighed" /\ AfterCutoff(r) /\ Sign(r)

\* The second of the cut-off has not passed: wait for the next one, a second at most.
AwaitSecond(r) ==
    /\ req[r].pc = "weighed" /\ ~AfterCutoff(r)
    /\ FloorSecond(req[r].cutoff) + TicksPerSecond - now <= TicksPerSecond
    /\ Move(r, [req[r] EXCEPT !.pc = "waiting"])
    /\ UNCHANGED <<tables, raced>>

\* The second reading decides.
SignAfterWait(r) == req[r].pc = "waiting" /\ AfterCutoff(r) /\ Sign(r)

\* The request is refused, fails, or its caller leaves.
Refuse(r) ==
    /\ req[r].pc \in {"resolved", "weighed", "waiting"}
    /\ Move(r, Idle)
    /\ raced' = [raced EXCEPT ![r] = FALSE]
    /\ UNCHANGED tables

-----------------------------------------------------------------------------
Tick ==
    /\ now < MaxNow
    /\ now' = now + 1
    /\ UNCHANGED <<owner, verified, cred, revokeBefore, minted, pending, req, raced>>

Commit(p) ==
    \/ CommitIssue(p) \/ CommitCutoff(p) \/ CommitBlock(p)
    \/ CommitDisable(p) \/ CommitRemove(p) \/ CommitDelete(p)

Next ==
    \/ Tick
    \/ \E c \in Credentials : OpenIssue(c) \/ OpenRemove(c)
    \/ \E p \in Persons \cap Involved :
          OpenCutoff(p) \/ OpenBlock(p) \/ OpenDelete(p) \/ Unblock(p) \/ SetVerified(p)
    \/ \E s \in ServiceAccounts \cap Involved : OpenDisable(s) \/ Enable(s)
    \/ \E p \in pending : Commit(p) \/ Abort(p)
    \/ \E k \in Keys : SweepStaleCutoffs(k)
    \/ \E r \in Requests, c \in Credentials : Resolve(r, c)
    \/ \E r \in Requests :
          Weigh(r) \/ SignAtOnce(r) \/ AwaitSecond(r) \/ SignAfterWait(r) \/ Refuse(r)

Spec == Init /\ [][Next]_vars

-----------------------------------------------------------------------------
(* Properties.                                                             *)

\* An authority that has ended stays ended: a token of a credential that is gone,
\* of a service account that is off, or of a person cut off after the credential
\* was issued is refused for as long as any verifier would take it, unless the
\* request and the commit of the cut-off overlapped.
EndedAuthorityIsRefused == \A r \in Requests :
    LET c == req[r].cred  o == OwnerOf(c) IN
    (/\ Issued(r) /\ ~raced[r] /\ WithinLifetime(r)
     /\ \/ cred[c].state = "gone"
        \/ o \in ServiceAccounts /\ owner[o] = "off"
        \/ o \in Persons /\ cred[c].issuedAt <= revokeBefore[o])
    => CutOff(r)

\* The sweep of cut-offs brings no token back: once a cut-off refuses a token, the
\* token is refused until its own expiry stops it at every verifier.
SweepRevivesNothing ==
    [][\A r \in Requests : Issued(r) /\ CutOff(r) /\ WithinLifetime(r) => CutOff(r)']_vars

\* A person's token is not refused by the cut-off its issuance was let through by:
\* what the issue of a token allows, its first presentation allows too, unless a
\* cut-off landed in between.
PersonsTokenIsNotBornRevoked ==
    [][\A r \in Requests :
          (Issued(r)' /\ ~Issued(r) /\ OwnerOf(req'[r].cred) \in Persons /\ ~raced[r])
          => ~CutOff(r)']_vars

\* No token at all, a service account's included, is issued at or before a cut-off
\* that stood when it was weighed: what tokenrevocation/rule.go says of every lane.
\* The code does not keep this: see section 7 of the README.
NoTokenIsBornRevoked ==
    [][\A r \in Requests :
          (Issued(r)' /\ ~Issued(r) /\ ~raced[r]) => ~CutOff(r)']_vars

\* A token never outlives the credential it was issued to, whatever the clock of
\* the replica that issued it.
TokenEndsWithItsCredential == \A r \in Requests :
    (Issued(r) /\ cred[req[r].cred].expiresAt # NoMoment)
    => req[r].exp <= cred[req[r].cred].expiresAt
=============================================================================
