------------------------------- MODULE Access -------------------------------
(***************************************************************************)
(* The access manager of internal/access: trusted sign-ins (credentials),  *)
(* sessions and invitations, kept in memory behind one read-write lock     *)
(* (Manager.gate) and in one file (access.json) that every change          *)
(* replaces, and the runtimes that tie open requests to their session.     *)
(*                                                                         *)
(* Every action that takes gate.Lock in the code is one step here, and is  *)
(* enabled only while no operation runs under gate.RLock (reading).  The   *)
(* service, the stopped-service commands, crashes and restarts share the   *)
(* file.  WebAuthn is left to the caller: an assertion or a registration   *)
(* arrives here once it has been verified (see Ceremonies).                *)
(***************************************************************************)
EXTENDS Integers, FiniteSets

CONSTANTS
    Trusts,               \* trust IDs: random, never drawn twice
    Keys,                 \* passkeys (WebAuthn credential IDs)
    Digests,              \* digests of session tokens: never drawn twice
    Invites,              \* digests of invitation tokens: never drawn twice
    Clients,              \* ceremony cookies
    Handlers,             \* HTTP requests being served
    None,                 \* nil, or the empty string
    MaxCredentials, MaxInvitations, MaxAuthorizerInvites,
    MaxSessions, MaxTrustSessions,
    InvitationLifetime, ReservationLifetime, FreshLifetime,
    Lifetimes,            \* session lifetimes the operator may set; None is "none"
    MaxClock,             \* bound on the clock
    MaxStarts,            \* bound on starts of the service or of a command
    MaxFailures           \* bound on failed writes of access.json

ASSUME NoneIsNoName ==
    None \notin Trusts \cup Keys \cup Digests \cup Invites \cup Clients \cup Nat

ASSUME KindsAreDisjoint ==
    /\ Trusts \cap Digests = {} /\ Trusts \cap Invites = {} /\ Digests \cap Invites = {}

ASSUME BoundsAreNaturals ==
    /\ {MaxCredentials, MaxInvitations, MaxAuthorizerInvites, MaxSessions,
        MaxTrustSessions, MaxClock, MaxStarts, MaxFailures} \subseteq Nat
    /\ {InvitationLifetime, ReservationLifetime, FreshLifetime} \subseteq Nat \ {0}
    /\ Lifetimes \subseteq (Nat \ {0}) \cup {None}

\* Bootstrap issues one.
ASSUME AnInvitationFits == MaxInvitations > 0

VARIABLES
    mem,        \* Manager.state
    disk,       \* the contents of access.json
    mode,       \* which process holds access.lock, and how far it is
    clock,      \* Manager.clock
    runtimes,   \* keys of Manager.runtimes
    phase,      \* per request: "idle", "request", or "waiting" in WaitRuntimes
    ident,      \* per request: the SessionIdentity it authenticated as, or None
    bound,      \* requests that hold a SessionLease
    reading,    \* requests inside an operation of WithSessionRead
    waits,      \* per request: sessions whose runtimes it waits for
    loopWait,   \* sessions whose runtimes expiryLoop waits for
    starts, failures

(* History: not in the code, read only by the properties.                  *)
VARIABLES
    minted,     \* names that ever reached the file
    retired,    \* sessions and trusts whose removal was reported as done
    via,        \* per trust: the invitation that registered it
    confirmed,  \* trusts whose registration was reported as done
    refused,    \* trusts whose registration was reported as failed
    rejected    \* validateState once refused what an operation built

storeVars   == <<mem, disk, failures, minted, rejected>>
requestVars == <<phase, ident, bound, reading, waits>>
historyVars == <<retired, via, confirmed, refused>>
vars == <<storeVars, requestVars, historyVars, mode, clock, runtimes, loopWait, starts>>

-----------------------------------------------------------------------------
(* The records of access.json.  FreshTrustID and FreshAt of a session are  *)
(* its TrustID and CreatedAt; an invitation was issued InvitationLifetime  *)
(* before it expires.  Labels, the origin and the user handle are left out.*)

Credential == [trust : Trusts, key : Keys, revoked : BOOLEAN]
Session    == [digest : Digests, trust : Trusts, created : Nat, expires : Nat \cup {None}]
Invitation == [digest : Invites, issuer : Trusts \cup {None}, expires : Nat,
               client : Clients \cup {None}, until : Nat \cup {None}, consumed : BOOLEAN]
State == [creds : SUBSET Credential, sessions : SUBSET Session,
          invites : SUBSET Invitation, lifetime : Lifetimes]

SessionIdentity == [digest : Digests, trust : Trusts]

Active(st)      == {c \in st.creds : ~c.revoked}
ActiveTrusts(st) == {c.trust : c \in Active(st)}
DigestsOf(S)    == {s.digest : s \in S}
Names(st)       == {c.trust : c \in st.creds} \cup DigestsOf(st.sessions) \cup DigestsOf(st.invites)
EmptyState(life) == [creds |-> {}, sessions |-> {}, invites |-> {}, lifetime |-> life]

Expired(s) == s.expires # None /\ clock >= s.expires
Reserved(i) == i.until # None /\ clock < i.until

\* activeSessionLocked for an identity: the record it stands for, while usable
ActiveSessions(id) ==
    {s \in mem.sessions : /\ s.digest = id.digest /\ s.trust = id.trust
                          /\ ~Expired(s) /\ s.trust \in ActiveTrusts(mem)}

\* "used a passkey at most FreshLifetime ago", and that passkey is still trusted
FreshSessions(id) == {s \in ActiveSessions(id) : clock - s.created <= FreshLifetime}

Injective(S, f(_)) == \A x, y \in S : f(x) = f(y) => x = y

ValidInvitation(st, i) ==
    /\ i.issuer # None => i.issuer \in ActiveTrusts(st)
    /\ (i.client = None) <=> (i.until = None)
    /\ i.until # None => i.until > i.expires - InvitationLifetime /\ i.until <= i.expires
    /\ i.consumed => i.until = None

validateState(st) ==
    /\ Cardinality(st.creds) <= MaxCredentials
    /\ Cardinality(st.invites) <= MaxInvitations
    /\ Cardinality(st.sessions) <= MaxSessions
    /\ Injective(st.creds, LAMBDA c : c.trust)
    /\ Injective(st.creds, LAMBDA c : c.key)
    /\ Injective(st.sessions, LAMBDA s : s.digest)
    /\ Injective(st.invites, LAMBDA i : i.digest)
    /\ \A s \in st.sessions :
          /\ s.trust \in ActiveTrusts(st)
          /\ Cardinality({r \in st.sessions : r.trust = s.trust}) <= MaxTrustSessions
    /\ \A i \in st.invites :
          /\ ValidInvitation(st, i)
          /\ i.issuer # None /\ ~i.consumed =>
                Cardinality({j \in st.invites : j.issuer = i.issuer /\ ~j.consumed})
                    <= MaxAuthorizerInvites

pruneInvitations(I) == {i \in I : ~i.consumed /\ clock < i.expires}

\* Mutant: the lifetime is subtracted
newInvitationBackdated(d, issuer) ==
    [digest |-> d, issuer |-> issuer, expires |-> clock - InvitationLifetime,
     client |-> None, until |-> None, consumed |-> FALSE]

newInvitation(d, issuer) ==
    [digest |-> d, issuer |-> issuer, expires |-> clock + InvitationLifetime,
     client |-> None, until |-> None, consumed |-> FALSE]

AddInvitation(st, d, issuer) ==
    [st EXCEPT !.invites = pruneInvitations(@) \cup {newInvitation(d, issuer)}]

WithSessions(st, S) == [st EXCEPT !.sessions = S]

-----------------------------------------------------------------------------
(* commitLocked: validate, write the file, and only then replace the state *)
(* in memory.  A write may fail before the rename, which leaves the old    *)
(* file, or after it, when the directory cannot be opened or synced: the   *)
(* file is then the new one although the caller sees an error.             *)

\* Mutant: an error of the write is dropped and the operation reports success
CommitIgnoringErrors(updated, ok) ==
    /\ ok => validateState(updated)
    /\ rejected' = (rejected \/ ~validateState(updated))
    /\ mem' = IF ok THEN updated ELSE mem
    /\ disk' \in IF validateState(updated) THEN {disk, updated} ELSE {disk}
    /\ failures' = IF disk' = disk THEN failures + 1 ELSE failures
    /\ failures' <= MaxFailures
    /\ minted' = minted \cup Names(disk')

CommitLocked(updated, ok) ==
    /\ ok => validateState(updated)
    /\ rejected' = (rejected \/ ~validateState(updated))
    /\ mem' = IF ok THEN updated ELSE mem
    /\ disk' \in IF ok THEN {updated}
                ELSE IF validateState(updated) THEN {disk, updated} ELSE {disk}
    /\ failures' = IF ok \/ ~validateState(updated) THEN failures ELSE failures + 1
    /\ failures' <= MaxFailures
    /\ minted' = minted \cup Names(disk')

Managed == mode \in {"up", "stopping", "closing", "command"}
Serving == mode \in {"up", "stopping", "closing"}

\* gate.Lock: no operation runs under gate.RLock
GateFree == Managed /\ reading = {}

\* A request that has been admitted, holds no lease and may call the manager
Calling(h) == Serving /\ phase[h] = "request" /\ h \notin bound

\* The call of h ends; on success it waits for the runtimes it cancelled
Settle(h, ok, gone) ==
    /\ runtimes' = IF ok THEN runtimes \ gone ELSE runtimes
    /\ waits' = [waits EXCEPT ![h] = IF ok THEN gone \cap runtimes ELSE {}]
    /\ phase' = [phase EXCEPT ![h] = "waiting"]
    /\ UNCHANGED <<ident, bound, reading>>

-----------------------------------------------------------------------------
(* Sessions and invitations offered to browsers.                           *)

CreateBrowserInvitation(h, d) ==
    /\ GateFree /\ Calling(h) /\ ident[h] # None
    /\ FreshSessions(ident[h]) # {}
    /\ d \notin minted
    /\ LET pruned == pruneInvitations(mem.invites)
           issuer == ident[h].trust
       IN /\ Cardinality(pruned) < MaxInvitations
          /\ Cardinality({i \in pruned : i.issuer = issuer}) < MaxAuthorizerInvites
          /\ \E ok \in BOOLEAN :
                /\ CommitLocked(AddInvitation(mem, d, issuer), ok)
                /\ Settle(h, ok, {})
    /\ UNCHANGED <<historyVars, mode, clock, loopWait, starts>>

\* revokeLocked: the state without the trust's sessions and invitations
Revoked(st, t) ==
    [st EXCEPT !.creds    = {IF c.trust = t THEN [c EXCEPT !.revoked = TRUE] ELSE c : c \in @},
               !.sessions = {s \in @ : s.trust # t},
               !.invites  = {i \in @ : i.issuer # t}]

SessionsOf(st, t) == DigestsOf({s \in st.sessions : s.trust = t})

MayRevoke(t) == Cardinality(Active(mem)) > 1 /\ t \in ActiveTrusts(mem)

\* Mutant: the trusted sign-ins are counted before the gate is taken, so
\* another revocation may commit between the count and this one
RevokeBrowserCountedEarly(h, t) ==
    /\ GateFree /\ Serving /\ h \notin bound /\ ident[h] # None
    /\ FreshSessions(ident[h]) # {}
    /\ \/ /\ phase[h] = "request" /\ MayRevoke(t)
          /\ phase' = [phase EXCEPT ![h] = t]
          /\ UNCHANGED <<storeVars, retired, runtimes, ident, bound, reading, waits>>
       \/ /\ phase[h] = t /\ t \in ActiveTrusts(mem)
          /\ \E ok \in BOOLEAN :
                /\ CommitLocked(Revoked(mem, t), ok)
                /\ Settle(h, ok, SessionsOf(mem, t))
                /\ retired' = IF ok THEN retired \cup {t} \cup SessionsOf(mem, t) ELSE retired
    /\ UNCHANGED <<via, confirmed, refused, mode, clock, loopWait, starts>>

RevokeBrowser(h, t) ==
    /\ GateFree /\ Calling(h) /\ ident[h] # None
    /\ FreshSessions(ident[h]) # {}
    /\ MayRevoke(t)
    /\ \E ok \in BOOLEAN :
          /\ CommitLocked(Revoked(mem, t), ok)
          /\ Settle(h, ok, SessionsOf(mem, t))
          /\ retired' = IF ok THEN retired \cup {t} \cup SessionsOf(mem, t) ELSE retired
    /\ UNCHANGED <<via, confirmed, refused, mode, clock, loopWait, starts>>

SignOut(h) ==
    /\ GateFree /\ Calling(h) /\ ident[h] # None
    /\ \E s \in mem.sessions : s.digest = ident[h].digest /\ s.trust = ident[h].trust
    /\ LET gone == {ident[h].digest}
       IN \E ok \in BOOLEAN :
             /\ CommitLocked(WithSessions(mem, {s \in mem.sessions : s.digest \notin gone}), ok)
             /\ Settle(h, ok, gone)
             /\ retired' = IF ok THEN retired \cup gone ELSE retired
    /\ UNCHANGED <<via, confirmed, refused, mode, clock, loopWait, starts>>

-----------------------------------------------------------------------------
(* addSession: at a limit the oldest sessions in its scope make room.  The *)
(* code breaks a tie of CreatedAt by list order; here any order is allowed.*)

\* Mutant: room is made one session too late
ExcessLate(S, limit) == IF Cardinality(S) > limit THEN Cardinality(S) - limit ELSE 0

Excess(S, limit) == IF Cardinality(S) >= limit THEN Cardinality(S) - limit + 1 ELSE 0

Oldest(S, n) ==
    {E \in SUBSET S : Cardinality(E) = n /\ \A e \in E, s \in S \ E : e.created <= s.created}

Survivors(S, t) ==
    LET own == {s \in S : s.trust = t}
    IN UNION {{(S \ E) \ F : F \in Oldest(S \ E, Excess(S \ E, MaxSessions))} :
              E \in Oldest(own, Excess(own, MaxTrustSessions))}

newSession(d, t, life) ==
    [digest |-> d, trust |-> t, created |-> clock,
     expires |-> IF life = None THEN None ELSE clock + life]

\* The session sets addSession may leave, replacing the session of id if any
AddSession(st, t, d, id) ==
    {S \cup {newSession(d, t, st.lifetime)} :
        S \in Survivors({s \in st.sessions : id = None \/ s.digest # id.digest}, t)}

\* Mutant: the sessions replaced or evicted by the new one are not cancelled
CommitSessionKeeping(h, st, t, d, ok) ==
    /\ d \notin minted
    /\ \E S \in AddSession(st, t, d, ident[h]) :
          LET gone == DigestsOf(mem.sessions) \ DigestsOf(S)
          IN /\ CommitLocked(WithSessions(st, S), ok)
             /\ retired' = IF ok THEN retired \cup gone ELSE retired
             /\ runtimes' = IF ok THEN runtimes \cup {d} ELSE runtimes
             /\ waits' = [waits EXCEPT ![h] = {}]
             /\ phase' = [phase EXCEPT ![h] = "waiting"]
    /\ UNCHANGED <<ident, bound, reading>>

\* Adds a session of t to st for the request h, and commits
CommitSession(h, st, t, d, ok) ==
    /\ d \notin minted
    /\ \E S \in AddSession(st, t, d, ident[h]) :
          LET gone == DigestsOf(mem.sessions) \ DigestsOf(S)
          IN /\ CommitLocked(WithSessions(st, S), ok)
             /\ retired' = IF ok THEN retired \cup gone ELSE retired
             /\ runtimes' = IF ok THEN (runtimes \ gone) \cup {d} ELSE runtimes
             /\ waits' = [waits EXCEPT ![h] = IF ok THEN gone \cap runtimes ELSE {}]
             /\ phase' = [phase EXCEPT ![h] = "waiting"]
    /\ UNCHANGED <<ident, bound, reading>>

\* commitAssertion, for a verified passkey k of trust t
AssertionHolds(h, t, k, reauthentication) ==
    /\ reauthentication => ident[h] # None /\ ActiveSessions(ident[h]) # {}
    /\ \E c \in Active(mem) : c.trust = t /\ c.key = k

CommitAssertion(h, t, k, d, reauthentication, ok) ==
    /\ GateFree /\ Calling(h)
    /\ AssertionHolds(h, t, k, reauthentication)
    /\ CommitSession(h, mem, t, d, ok)
    /\ UNCHANGED <<via, confirmed, refused, mode, clock, loopWait, starts>>

\* usableInvitation: the record of d, its lapsed reservation cleared
UsableInvitations(d, c) ==
    {[i EXCEPT !.client = IF Reserved(i) THEN @ ELSE None,
               !.until  = IF Reserved(i) THEN @ ELSE None] :
        i \in {j \in mem.invites :
                  /\ j.digest = d /\ ~j.consumed /\ clock < j.expires
                  /\ j.issuer # None => j.issuer \in ActiveTrusts(mem)
                  /\ Reserved(j) => j.client = c}}

ReplaceInvitation(st, i) ==
    [st EXCEPT !.invites = {j \in @ : j.digest # i.digest} \cup {i}]

\* BeginTrust, its change of the state: reserve the invitation for the cookie c
ReserveInvitation(h, c, d, ok) ==
    /\ GateFree /\ Calling(h)
    /\ \E i \in UsableInvitations(d, c) :
          /\ LET until == IF clock + ReservationLifetime > i.expires
                          THEN i.expires ELSE clock + ReservationLifetime
             IN CommitLocked(ReplaceInvitation(mem,
                    IF i.until = None THEN [i EXCEPT !.client = c, !.until = until] ELSE i), ok)
          /\ Settle(h, ok, {})
    /\ UNCHANGED <<historyVars, mode, clock, loopWait, starts>>

\* Mutant: the invitation is left as it was
ConsumeNothing(i) == i

Consume(i) == [i EXCEPT !.consumed = TRUE, !.client = None, !.until = None]

\* commitRegistration of the new passkey k as trust t
Registrable(c, i, k) ==
    {inv \in UsableInvitations(i, c) :
        /\ inv.client = c /\ inv.until # None
        /\ Cardinality(Active(mem)) < MaxCredentials
        /\ \A r \in Active(mem) : r.key # k}

\* Revoked records go, the new one comes
Register(st, t, k) ==
    [st EXCEPT !.creds = Active(st) \cup {[trust |-> t, key |-> k, revoked |-> FALSE]}]

CommitRegistration(h, c, i, k, t, d, ok) ==
    /\ GateFree /\ Calling(h)
    /\ t \notin minted
    /\ \E inv \in Registrable(c, i, k) :
          CommitSession(h, Register(ReplaceInvitation(mem, Consume(inv)), t, k), t, d, ok)
    /\ confirmed' = IF ok THEN confirmed \cup {t} ELSE confirmed
    /\ refused' = IF ok THEN refused ELSE refused \cup ({t} \cap Names(disk'))
    /\ via' = IF t \in Names(disk') THEN [via EXCEPT ![t] = i] ELSE via
    /\ UNCHANGED <<mode, clock, loopWait, starts>>

-----------------------------------------------------------------------------
(* Requests: admission, leases, and work done under the gate.              *)

\* accessBoundary or a public route: AuthenticateToken may find a session
Admit(h, id) ==
    /\ mode = "up" /\ phase[h] = "idle"
    /\ id # None => ActiveSessions(id) # {}
    /\ phase' = [phase EXCEPT ![h] = "request"]
    /\ ident' = [ident EXCEPT ![h] = id]
    /\ UNCHANGED <<storeVars, historyVars, bound, reading, waits, mode, clock, runtimes, loopWait, starts>>

\* Mutant: the identity found at admission is trusted at binding time
BindUnchecked(h) ==
    /\ Calling(h) /\ ident[h] # None
    /\ bound' = bound \cup {h}
    /\ UNCHANGED <<storeVars, historyVars, phase, ident, reading, waits, mode, clock, runtimes, loopWait, starts>>

Bind(h) ==
    /\ Calling(h) /\ ident[h] # None
    /\ ActiveSessions(ident[h]) # {}
    /\ ident[h].digest \in runtimes
    /\ bound' = bound \cup {h}
    /\ UNCHANGED <<storeVars, historyVars, phase, ident, reading, waits, mode, clock, runtimes, loopWait, starts>>

\* WithSessionRead: the operation runs while gate.RLock is held
BeginRead(h) ==
    /\ Serving /\ phase[h] = "request" /\ h \notin reading /\ ident[h] # None
    /\ ActiveSessions(ident[h]) # {}
    /\ reading' = reading \cup {h}
    /\ UNCHANGED <<storeVars, historyVars, phase, ident, bound, waits, mode, clock, runtimes, loopWait, starts>>

EndRead(h) ==
    /\ h \in reading
    /\ reading' = reading \ {h}
    /\ UNCHANGED <<storeVars, historyVars, phase, ident, bound, waits, mode, clock, runtimes, loopWait, starts>>

\* The request ends and closes its lease, if it holds one
EndRequest(h) ==
    /\ phase[h] = "request" /\ h \notin reading
    /\ phase' = [phase EXCEPT ![h] = "idle"]
    /\ ident' = [ident EXCEPT ![h] = None]
    /\ bound' = bound \ {h}
    /\ UNCHANGED <<storeVars, historyVars, reading, waits, mode, clock, runtimes, loopWait, starts>>

Leased(D) == \E b \in bound : ident[b].digest \in D

\* WaitRuntimes returns and the handler answers
Report(h) ==
    /\ phase[h] = "waiting"
    /\ ~Leased(waits[h])
    /\ phase' = [phase EXCEPT ![h] = "idle"]
    /\ ident' = [ident EXCEPT ![h] = None]
    /\ waits' = [waits EXCEPT ![h] = {}]
    /\ UNCHANGED <<storeVars, historyVars, bound, reading, mode, clock, runtimes, loopWait, starts>>

-----------------------------------------------------------------------------
(* Expiry.                                                                 *)

Tick ==
    /\ clock < MaxClock
    /\ clock' = clock + 1
    /\ UNCHANGED <<storeVars, requestVars, historyVars, mode, runtimes, loopWait, starts>>

\* expireNow drops the expired sessions in one commit
ExpireSessions(ok) ==
    LET gone == DigestsOf({s \in mem.sessions : Expired(s)})
    IN /\ gone # {}
       /\ CommitLocked(WithSessions(mem, {s \in mem.sessions : ~Expired(s)}), ok)
       /\ retired' = IF ok THEN retired \cup gone ELSE retired
       /\ UNCHANGED <<via, confirmed, refused>>

\* Mutant: the loop waits for open streams before it drops the sessions
expiryLoopWaitingFirst ==
    /\ GateFree /\ mode # "closing" /\ loopWait = {} /\ bound = {}
    /\ \E ok \in BOOLEAN :
          /\ ExpireSessions(ok)
          /\ runtimes' = IF ok THEN runtimes \ DigestsOf({s \in mem.sessions : Expired(s)}) ELSE runtimes
    /\ UNCHANGED <<requestVars, loopWait, mode, clock, starts>>

expiryLoop ==
    /\ GateFree /\ mode # "closing" /\ loopWait = {}
    /\ LET gone == DigestsOf({s \in mem.sessions : Expired(s)})
       IN \E ok \in BOOLEAN :
             /\ ExpireSessions(ok)
             /\ runtimes' = IF ok THEN runtimes \ gone ELSE runtimes
             /\ loopWait' = IF ok THEN gone \cap runtimes ELSE {}
    /\ UNCHANGED <<requestVars, mode, clock, starts>>

LoopWaited ==
    /\ loopWait # {} /\ ~Leased(loopWait)
    /\ loopWait' = {}
    /\ UNCHANGED <<storeVars, requestVars, historyVars, mode, clock, runtimes, starts>>

-----------------------------------------------------------------------------
(* Processes: access.lock admits one at a time.                            *)

\* OpenProtected: prune, keep or set the lifetime, and bootstrap when nobody
\* is trusted and no invitation is left; write only what changed
OpenProtected(set, life, d) ==
    /\ mode = "down" /\ starts < MaxStarts
    /\ starts' = starts + 1
    /\ LET kept == [disk EXCEPT !.invites = pruneInvitations(@),
                                !.lifetime = IF set THEN life ELSE @]
           bootstrap == Active(kept) = {} /\ kept.invites = {}
           opened == [kept EXCEPT !.invites = IF bootstrap THEN {newInvitation(d, None)} ELSE @]
       IN /\ bootstrap => d \notin minted
          /\ \E ok \in BOOLEAN :
                /\ IF set \/ opened # disk
                   THEN CommitLocked(opened, ok)
                   ELSE ok /\ mem' = disk /\ UNCHANGED <<disk, failures, minted, rejected>>
                /\ mode' = IF ok THEN "opened" ELSE "down"
    /\ UNCHANGED <<requestVars, historyVars, clock, runtimes, loopWait>>

\* OpenExistingStopped, for shepherdr access invite|revoke|reset
OpenExistingStopped ==
    /\ mode = "down" /\ starts < MaxStarts
    /\ starts' = starts + 1
    /\ mem' = disk
    /\ mode' = "commandopened"
    /\ UNCHANGED <<disk, failures, minted, rejected, requestVars, historyVars, clock, runtimes, loopWait>>

\* NewManager: a runtime for every session, then expireNow; its failure ends the start
NewManager ==
    /\ mode \in {"opened", "commandopened"}
    /\ LET gone == DigestsOf({s \in mem.sessions : Expired(s)})
           ready == IF mode = "opened" THEN "up" ELSE "command"
       IN \/ /\ gone = {}
             /\ mode' = ready
             /\ runtimes' = DigestsOf(mem.sessions)
             /\ UNCHANGED <<storeVars, historyVars>>
          \/ \E ok \in BOOLEAN :
                /\ ExpireSessions(ok)
                /\ mode' = IF ok THEN ready ELSE "down"
                /\ runtimes' = IF ok THEN DigestsOf(mem.sessions) \ gone ELSE {}
    /\ UNCHANGED <<requestVars, clock, loopWait, starts>>

\* The three commands change the state once and then close the manager
CreateLocalInvitation(d) ==
    /\ mode = "command" /\ GateFree /\ d \notin minted
    /\ LET pruned == pruneInvitations(mem.invites)
       IN /\ Cardinality(pruned) < MaxInvitations
          /\ \E ok \in BOOLEAN :
                CommitLocked(AddInvitation(mem, d, None), ok)
    /\ mode' = "stopping"
    /\ UNCHANGED <<requestVars, historyVars, clock, runtimes, loopWait, starts>>

RevokeLocal(t) ==
    /\ mode = "command" /\ GateFree /\ MayRevoke(t)
    /\ \E ok \in BOOLEAN :
          /\ CommitLocked(Revoked(mem, t), ok)
          /\ runtimes' = IF ok THEN runtimes \ SessionsOf(mem, t) ELSE runtimes
          /\ retired' = IF ok THEN retired \cup {t} \cup SessionsOf(mem, t) ELSE retired
    /\ mode' = "stopping"
    /\ UNCHANGED <<requestVars, via, confirmed, refused, clock, loopWait, starts>>

Reset ==
    /\ mode = "command" /\ GateFree
    /\ \E ok \in BOOLEAN :
          /\ CommitLocked(EmptyState(mem.lifetime), ok)
          /\ runtimes' = IF ok THEN runtimes \ DigestsOf(mem.sessions) ELSE runtimes
          /\ retired' = IF ok THEN retired \cup {c.trust : c \in mem.creds} \cup DigestsOf(mem.sessions)
                              ELSE retired
    /\ mode' = "stopping"
    /\ UNCHANGED <<requestVars, via, confirmed, refused, clock, loopWait, starts>>

\* A signal, or the end of a command, closes Manager.stop
StopLoop ==
    /\ mode \in {"up", "command"}
    /\ mode' = "stopping"
    /\ UNCHANGED <<storeVars, requestVars, historyVars, clock, runtimes, loopWait, starts>>

\* Close: once expiryLoop has stopped, every runtime is cancelled
CancelAll ==
    /\ mode = "stopping" /\ loopWait = {}
    /\ mode' = "closing"
    /\ UNCHANGED <<storeVars, requestVars, historyVars, clock, runtimes, loopWait, starts>>

Gone ==
    /\ mode' = "down"
    /\ runtimes' = {} /\ loopWait' = {} /\ bound' = {} /\ reading' = {}
    /\ phase' = [h \in Handlers |-> "idle"]
    /\ ident' = [h \in Handlers |-> None]
    /\ waits' = [h \in Handlers |-> {}]
    /\ UNCHANGED <<storeVars, historyVars, clock, starts>>

\* Close returns once the cancelled runtimes hold no lease; the process ends
Closed == mode = "closing" /\ bound = {} /\ Gone

Crash == mode # "down" /\ Gone

-----------------------------------------------------------------------------
\* An installation that has no trusted sign-in yet, or was reset
Init ==
    /\ \E life \in Lifetimes : disk = EmptyState(life) /\ mem = EmptyState(life)
    /\ mode = "down" /\ clock = 0 /\ starts = 0 /\ failures = 0
    /\ runtimes = {} /\ loopWait = {} /\ bound = {} /\ reading = {}
    /\ phase = [h \in Handlers |-> "idle"]
    /\ ident = [h \in Handlers |-> None]
    /\ waits = [h \in Handlers |-> {}]
    /\ minted = {} /\ retired = {} /\ confirmed = {} /\ refused = {} /\ rejected = FALSE
    /\ via = [t \in Trusts |-> None]

BrowserStep(h) ==
    \/ \E d \in Invites : CreateBrowserInvitation(h, d)
    \/ \E t \in Trusts : RevokeBrowser(h, t)
    \/ SignOut(h)
    \/ \E c \in Clients, d \in Invites, ok \in BOOLEAN : ReserveInvitation(h, c, d, ok)
    \/ \E t \in Trusts, k \in Keys, d \in Digests, re, ok \in BOOLEAN :
          CommitAssertion(h, t, k, d, re, ok)
    \/ \E c \in Clients, i \in Invites, k \in Keys, t \in Trusts, d \in Digests, ok \in BOOLEAN :
          CommitRegistration(h, c, i, k, t, d, ok)

RequestStep(h) ==
    \/ \E id \in {[digest |-> s.digest, trust |-> s.trust] : s \in mem.sessions} \cup {None} : Admit(h, id)
    \/ Bind(h) \/ BeginRead(h) \/ EndRead(h) \/ EndRequest(h) \/ Report(h)

ProcessStep ==
    \/ \E set \in BOOLEAN, life \in Lifetimes, d \in Invites : OpenProtected(set, life, d)
    \/ OpenExistingStopped \/ NewManager
    \/ \E d \in Invites : CreateLocalInvitation(d)
    \/ \E t \in Trusts : RevokeLocal(t)
    \/ Reset \/ StopLoop \/ CancelAll \/ Closed \/ Crash

Next ==
    \/ \E h \in Handlers : BrowserStep(h) \/ RequestStep(h)
    \/ Tick \/ expiryLoop \/ LoopWaited
    \/ ProcessStep

Spec == Init /\ [][Next]_vars

-----------------------------------------------------------------------------
(* Properties.                                                             *)

TypeOK ==
    /\ mem \in State /\ disk \in State
    /\ mode \in {"down", "opened", "commandopened", "up", "command", "stopping", "closing"}
    /\ clock \in Nat /\ starts \in Nat /\ failures \in Nat
    /\ runtimes \subseteq Digests /\ loopWait \subseteq Digests
    /\ phase \in [Handlers -> {"idle", "request", "waiting"}]
    /\ ident \in [Handlers -> SessionIdentity \cup {None}]
    /\ bound \subseteq Handlers /\ reading \subseteq Handlers
    /\ waits \in [Handlers -> SUBSET Digests]
    /\ minted \subseteq Trusts \cup Digests \cup Invites
    /\ retired \subseteq Trusts \cup Digests
    /\ via \in [Trusts -> Invites \cup {None}]
    /\ confirmed \subseteq Trusts /\ refused \subseteq Trusts
    /\ rejected \in BOOLEAN

\* No operation ever builds a state that validateState refuses: limits,
\* uniqueness and ownership hold because the operations keep them (pruning,
\* eviction, revocation), not because commitLocked turns them away.
ValidationNeverRefuses == ~rejected

\* Manager.runtimes holds exactly the sessions in memory, so each session can
\* be bound and each removed session had its context cancelled, whichever of
\* sign-out, rotation, eviction, expiry, revocation or a restart removed it.
RuntimesMatchSessions == Managed => runtimes = DigestsOf(mem.sessions)

Cancelled(d) == d \notin runtimes \/ mode = "closing"

HasRecord(id) ==
    /\ \E s \in mem.sessions : s.digest = id.digest /\ s.trust = id.trust
    /\ id.trust \in ActiveTrusts(mem)

\* A lease whose context is not cancelled still stands for a session of a
\* trusted sign-in: Home and Terminal streams never outlive their authority
\* without being told to stop.
LeasesHaveAuthority ==
    \A h \in bound : ident[h] # None /\ (Cancelled(ident[h].digest) \/ HasRecord(ident[h]))

\* While an operation of WithSessionRead runs, its session is still recorded
\* and its trusted sign-in active: no revocation, sign-out or rotation happens
\* between the check and the end of the work it guards.
ReadsHaveAuthority == \A h \in reading : ident[h] # None /\ HasRecord(ident[h])

\* A session or trusted sign-in whose removal was reported as done never
\* comes back, in memory or in the file, whatever writes fail and whenever
\* the process crashes.
RetiredStaysRetired ==
    \A st \in {mem, disk} :
       /\ retired \cap DigestsOf(st.sessions) = {}
       /\ retired \cap ActiveTrusts(st) = {}

\* A lease of a removed session is being waited for by the handler or by the
\* expiry loop that removed it: success is reported only after the streams of
\* the session have closed.
RemovalsAreAwaited ==
    \A h \in bound : ident[h].digest \in retired =>
        ident[h].digest \in loopWait \cup UNION {waits[g] : g \in Handlers}

\* An invitation registers at most one trusted sign-in, counting the ones in
\* memory and every one ever reported as done, across failed writes and
\* restarts.
InvitationsAreSingleUse ==
    Managed => \A t, u \in confirmed \cup {c.trust : c \in mem.creds} :
                  via[t] = via[u] => t = u

\* Only reset takes away the last trusted sign-in: revocations that two requests
\* of one or of two browsers carry out at once, each allowed by itself, leave one
\* (manager.go:333-370), whatever writes fail and whichever process has the file.
FinalTrustRemains ==
    [][Managed /\ Managed' /\ Active(mem) # {} => Active(mem') # {} \/ Reset]_vars

\* docs/passkey-device-architecture-proposal.md: "Persistence failure accepts
\* none of those changes": a registration reported as failed never becomes a
\* trusted sign-in.
FailedRegistrationsStayOut == Managed => refused \cap ActiveTrusts(mem) = {}

-----------------------------------------------------------------------------
(* Fairness.  A handler whose context was cancelled returns; operations    *)
(* under gate.RLock end; WaitRuntimes returns when it can; the ticker of   *)
(* expiryLoop fires again and again, and Go's RWMutex makes new readers    *)
(* wait behind a waiting writer: the gate is free of readers again and     *)
(* again, and the writer then gets in, hence strong fairness.              *)

EndCancelled(h) == h \in bound /\ Cancelled(ident[h].digest) /\ EndRequest(h)

Fairness ==
    /\ \A h \in Handlers :
          WF_vars(EndRead(h)) /\ SF_vars(EndCancelled(h)) /\ WF_vars(Report(h))
    /\ WF_vars(LoopWaited) /\ SF_vars(expiryLoop)
    /\ []<>(reading = {})

FairSpec == Spec /\ Fairness

\* Every sign-out, rotation and revocation is answered: waiting for the
\* streams of the removed sessions always ends.
RemovalsAreAnswered == \A h \in Handlers : phase[h] = "waiting" ~> phase[h] # "waiting"

\* An expired session is dropped, with its runtime, while the service is up:
\* the expiry loop is never stuck for good behind a stream it waits for.
ExpiredSessionsEnd ==
    \A d \in Digests :
        (mode = "up" /\ \E s \in mem.sessions : s.digest = d /\ Expired(s))
            ~> (mode # "up" \/ d \notin runtimes)

\* Whatever waits for the streams of removed sessions goes on: the request that
\* removed them, and the loop that drops expired ones (manager.go:465-540).
RemovalsEnd == RemovalsAreAnswered /\ ExpiredSessionsEnd

=============================================================================
