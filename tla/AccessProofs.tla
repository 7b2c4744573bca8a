---------------------------- MODULE AccessProofs ----------------------------
(***************************************************************************)
(* Proofs about modules Access and Ceremonies, for every set of names,     *)
(* every limit and every lifetime.                                         *)
(*                                                                         *)
(* Inv is the inductive invariant of Access.  What makes it inductive is   *)
(* that names are drawn once (Minted), that nothing is open outside a      *)
(* serving process (Quiet), and that an operation changes the state only   *)
(* by dropping authority or by adding names that were never used (Grows).  *)
(* AwaitInv adds who waits for the streams of removed sessions, and        *)
(* AcceptInv that both copies of the state keep every limit (Sound).       *)
(*                                                                         *)
(* The ceremonies only ever do to the access state what Access allows, so  *)
(* all of this holds of the composition; CeremonyInv, in the second part,  *)
(* adds to Inv what ties ceremonies, attempt windows, finishes and         *)
(* reservations together.                                                  *)
(***************************************************************************)
EXTENDS Ceremonies, FiniteSetTheorems, TLAPS

Open(st)    == DigestsOf({i \in st.invites : ~i.consumed})
Trusted(st) == {c.trust : c \in st.creds}

\* Both copies of the state have passed validateState.
Valid == validateState(mem) /\ validateState(disk)

\* Every name in use, and every name the history speaks of, has been minted.
Minted ==
    /\ Names(mem) \subseteq minted /\ Names(disk) \subseteq minted
    /\ retired \subseteq minted /\ confirmed \subseteq minted
    /\ \A t \in Trusts : via[t] \in minted \cup {None}
    /\ \A h \in Handlers : ident[h] # None => ident[h].digest \in minted

\* Leases and reads belong to requests under way in a process that serves them.
Quiet ==
    /\ ~Serving => bound = {} /\ reading = {}
    /\ \A h \in bound \cup reading : phase[h] = "request"

\* The trusts that count for single use in st came from different invitations,
\* none of which can be used again.
UsedOnce(st) ==
    /\ \A t, u \in confirmed \cup Trusted(st) : via[t] = via[u] => t = u
    /\ \A t \in confirmed \cup Trusted(st) : via[t] \notin Open(st)

SingleUse == UsedOnce(mem) /\ UsedOnce(disk)

Inv ==
    /\ TypeOK /\ Valid /\ Minted /\ Quiet /\ SingleUse
    /\ RuntimesMatchSessions /\ LeasesHaveAuthority /\ ReadsHaveAuthority
    /\ RetiredStaysRetired

-----------------------------------------------------------------------------
(* What a commit keeps, whatever operation built the state u.              *)

\* The part of Inv that speaks of the store and of the retired names.
StoreInv ==
    /\ mem \in State /\ disk \in State /\ failures \in Nat /\ rejected \in BOOLEAN
    /\ minted \subseteq Trusts \cup Digests \cup Invites
    /\ retired \subseteq Trusts \cup Digests
    /\ Names(mem) \subseteq minted /\ Names(disk) \subseteq minted /\ retired \subseteq minted
    /\ Valid /\ RetiredStaysRetired

\* u is st with authority dropped and with names of the set new added.
Grows(u, st, new) ==
    /\ Trusted(u) \subseteq Trusted(st) \cup new
    /\ ActiveTrusts(u) \subseteq ActiveTrusts(st) \cup new
    /\ \A s \in u.sessions : s \in st.sessions \/ s.digest \in new
    /\ Open(u) \subseteq Open(st) \cup new

\* The names in gone have no authority in u.
Absent(gone, u) ==
    /\ gone \subseteq minted \cap (Trusts \cup Digests)
    /\ gone \cap DigestsOf(u.sessions) = {}
    /\ gone \cap ActiveTrusts(u) = {}

\* validateState allows one session per digest.
LEMMA SessionDigestsDiffer ==
    ASSUME NEW st, validateState(st)
    PROVE  \A r, s \in st.sessions : r.digest = s.digest => r = s
BY DEF validateState, Injective

\* validateState allows only sessions of active trusted sign-ins.
LEMMA SessionsAreTrusted ==
    ASSUME NEW st, validateState(st)
    PROVE  \A s \in st.sessions : s.trust \in ActiveTrusts(st)
BY DEF validateState, Injective

\* A new or reset file passes validateState.
LEMMA EmptyStateIsValid ==
    ASSUME NEW life \in Lifetimes
    PROVE  EmptyState(life) \in State /\ validateState(EmptyState(life))
<1>1. EmptyState(life) \in State
  BY DEF EmptyState, State
<1>2. Cardinality({}) = 0
  BY FS_EmptySet
<1> QED BY <1>1, <1>2, BoundsAreNaturals DEF EmptyState, validateState, Injective

\* The names of a state are trusts, digests and invitations, each where its kind belongs.
LEMMA NamesAreNames ==
    ASSUME NEW st \in State
    PROVE  /\ Names(st) \subseteq Trusts \cup Digests \cup Invites
           /\ Trusted(st) \subseteq Trusts \cap Names(st)
           /\ ActiveTrusts(st) \subseteq Trusted(st)
           /\ DigestsOf(st.sessions) \subseteq Digests \cap Names(st)
           /\ Open(st) \subseteq Invites \cap Names(st)
BY DEF State, Names, DigestsOf, Open, Trusted, ActiveTrusts, Active, Credential, Session, Invitation

\* The inductive invariant includes its part about the store.
LEMMA InvGivesStoreInv == Inv => StoreInv
BY DEF Inv, StoreInv, TypeOK, Minted

\* commitLocked keeps the store valid and the retired names out of it, whether the
\* write succeeds, fails before its rename or fails after it.
LEMMA CommitStep ==
    ASSUME StoreInv, NEW u \in State, NEW ok \in BOOLEAN, CommitLocked(u, ok),
           NEW st \in {mem, disk}, NEW new, new \cap minted = {}, Grows(u, st, new),
           NEW gone, Absent(gone, u),
           retired' = IF ok THEN retired \cup gone ELSE retired
    PROVE  StoreInv' /\ minted \subseteq minted'
<1>1. /\ mem' \in {mem, u} /\ disk' \in {disk, u}
      /\ ok => mem' = u /\ disk' = u
      /\ ~ok => mem' = mem
      /\ minted' = minted \cup Names(disk')
  BY DEF CommitLocked
<1>2. mem' \in State /\ disk' \in State /\ failures' \in Nat /\ rejected' \in BOOLEAN
  BY DEF CommitLocked, StoreInv
<1>3. minted' \subseteq Trusts \cup Digests \cup Invites
  BY <1>1, <1>2, NamesAreNames DEF StoreInv
<1>4. /\ retired' \subseteq Trusts \cup Digests /\ minted \subseteq minted'
      /\ retired' \subseteq minted'
  BY <1>1 DEF StoreInv, Absent
<1>5. Names(mem') \subseteq minted' /\ Names(disk') \subseteq minted'
  BY <1>1 DEF StoreInv
<1>6. Valid'
  BY DEF Valid, CommitLocked, StoreInv
<1>7. retired \cap DigestsOf(u.sessions) = {} /\ retired \cap ActiveTrusts(u) = {}
  BY DEF StoreInv, RetiredStaysRetired, Grows, DigestsOf
<1>8. RetiredStaysRetired'
  <2>1. CASE ok
    BY <1>1, <1>7, <2>1 DEF Absent, RetiredStaysRetired
  <2>2. CASE ~ok
    BY <1>1, <1>7, <2>2 DEF StoreInv, RetiredStaysRetired
  <2> QED BY <2>1, <2>2
<1> QED BY <1>2, <1>3, <1>4, <1>5, <1>6, <1>8 DEF StoreInv

\* A commit that registers nobody leaves every invitation used at most once.
LEMMA CommitKeepsSingleUse ==
    ASSUME Inv, NEW u \in State, NEW ok \in BOOLEAN, CommitLocked(u, ok),
           NEW st \in {mem, disk}, NEW new, new \cap minted = {}, new \cap Trusts = {},
           Grows(u, st, new), UNCHANGED <<confirmed, via>>
    PROVE  SingleUse'
<1>1. mem' \in {mem, u} /\ disk' \in {disk, u}
  BY DEF CommitLocked
<1>2. UsedOnce(u)
  <2>1. UsedOnce(st)
    BY DEF Inv, SingleUse
  <2>2. Trusted(u) \subseteq Trusted(st) /\ Trusted(u) \subseteq Trusts
    BY NamesAreNames DEF Grows
  <2>3. \A t \in Trusts : via[t] \notin new \/ via[t] \notin Open(u)
    BY NamesAreNames, NoneIsNoName DEF Inv, Minted
  <2>4. confirmed \subseteq Trusts
    BY DEF Inv, TypeOK
  <2> QED BY <2>1, <2>2, <2>3, <2>4 DEF UsedOnce, Grows
<1> QED BY <1>1, <1>2 DEF SingleUse, UsedOnce, Inv

\* A commit cancels the leases of the sessions it drops, so the others have authority.
LEMMA CommitKeepsLeases ==
    ASSUME Inv, Managed, NEW u \in State, NEW ok \in BOOLEAN, CommitLocked(u, ok),
           NEW new, new \cap minted = {}, Grows(u, mem, new), Valid',
           runtimes' = DigestsOf(mem'.sessions), UNCHANGED <<ident, bound>>,
           mode = "closing" => mode' = "closing"
    PROVE  LeasesHaveAuthority'
<1> SUFFICES ASSUME NEW h \in bound, ident[h].digest \in DigestsOf(mem'.sessions),
                    mode # "closing"
             PROVE  ident[h] # None /\ HasRecord(ident[h])'
  BY DEF LeasesHaveAuthority, Cancelled, Inv
<1>1. PICK s \in mem'.sessions : s.digest = ident[h].digest
  BY DEF DigestsOf
<1>2. ident[h] # None /\ ident[h].digest \in minted
  BY DEF Inv, LeasesHaveAuthority, Minted, TypeOK
<1>3. mem' \in {mem, u}
  BY DEF CommitLocked
<1>4. s \in mem.sessions
  BY <1>1, <1>2, <1>3 DEF Grows
<1>5. HasRecord(ident[h])
  BY <1>1, <1>4 DEF Inv, LeasesHaveAuthority, Cancelled, RuntimesMatchSessions, DigestsOf
<1>6. s.trust = ident[h].trust
  BY <1>1, <1>4, <1>5, SessionDigestsDiffer DEF HasRecord, Inv, Valid
<1>7. s.trust \in ActiveTrusts(mem')
  BY <1>1, SessionsAreTrusted DEF Valid
<1> QED BY <1>1, <1>2, <1>6, <1>7 DEF HasRecord

\* A commit of a running manager that only drops authority or adds new names keeps Inv.
LEMMA ManagedCommit ==
    ASSUME Inv, GateFree, NEW u \in State, NEW ok \in BOOLEAN, CommitLocked(u, ok),
           NEW new, new \cap minted = {}, Grows(u, mem, new),
           NEW gone, Absent(gone, u),
           retired' = IF ok THEN retired \cup gone ELSE retired,
           runtimes' = DigestsOf(mem'.sessions), UNCHANGED <<ident, bound, reading, clock, starts>>,
           mode' = mode \/ (mode = "command" /\ mode' = "stopping"),
           phase' \in [Handlers -> {"idle", "request", "waiting"}],
           \A h \in bound : phase'[h] = phase[h],
           waits' \in [Handlers -> SUBSET Digests], loopWait' \subseteq Digests,
           \/ new \cap Trusts = {} /\ UNCHANGED <<confirmed, via, refused>>
           \/ /\ SingleUse' /\ confirmed' \subseteq Trusts \cap minted' /\ refused' \subseteq Trusts
              /\ via' \in [Trusts -> Invites \cup {None}]
              /\ \A t \in Trusts : via'[t] \in minted' \cup {None}
    PROVE  Inv'
<1>1. StoreInv' /\ minted \subseteq minted'
  BY InvGivesStoreInv, CommitStep
<1>2. SingleUse'
  BY CommitKeepsSingleUse
<1>3. Minted'
  BY <1>1 DEF StoreInv, Inv, Minted, TypeOK
<1>4. runtimes' \subseteq Digests
  BY <1>1, NamesAreNames DEF StoreInv
<1>5. TypeOK'
  BY <1>1, <1>4 DEF StoreInv, Inv, TypeOK
<1>6. LeasesHaveAuthority'
  BY <1>1, CommitKeepsLeases DEF GateFree, StoreInv
<1>7. Quiet' /\ RuntimesMatchSessions' /\ ReadsHaveAuthority'
  BY DEF Inv, Quiet, Serving, GateFree, RuntimesMatchSessions, ReadsHaveAuthority
<1> QED BY <1>1, <1>2, <1>3, <1>5, <1>6, <1>7 DEF Inv, StoreInv

\* A step that leaves the store, the history and the runtimes alone.
LEMMA StoreUnchanged ==
    ASSUME Inv, UNCHANGED <<storeVars, historyVars>>
    PROVE  StoreInv' /\ SingleUse'
<1>1. StoreInv'
  BY InvGivesStoreInv DEF StoreInv, storeVars, historyVars, Valid, RetiredStaysRetired
<1>2. SingleUse'
  BY DEF Inv, SingleUse, UsedOnce, storeVars, historyVars
<1> QED BY <1>1, <1>2

-----------------------------------------------------------------------------
(* The states the operations build.                                        *)

\* A created invitation adds its digest and no other authority.
LEMMA InvitationAdded ==
    ASSUME NEW st \in State, NEW d \in Invites, NEW issuer \in Trusts \cup {None}, clock \in Nat
    PROVE  /\ AddInvitation(st, d, issuer) \in State
           /\ Grows(AddInvitation(st, d, issuer), st, {d})
           /\ AddInvitation(st, d, issuer).sessions = st.sessions
<1> DEFINE u == AddInvitation(st, d, issuer)
<1>0. /\ u.invites = pruneInvitations(st.invites) \cup {newInvitation(d, issuer)}
      /\ u.creds = st.creds /\ u.sessions = st.sessions /\ u.lifetime = st.lifetime
  BY DEF AddInvitation, State
<1>1. newInvitation(d, issuer) \in Invitation /\ newInvitation(d, issuer).digest = d
  BY BoundsAreNaturals DEF newInvitation, Invitation
<1>2. u \in State
  BY <1>1 DEF State, pruneInvitations, AddInvitation
<1>3. Trusted(u) = Trusted(st) /\ ActiveTrusts(u) = ActiveTrusts(st) /\ u.sessions = st.sessions
  BY <1>0 DEF Trusted, ActiveTrusts, Active
<1>4. Open(u) \subseteq Open(st) \cup {d}
  BY <1>0, <1>1 DEF Open, DigestsOf, pruneInvitations
<1> QED BY <1>2, <1>3, <1>4 DEF Grows

\* Removing sessions drops authority only.
LEMMA SessionsDropped ==
    ASSUME NEW st \in State, NEW S \in SUBSET st.sessions
    PROVE  /\ WithSessions(st, S) \in State /\ Grows(WithSessions(st, S), st, {})
           /\ WithSessions(st, S).sessions = S
BY DEF WithSessions, State, Grows, Trusted, ActiveTrusts, Active, Open, DigestsOf

\* Revocation removes the trusted sign-in, its sessions and its invitations, and adds nothing.
LEMMA TrustRevoked ==
    ASSUME NEW st \in State, validateState(st), NEW t \in Trusts
    PROVE  /\ Revoked(st, t) \in State /\ Grows(Revoked(st, t), st, {})
           /\ t \notin ActiveTrusts(Revoked(st, t))
           /\ DigestsOf(Revoked(st, t).sessions) = DigestsOf(st.sessions) \ SessionsOf(st, t)
<1> DEFINE u == Revoked(st, t)
<1>1. /\ u.creds = {IF c.trust = t THEN [c EXCEPT !.revoked = TRUE] ELSE c : c \in st.creds}
      /\ u.sessions = {s \in st.sessions : s.trust # t}
      /\ u.invites = {i \in st.invites : i.issuer # t}
  BY DEF Revoked, State
<1>2. \A c \in st.creds : /\ c \in Credential /\ [c EXCEPT !.revoked = TRUE] \in Credential
                           /\ [c EXCEPT !.revoked = TRUE].trust = c.trust
                           /\ [c EXCEPT !.revoked = TRUE].revoked
  BY DEF State, Credential
<1>3. u.creds \subseteq Credential
  BY <1>1, <1>2
<1>4. u \in State
  BY <1>1, <1>3 DEF State, Revoked
<1>5. Trusted(u) \subseteq Trusted(st)
  <2>1. \A b \in u.creds : \E c \in st.creds : b.trust = c.trust
    BY <1>1, <1>2
  <2> QED BY <2>1 DEF Trusted
<1>6. \A c \in u.creds : ~c.revoked => c \in st.creds /\ c.trust # t
  BY <1>1, <1>2
<1>7. ActiveTrusts(u) \subseteq ActiveTrusts(st) /\ t \notin ActiveTrusts(u)
  BY <1>6 DEF ActiveTrusts, Active
<1>8. Open(u) \subseteq Open(st)
  BY <1>1 DEF Open, DigestsOf
<1>9. DigestsOf(u.sessions) = DigestsOf(st.sessions) \ SessionsOf(st, t)
  BY <1>1, SessionDigestsDiffer DEF DigestsOf, SessionsOf
<1> QED BY <1>1, <1>4, <1>5, <1>7, <1>8, <1>9 DEF Grows

\* addSession keeps or evicts recorded sessions and adds exactly the new one.
LEMMA SessionAdded ==
    ASSUME NEW st \in State, NEW t \in Trusts, NEW d \in Digests, NEW id, clock \in Nat,
           NEW S \in AddSession(st, t, d, id)
    PROVE  /\ S \subseteq Session /\ \A s \in S : s \in st.sessions \/ s.digest = d
           /\ \E s \in S : s.digest = d
<1>1. newSession(d, t, st.lifetime) \in Session /\ newSession(d, t, st.lifetime).digest = d
  <2>1. st.lifetime \in Nat \cup {None}
    BY BoundsAreNaturals DEF State
  <2>2. (IF st.lifetime = None THEN None ELSE clock + st.lifetime) \in Nat \cup {None}
    BY <2>1
  <2> QED BY <2>2 DEF newSession, Session
<1>2. ASSUME NEW X, NEW R \in Survivors(X, t)
      PROVE  R \subseteq X
  <2> DEFINE own == {s \in X : s.trust = t}
             Left(E) == {(X \ E) \ F : F \in Oldest(X \ E, Excess(X \ E, MaxSessions))}
  <2>1. R \in UNION {Left(E) : E \in Oldest(own, Excess(own, MaxTrustSessions))}
    BY DEF Survivors
  <2> HIDE DEF Left
  <2>2. PICK E : R \in Left(E)
    BY <2>1
  <2> QED BY <2>2 DEF Left
<1> DEFINE X == {s \in st.sessions : id = None \/ s.digest # id.digest}
<1>3. PICK R \in Survivors(X, t) : S = R \cup {newSession(d, t, st.lifetime)}
  BY Zenon DEF AddSession
<1>4. R \subseteq st.sessions
  BY <1>2
<1> QED BY <1>1, <1>3, <1>4 DEF State

\* Rewriting an open invitation, to reserve or consume it, opens no other.
LEMMA InvitationReplaced ==
    ASSUME NEW st \in State, NEW i \in Invitation,
           i.consumed \/ i.digest \in Open(st)
    PROVE  /\ ReplaceInvitation(st, i) \in State
           /\ Grows(ReplaceInvitation(st, i), st, {})
           /\ ReplaceInvitation(st, i).creds = st.creds
           /\ ReplaceInvitation(st, i).sessions = st.sessions
           /\ ReplaceInvitation(st, i).lifetime = st.lifetime
           /\ ~i.consumed \/ i.digest \notin Open(ReplaceInvitation(st, i))
<1> DEFINE u == ReplaceInvitation(st, i)
<1>1. /\ u.invites = {j \in st.invites : j.digest # i.digest} \cup {i}
      /\ u.creds = st.creds /\ u.sessions = st.sessions /\ u.lifetime = st.lifetime
  BY DEF ReplaceInvitation, State
<1>2. u \in State
  BY DEF ReplaceInvitation, State
<1>3. Trusted(u) = Trusted(st) /\ ActiveTrusts(u) = ActiveTrusts(st)
  BY <1>1 DEF Trusted, ActiveTrusts, Active
<1>4. Open(u) \subseteq Open(st) /\ (~i.consumed \/ i.digest \notin Open(u))
  BY <1>1 DEF Open, DigestsOf
<1> QED BY <1>1, <1>2, <1>3, <1>4 DEF Grows

\* usableInvitation only returns a recorded invitation that was not consumed.
LEMMA UsableIsOpen ==
    ASSUME mem \in State, NEW d \in Invites, NEW c \in Clients, NEW i \in UsableInvitations(d, c)
    PROVE  i \in Invitation /\ i.digest = d /\ ~i.consumed /\ d \in Open(mem)
<1>1. PICK j \in mem.invites :
         /\ j.digest = d /\ ~j.consumed
         /\ i = [j EXCEPT !.client = IF Reserved(j) THEN @ ELSE None,
                          !.until  = IF Reserved(j) THEN @ ELSE None]
  BY DEF UsableInvitations
<1>2. j \in Invitation
  BY DEF State
<1> QED BY <1>1, <1>2 DEF Invitation, Open, DigestsOf

-----------------------------------------------------------------------------
(* One lemma per action that commits.                                      *)

\* The runtimes an operation of a request leaves once its commit is settled.
LEMMA SettledRuntimes ==
    ASSUME Inv, GateFree, NEW u, NEW ok \in BOOLEAN, CommitLocked(u, ok), NEW gone,
           DigestsOf(u.sessions) = DigestsOf(mem.sessions) \ gone,
           runtimes' = IF ok THEN runtimes \ gone ELSE runtimes
    PROVE  runtimes' = DigestsOf(mem'.sessions)
BY DEF CommitLocked, Inv, RuntimesMatchSessions, GateFree

\* What a request waits for after its commit is a set of digests.
LEMMA SettleTypes ==
    ASSUME Inv, NEW h \in Handlers, NEW ok \in BOOLEAN, NEW gone, Settle(h, ok, gone)
    PROVE  /\ phase' \in [Handlers -> {"idle", "request", "waiting"}]
           /\ waits' \in [Handlers -> SUBSET Digests]
           /\ UNCHANGED <<ident, bound, reading>>
           /\ runtimes' = IF ok THEN runtimes \ gone ELSE runtimes
BY DEF Settle, Inv, TypeOK

\* An operation of a request that registers nobody.
LEMMA RequestCommit ==
    ASSUME Inv, GateFree, NEW h \in Handlers, Calling(h),
           NEW u \in State, NEW ok \in BOOLEAN, CommitLocked(u, ok),
           NEW new, new \cap (minted \cup Trusts) = {}, Grows(u, mem, new),
           NEW gone, Absent(gone, u), retired' = IF ok THEN retired \cup gone ELSE retired,
           NEW cut, Settle(h, ok, cut), DigestsOf(u.sessions) = DigestsOf(mem.sessions) \ cut,
           UNCHANGED <<clock, starts, mode, loopWait, confirmed, via, refused>>
    PROVE  Inv'
<1>1. /\ phase' \in [Handlers -> {"idle", "request", "waiting"}]
      /\ waits' \in [Handlers -> SUBSET Digests] /\ loopWait' \subseteq Digests
      /\ UNCHANGED <<ident, bound, reading, clock, starts>>
      /\ runtimes' = IF ok THEN runtimes \ cut ELSE runtimes
      /\ \A g \in bound : phase'[g] = phase[g]
  BY SettleTypes DEF Inv, TypeOK, Settle, Calling
<1>2. runtimes' = DigestsOf(mem'.sessions)
  BY <1>1, SettledRuntimes
<1>3. new \cap minted = {} /\ new \cap Trusts = {} /\ UNCHANGED <<confirmed, via, refused>> /\ mode' = mode
  OBVIOUS
<1> QED BY <1>1, <1>2, <1>3, ManagedCommit

\* CreateBrowserInvitation keeps Inv.
LEMMA CreateBrowserInvitationStep ==
    ASSUME Inv, NEW h \in Handlers, NEW d \in Invites, CreateBrowserInvitation(h, d)
    PROVE  Inv'
<1> DEFINE u == AddInvitation(mem, d, ident[h].trust)
<1>1. PICK ok \in BOOLEAN : CommitLocked(u, ok) /\ Settle(h, ok, {})
  BY DEF CreateBrowserInvitation
<1>2. ident[h].trust \in Trusts
  BY DEF CreateBrowserInvitation, Inv, TypeOK, SessionIdentity
<1>3. u \in State /\ Grows(u, mem, {d}) /\ u.sessions = mem.sessions
  BY <1>2, InvitationAdded DEF Inv, TypeOK
<1>4. Absent({}, u)
  BY DEF Absent
<1>5. {d} \cap (minted \cup Trusts) = {}
  BY KindsAreDisjoint DEF CreateBrowserInvitation
<1>6. /\ GateFree /\ Calling(h) /\ retired' = retired
      /\ UNCHANGED <<clock, starts, mode, loopWait, confirmed, via, refused>>
  BY DEF CreateBrowserInvitation, historyVars
<1>7. DigestsOf(u.sessions) = DigestsOf(mem.sessions) \ {}
  BY <1>3
<1>8. retired' = IF ok THEN retired \cup {} ELSE retired
  BY <1>6
<1> HIDE DEF u
<1> QED BY <1>1, <1>3, <1>4, <1>5, <1>6, <1>7, <1>8, RequestCommit

\* Revocation leaves neither the trusted sign-in nor one of its sessions in authority.
LEMMA TrustRevokedAbsent ==
    ASSUME Inv, NEW t \in ActiveTrusts(mem)
    PROVE  /\ Revoked(mem, t) \in State /\ Grows(Revoked(mem, t), mem, {})
           /\ Absent({t} \cup SessionsOf(mem, t), Revoked(mem, t))
           /\ DigestsOf(Revoked(mem, t).sessions) = DigestsOf(mem.sessions) \ SessionsOf(mem, t)
<1>1. mem \in State /\ validateState(mem) /\ Names(mem) \subseteq minted
  BY DEF Inv, TypeOK, Valid, Minted
<1>2. t \in Trusts /\ t \in minted
  BY <1>1, NamesAreNames
<1>3. SessionsOf(mem, t) \subseteq DigestsOf(mem.sessions)
  BY DEF SessionsOf, DigestsOf
<1>4. SessionsOf(mem, t) \subseteq Digests \cap minted
  BY <1>1, <1>3, NamesAreNames
<1>5. ActiveTrusts(Revoked(mem, t)) \subseteq Trusts
  BY <1>1, <1>2, TrustRevoked, NamesAreNames
<1>6. DigestsOf(Revoked(mem, t).sessions) \subseteq Digests
  BY <1>1, <1>2, TrustRevoked, NamesAreNames
<1> QED BY <1>1, <1>2, <1>4, <1>5, <1>6, TrustRevoked, KindsAreDisjoint DEF Absent

\* Revocation from a browser keeps Inv.
LEMMA RevokeBrowserStep ==
    ASSUME Inv, NEW h \in Handlers, NEW t \in Trusts, RevokeBrowser(h, t)
    PROVE  Inv'
<1> DEFINE u == Revoked(mem, t)
           gone == {t} \cup SessionsOf(mem, t)
<1>1. PICK ok \in BOOLEAN : /\ CommitLocked(u, ok) /\ Settle(h, ok, SessionsOf(mem, t))
                            /\ retired' = IF ok THEN retired \cup gone ELSE retired
  BY DEF RevokeBrowser
<1>2. t \in ActiveTrusts(mem) /\ GateFree /\ Calling(h)
  BY DEF RevokeBrowser, MayRevoke
<1>3. /\ u \in State /\ Grows(u, mem, {}) /\ Absent(gone, u)
      /\ DigestsOf(u.sessions) = DigestsOf(mem.sessions) \ SessionsOf(mem, t)
  BY <1>2, TrustRevokedAbsent
<1>4. UNCHANGED <<clock, starts, mode, loopWait, confirmed, via, refused>>
  BY DEF RevokeBrowser
<1>5. {} \cap (minted \cup Trusts) = {}
  OBVIOUS
<1> HIDE DEF u, gone
<1> QED BY <1>1, <1>2, <1>3, <1>4, <1>5, RequestCommit

\* Sign-out keeps Inv.
LEMMA SignOutStep ==
    ASSUME Inv, NEW h \in Handlers, SignOut(h)
    PROVE  Inv'
<1> DEFINE gone == {ident[h].digest}
           S == {s \in mem.sessions : s.digest \notin gone}
           u == WithSessions(mem, S)
<1>1. PICK ok \in BOOLEAN : /\ CommitLocked(u, ok) /\ Settle(h, ok, gone)
                            /\ retired' = IF ok THEN retired \cup gone ELSE retired
  BY DEF SignOut
<1>2. ident[h].digest \in DigestsOf(mem.sessions) /\ GateFree /\ Calling(h)
  BY DEF SignOut, DigestsOf
<1>3. u \in State /\ Grows(u, mem, {}) /\ u.sessions = S
  BY SessionsDropped DEF Inv, TypeOK
<1>4. DigestsOf(u.sessions) = DigestsOf(mem.sessions) \ gone
  BY <1>3 DEF DigestsOf
<1>5. gone \subseteq minted \cap Digests
  BY <1>2, NamesAreNames DEF Inv, TypeOK, Minted
<1>6. ActiveTrusts(u) \subseteq Trusts
  BY <1>3, NamesAreNames
<1>7. Absent(gone, u)
  BY <1>4, <1>5, <1>6, KindsAreDisjoint DEF Absent
<1>8. UNCHANGED <<clock, starts, mode, loopWait, confirmed, via, refused>>
  BY DEF SignOut
<1>9. {} \cap (minted \cup Trusts) = {}
  OBVIOUS
<1> HIDE DEF u, gone, S
<1> QED BY <1>1, <1>2, <1>3, <1>4, <1>7, <1>8, <1>9, RequestCommit

\* Reserving an invitation for a client keeps Inv.
LEMMA ReserveInvitationStep ==
    ASSUME Inv, NEW h \in Handlers, NEW c \in Clients, NEW d \in Invites, NEW ok \in BOOLEAN,
           ReserveInvitation(h, c, d, ok)
    PROVE  Inv'
<1>1. mem \in State /\ clock \in Nat
  BY DEF Inv, TypeOK
<1>usable. PICK i \in UsableInvitations(d, c) :
         LET deadline == IF clock + ReservationLifetime > i.expires
                         THEN i.expires ELSE clock + ReservationLifetime
         IN /\ CommitLocked(ReplaceInvitation(mem,
                  IF i.until = None THEN [i EXCEPT !.client = c, !.until = deadline] ELSE i), ok)
            /\ Settle(h, ok, {})
  BY DEF ReserveInvitation
<1> DEFINE until == IF clock + ReservationLifetime > i.expires
                    THEN i.expires ELSE clock + ReservationLifetime
<1>2. /\ CommitLocked(ReplaceInvitation(mem,
            IF i.until = None THEN [i EXCEPT !.client = c, !.until = until] ELSE i), ok)
      /\ Settle(h, ok, {})
  BY <1>usable
<1> DEFINE j == IF i.until = None THEN [i EXCEPT !.client = c, !.until = until] ELSE i
           u == ReplaceInvitation(mem, j)
<1>3. i \in Invitation /\ i.digest = d /\ ~i.consumed /\ d \in Open(mem)
  BY <1>1, UsableIsOpen
<1>4. until \in Nat
  BY <1>1, <1>3, BoundsAreNaturals DEF Invitation
<1>5. j \in Invitation /\ j.digest = d
  BY <1>3, <1>4 DEF Invitation
<1> HIDE DEF j
<1>6. u \in State /\ Grows(u, mem, {}) /\ u.sessions = mem.sessions
  BY <1>1, <1>3, <1>5, InvitationReplaced
<1>7. /\ Absent({}, u) /\ GateFree /\ Calling(h) /\ retired' = IF ok THEN retired \cup {} ELSE retired
      /\ UNCHANGED <<clock, starts, mode, loopWait, confirmed, via, refused>>
  BY DEF Absent, ReserveInvitation, historyVars
<1>8. CommitLocked(u, ok) /\ Settle(h, ok, {})
  BY <1>2 DEF j
<1>9. {} \cap (minted \cup Trusts) = {} /\ DigestsOf(u.sessions) = DigestsOf(mem.sessions) \ {}
  BY <1>6
<1> HIDE DEF u
<1> QED BY <1>6, <1>7, <1>8, <1>9, RequestCommit

\* CommitSession on a state st that has the sessions of mem and the new names N.
LEMMA SessionCommit ==
    ASSUME Inv, GateFree, NEW h \in Handlers, Calling(h), NEW st \in State, st.sessions = mem.sessions,
           NEW N, N \cap minted = {}, Grows(st, mem, N),
           NEW t \in Trusts, NEW d \in Digests, NEW ok \in BOOLEAN,
           CommitSession(h, st, t, d, ok), UNCHANGED <<mode, clock, loopWait, starts>>,
           \/ N \cap Trusts = {} /\ UNCHANGED <<confirmed, via, refused>>
           \/ /\ SingleUse' /\ confirmed' \subseteq Trusts \cap minted' /\ refused' \subseteq Trusts
              /\ via' \in [Trusts -> Invites \cup {None}]
              /\ \A x \in Trusts : via'[x] \in minted' \cup {None}
    PROVE  Inv'
<1>added. PICK S \in AddSession(st, t, d, ident[h]) :
         \E gone : /\ gone = DigestsOf(mem.sessions) \ DigestsOf(S)
                   /\ CommitLocked(WithSessions(st, S), ok)
                   /\ retired' = IF ok THEN retired \cup gone ELSE retired
                   /\ runtimes' = IF ok THEN (runtimes \ gone) \cup {d} ELSE runtimes
                   /\ waits' = [waits EXCEPT ![h] = IF ok THEN gone \cap runtimes ELSE {}]
                   /\ phase' = [phase EXCEPT ![h] = "waiting"]
                   /\ d \notin minted /\ UNCHANGED <<ident, bound, reading>>
  BY DEF CommitSession
<1>0. PICK gone :
         /\ gone = DigestsOf(mem.sessions) \ DigestsOf(S)
         /\ CommitLocked(WithSessions(st, S), ok)
         /\ retired' = IF ok THEN retired \cup gone ELSE retired
         /\ runtimes' = IF ok THEN (runtimes \ gone) \cup {d} ELSE runtimes
         /\ waits' = [waits EXCEPT ![h] = IF ok THEN gone \cap runtimes ELSE {}]
         /\ phase' = [phase EXCEPT ![h] = "waiting"]
         /\ d \notin minted /\ UNCHANGED <<ident, bound, reading>>
  BY <1>added
<1> DEFINE u == WithSessions(st, S)
           new == N \cup {d}
<1>1. mem \in State /\ clock \in Nat /\ Names(mem) \subseteq minted /\ waits \in [Handlers -> SUBSET Digests]
  BY DEF Inv, TypeOK, Minted
<1>2. S \subseteq Session /\ \A s \in S : s \in mem.sessions \/ s.digest = d
  BY <1>1, SessionAdded
<1>3. \E s \in S : s.digest = d
  BY <1>1, SessionAdded
<1>4. u.sessions = S /\ u.creds = st.creds /\ u.invites = st.invites /\ u.lifetime = st.lifetime
  BY DEF WithSessions, State
<1>5. u \in State
  BY <1>2 DEF WithSessions, State
<1>6. Grows(u, mem, new)
  BY <1>2, <1>4 DEF Grows, Trusted, ActiveTrusts, Active, Open, DigestsOf
<1>7. new \cap minted = {} /\ (N \cap Trusts = {} => new \cap Trusts = {})
  BY <1>0, KindsAreDisjoint
<1>8. gone \subseteq minted \cap Digests
  BY <1>0, <1>1, NamesAreNames
<1>9. ActiveTrusts(u) \subseteq Trusts
  BY <1>5, NamesAreNames
<1>10. Absent(gone, u)
  BY <1>0, <1>4, <1>8, <1>9, KindsAreDisjoint DEF Absent
<1>11. runtimes' = DigestsOf(mem'.sessions)
  <2>1. (DigestsOf(mem.sessions) \ gone) \cup {d} = DigestsOf(S)
    BY <1>0, <1>2, <1>3 DEF DigestsOf
  <2>2. runtimes = DigestsOf(mem.sessions)
    BY DEF Inv, RuntimesMatchSessions, GateFree
  <2> QED BY <1>0, <1>4, <2>1, <2>2 DEF CommitLocked
<1>12. waits' \in [Handlers -> SUBSET Digests]
  BY <1>0, <1>1, <1>8
<1>13. /\ phase' \in [Handlers -> {"idle", "request", "waiting"}] /\ loopWait' \subseteq Digests
       /\ \A g \in bound : phase'[g] = phase[g]
  BY <1>0 DEF Inv, TypeOK, Calling
<1>14. /\ CommitLocked(u, ok) /\ mode' = mode
       /\ retired' = IF ok THEN retired \cup gone ELSE retired
       /\ UNCHANGED <<ident, bound, reading, clock, starts>>
  BY <1>0
<1> HIDE DEF u, new
<1> QED BY <1>5, <1>6, <1>7, <1>10, <1>11, <1>12, <1>13, <1>14, ManagedCommit

\* The commit of a sign-in or a reauthentication keeps Inv.
LEMMA CommitAssertionStep ==
    ASSUME Inv, NEW h \in Handlers, NEW t \in Trusts, NEW k \in Keys, NEW d \in Digests,
           NEW re \in BOOLEAN, NEW ok \in BOOLEAN, CommitAssertion(h, t, k, d, re, ok)
    PROVE  Inv'
<1>1. /\ GateFree /\ Calling(h) /\ CommitSession(h, mem, t, d, ok)
      /\ UNCHANGED <<via, confirmed, refused, mode, clock, loopWait, starts>>
  BY DEF CommitAssertion
<1>2. mem \in State
  BY DEF Inv, TypeOK
<1>3. Grows(mem, mem, {}) /\ {} \cap minted = {} /\ {} \cap Trusts = {}
  BY DEF Grows
<1> QED BY <1>1, <1>2, <1>3, SessionCommit

\* Registration adds one credential and leaves sessions and invitations alone.
LEMMA TrustRegistered ==
    ASSUME NEW r \in State, NEW t \in Trusts, NEW k \in Keys
    PROVE  /\ Register(r, t, k) \in State
           /\ Register(r, t, k).sessions = r.sessions /\ Register(r, t, k).invites = r.invites
           /\ Trusted(Register(r, t, k)) \subseteq Trusted(r) \cup {t}
           /\ t \in Trusted(Register(r, t, k))
           /\ ActiveTrusts(Register(r, t, k)) \subseteq ActiveTrusts(r) \cup {t}
<1> DEFINE new == [trust |-> t, key |-> k, revoked |-> FALSE]
           C == Active(r) \cup {new}
           st == [r EXCEPT !.creds = C]
<1>1. new \in Credential /\ new.trust = t
  BY DEF Credential
<1> HIDE DEF new
<1>2. C \subseteq Credential /\ Active(r) \subseteq r.creds /\ new \in C
  BY <1>1 DEF State, Active
<1> HIDE DEF C
<1>3. st \in State /\ st.sessions = r.sessions /\ st.invites = r.invites /\ st.creds = C
  BY <1>2 DEF State
<1> HIDE DEF st
<1>4. Trusted(st) \subseteq Trusted(r) \cup {t} /\ t \in Trusted(st)
  <2>1. \A c \in st.creds : c \in r.creds \/ c.trust = t
    BY <1>1, <1>2, <1>3 DEF C
  <2>2. new \in st.creds
    BY <1>2, <1>3
  <2> QED BY <1>1, <2>1, <2>2 DEF Trusted
<1>5. ActiveTrusts(st) \subseteq ActiveTrusts(r) \cup {t}
  <2>1. \A c \in st.creds : c \in Active(r) \/ c.trust = t
    BY <1>1, <1>3 DEF C
  <2> QED BY <2>1 DEF ActiveTrusts, Active
<1>6. st = Register(r, t, k)
  BY DEF st, C, new, Register
<1> QED BY <1>3, <1>4, <1>5, <1>6

\* The commit of a registration keeps Inv: its invitation is consumed in the same write.
LEMMA CommitRegistrationStep ==
    ASSUME Inv, NEW h \in Handlers, NEW c \in Clients, NEW i \in Invites, NEW k \in Keys,
           NEW t \in Trusts, NEW d \in Digests, NEW ok \in BOOLEAN,
           CommitRegistration(h, c, i, k, t, d, ok)
    PROVE  Inv'
<1>1. /\ GateFree /\ Calling(h) /\ t \notin minted
      /\ confirmed' = IF ok THEN confirmed \cup {t} ELSE confirmed
      /\ refused' \subseteq refused \cup {t}
      /\ via' = IF t \in Names(disk') THEN [via EXCEPT ![t] = i] ELSE via
      /\ UNCHANGED <<mode, clock, loopWait, starts>>
  BY DEF CommitRegistration
<1>2. /\ mem \in State /\ disk \in State /\ clock \in Nat /\ via \in [Trusts -> Invites \cup {None}]
      /\ confirmed \subseteq Trusts /\ refused \subseteq Trusts /\ confirmed \subseteq minted
      /\ Names(mem) \subseteq minted /\ Names(disk) \subseteq minted
      /\ \A x \in Trusts : via[x] \in minted \cup {None}
  BY DEF Inv, TypeOK, Minted
<1>3. PICK inv \in UsableInvitations(i, c) :
         CommitSession(h, Register(ReplaceInvitation(mem, Consume(inv)), t, k), t, d, ok)
  BY DEF CommitRegistration, Registrable
<1>4. inv \in Invitation /\ inv.digest = i /\ i \in Open(mem)
  BY <1>2, UsableIsOpen
<1>5. Consume(inv) \in Invitation /\ Consume(inv).digest = i /\ Consume(inv).consumed
  BY <1>4 DEF Consume, Invitation
<1> DEFINE r == ReplaceInvitation(mem, Consume(inv))
           st == Register(r, t, k)
<1>6. /\ r \in State /\ Grows(r, mem, {}) /\ r.sessions = mem.sessions /\ r.creds = mem.creds
      /\ i \notin Open(r)
  BY <1>2, <1>5, InvitationReplaced
<1> HIDE DEF r
<1>7. /\ st \in State /\ st.sessions = mem.sessions /\ st.invites = r.invites
      /\ Trusted(st) \subseteq Trusted(r) \cup {t} /\ t \in Trusted(st)
      /\ ActiveTrusts(st) \subseteq ActiveTrusts(r) \cup {t}
  BY <1>6, TrustRegistered
<1>8. Trusted(st) \subseteq Trusted(mem) \cup {t} /\ t \in Trusted(st)
  BY <1>6, <1>7 DEF Trusted
<1>9. ActiveTrusts(st) \subseteq ActiveTrusts(mem) \cup {t}
  BY <1>6, <1>7 DEF ActiveTrusts, Active
<1>10. Open(st) = Open(r)
  BY <1>7 DEF Open
<1>11. Grows(st, mem, {t}) /\ {t} \cap minted = {}
  BY <1>1, <1>6, <1>7, <1>8, <1>9, <1>10 DEF Grows
<1> HIDE DEF st
<1>12. PICK S \in AddSession(st, t, d, ident[h]) : CommitLocked(WithSessions(st, S), ok)
  BY <1>3 DEF CommitSession, st, r
<1> DEFINE u == WithSessions(st, S)
<1>13. Trusted(u) = Trusted(st) /\ Open(u) = Open(st) /\ Trusted(u) \subseteq Names(u)
  BY <1>7 DEF WithSessions, State, Trusted, Open, Names
<1> HIDE DEF u
<1>14. /\ disk' \in {disk, u} /\ (ok => disk' = u) /\ mem' = IF ok THEN u ELSE mem
       /\ minted' = minted \cup Names(disk')
  BY <1>12 DEF CommitLocked, u
<1>15. Trusted(mem) \cup Trusted(disk) \subseteq Trusts \cap minted
  BY <1>2, NamesAreNames
<1>16. UsedOnce(mem) /\ UsedOnce(disk)
  BY DEF Inv, SingleUse
<1>17. SingleUse'
  <2>1. CASE disk' = disk
    <3>1. ~ok
      BY <1>1, <1>2, <1>8, <1>13, <1>14, <2>1
    <3>2. t \notin Names(disk')
      BY <1>1, <1>2, <2>1
    <3> QED BY <1>1, <1>14, <1>16, <2>1, <3>1, <3>2 DEF SingleUse, UsedOnce
  <2>2. CASE disk' = u
    <3>1. via' = [via EXCEPT ![t] = i]
      BY <1>1, <1>8, <1>13, <2>2
    <3>2. \A x \in confirmed \cup Trusted(mem) : x # t /\ via'[x] = via[x] /\ via[x] # i
      BY <1>1, <1>2, <1>4, <1>15, <1>16, <3>1 DEF UsedOnce
    <3>3. via'[t] = i /\ i \notin Open(u) /\ Open(u) \subseteq Open(mem)
      BY <1>2, <1>6, <1>10, <1>13, <3>1 DEF Grows
    <3>4. Trusted(u) \subseteq Trusted(mem) \cup {t} /\ confirmed' \subseteq confirmed \cup {t}
      BY <1>1, <1>8, <1>13
    <3>5. /\ \A x, y \in confirmed' \cup Trusted(u) : via'[x] = via'[y] => x = y
          /\ \A x \in confirmed' \cup Trusted(u) : via'[x] \notin Open(u)
      BY <1>16, <3>2, <3>3, <3>4 DEF UsedOnce
    <3>6. CASE ok
      BY <1>14, <2>2, <3>5, <3>6 DEF SingleUse, UsedOnce
    <3>7. CASE ~ok
      BY <1>1, <1>14, <1>16, <2>2, <3>2, <3>5, <3>7 DEF SingleUse, UsedOnce
    <3> QED BY <3>6, <3>7
  <2> QED BY <1>14, <2>1, <2>2
<1>18. /\ confirmed' \subseteq Trusts \cap minted' /\ refused' \subseteq Trusts
       /\ via' \in [Trusts -> Invites \cup {None}]
       /\ \A x \in Trusts : via'[x] \in minted' \cup {None}
  <2>1. i \in minted /\ minted \subseteq minted'
    BY <1>2, <1>4, <1>14, NamesAreNames
  <2>2. ok => t \in minted'
    BY <1>8, <1>13, <1>14
  <2> QED BY <1>1, <1>2, <2>1, <2>2
<1> QED BY <1>1, <1>3, <1>7, <1>11, <1>17, <1>18, SessionCommit DEF st, r

\* expireNow, wherever it is called.
LEMMA ExpiredDropped ==
    ASSUME StoreInv, NEW gone, gone = DigestsOf({s \in mem.sessions : Expired(s)}),
           NEW u, u = WithSessions(mem, {s \in mem.sessions : ~Expired(s)})
    PROVE  /\ u \in State /\ Grows(u, mem, {}) /\ Absent(gone, u) /\ gone \subseteq Digests
           /\ DigestsOf(u.sessions) = DigestsOf(mem.sessions) \ gone
<1> DEFINE S == {s \in mem.sessions : ~Expired(s)}
<1>1. mem \in State /\ validateState(mem) /\ Names(mem) \subseteq minted
  BY DEF StoreInv, Valid
<1>2. u \in State /\ Grows(u, mem, {}) /\ u.sessions = S
  BY <1>1, SessionsDropped
<1>3. DigestsOf(u.sessions) = DigestsOf(mem.sessions) \ gone
  BY <1>1, <1>2, SessionDigestsDiffer DEF DigestsOf
<1>4. gone \subseteq DigestsOf(mem.sessions)
  BY DEF DigestsOf
<1>5. gone \subseteq minted \cap Digests
  BY <1>1, <1>4, NamesAreNames
<1>6. ActiveTrusts(u) \subseteq Trusts
  BY <1>2, NamesAreNames
<1> QED BY <1>2, <1>3, <1>5, <1>6, KindsAreDisjoint DEF Absent

\* A round of expiryLoop keeps Inv.
LEMMA expiryLoopStep ==
    ASSUME Inv, expiryLoop
    PROVE  Inv'
<1> DEFINE gone == DigestsOf({s \in mem.sessions : Expired(s)})
           u == WithSessions(mem, {s \in mem.sessions : ~Expired(s)})
<1>1. PICK ok \in BOOLEAN : /\ CommitLocked(u, ok)
                            /\ retired' = IF ok THEN retired \cup gone ELSE retired
                            /\ runtimes' = IF ok THEN runtimes \ gone ELSE runtimes
                            /\ loopWait' = IF ok THEN gone \cap runtimes ELSE {}
                            /\ UNCHANGED <<via, confirmed, refused>>
  BY DEF expiryLoop, ExpireSessions
<1>2. /\ u \in State /\ Grows(u, mem, {}) /\ Absent(gone, u) /\ gone \subseteq Digests
      /\ DigestsOf(u.sessions) = DigestsOf(mem.sessions) \ gone
  BY InvGivesStoreInv, ExpiredDropped
<1>3. /\ GateFree /\ mode' = mode /\ UNCHANGED <<ident, bound, reading, clock, starts>>
      /\ phase' \in [Handlers -> {"idle", "request", "waiting"}]
      /\ waits' \in [Handlers -> SUBSET Digests] /\ \A g \in bound : phase'[g] = phase[g]
  BY DEF expiryLoop, requestVars, Inv, TypeOK
<1>4. loopWait' \subseteq Digests /\ {} \cap minted = {} /\ {} \cap Trusts = {}
  BY <1>1, <1>2
<1> HIDE DEF u, gone
<1>5. runtimes' = DigestsOf(mem'.sessions)
  BY <1>1, <1>2, <1>3, SettledRuntimes
<1> QED BY <1>1, <1>2, <1>3, <1>4, <1>5, ManagedCommit

-----------------------------------------------------------------------------
(* Starting a process, its commands, and its end.                          *)

\* A step of a process that serves nobody yet.
LEMMA IdleStep ==
    ASSUME Inv, ~Serving, StoreInv', SingleUse', minted \subseteq minted',
           UNCHANGED <<requestVars, via, confirmed, refused, clock, loopWait>>, starts' \in Nat,
           runtimes' \subseteq Digests,
           mode' \in {"down", "opened", "commandopened", "up", "command"},
           Managed' => runtimes' = DigestsOf(mem'.sessions)
    PROVE  Inv'
<1>1. TypeOK'
  BY DEF Inv, TypeOK, StoreInv, requestVars
<1>2. Minted'
  BY DEF Inv, Minted, StoreInv, requestVars, TypeOK
<1>3. bound' = {} /\ reading' = {}
  BY DEF Inv, Quiet, requestVars
<1>4. Quiet' /\ LeasesHaveAuthority' /\ ReadsHaveAuthority' /\ RuntimesMatchSessions'
  BY <1>3 DEF Quiet, LeasesHaveAuthority, ReadsHaveAuthority, RuntimesMatchSessions
<1> QED BY <1>1, <1>2, <1>4 DEF Inv, StoreInv

\* What OpenProtected writes differs from the file by pruned invitations, the bootstrap one and the lifetime.
LEMMA OpenedState ==
    ASSUME disk \in State, clock \in Nat, NEW d \in Invites, NEW lifetime \in Lifetimes,
           NEW bootstrap \in BOOLEAN, NEW u,
           u = [disk EXCEPT !.invites = IF bootstrap THEN {newInvitation(d, None)}
                                                      ELSE pruneInvitations(disk.invites),
                            !.lifetime = lifetime]
    PROVE  u \in State /\ Grows(u, disk, IF bootstrap THEN {d} ELSE {})
<1>1. newInvitation(d, None) \in Invitation /\ newInvitation(d, None).digest = d
  BY BoundsAreNaturals DEF newInvitation, Invitation
<1>2. pruneInvitations(disk.invites) \subseteq disk.invites
  BY DEF pruneInvitations
<1>3. u \in State /\ u.creds = disk.creds /\ u.sessions = disk.sessions
  BY <1>1, <1>2 DEF State
<1>4. u.invites = IF bootstrap THEN {newInvitation(d, None)} ELSE pruneInvitations(disk.invites)
  BY DEF State
<1>5. Trusted(u) = Trusted(disk) /\ ActiveTrusts(u) = ActiveTrusts(disk)
  BY <1>3 DEF Trusted, ActiveTrusts, Active
<1>6. Open(u) \subseteq Open(disk) \cup IF bootstrap THEN {d} ELSE {}
  BY <1>1, <1>2, <1>4 DEF Open, DigestsOf
<1> QED BY <1>3, <1>5, <1>6 DEF Grows

\* A start of the server keeps Inv, whatever the last process left in the file.
LEMMA OpenProtectedStep ==
    ASSUME Inv, NEW set \in BOOLEAN, NEW life \in Lifetimes, NEW d \in Invites,
           OpenProtected(set, life, d)
    PROVE  Inv'
<1>1. /\ mode = "down" /\ starts' = starts + 1
      /\ UNCHANGED <<requestVars, retired, via, confirmed, refused, clock, runtimes, loopWait>>
  BY DEF OpenProtected, historyVars
<1>2. /\ mem \in State /\ disk \in State /\ clock \in Nat /\ starts \in Nat
      /\ runtimes \subseteq Digests
  BY DEF Inv, TypeOK
<1> DEFINE kept == [disk EXCEPT !.invites = pruneInvitations(@),
                                !.lifetime = IF set THEN life ELSE @]
           bootstrap == Active(kept) = {} /\ kept.invites = {}
           u == [kept EXCEPT !.invites = IF bootstrap THEN {newInvitation(d, None)} ELSE @]
           new == IF bootstrap THEN {d} ELSE {}
<1>3. PICK ok \in BOOLEAN :
         /\ \/ CommitLocked(u, ok)
            \/ ok /\ mem' = disk /\ UNCHANGED <<disk, failures, minted, rejected>>
         /\ mode' = IF ok THEN "opened" ELSE "down"
  BY DEF OpenProtected
<1>4. bootstrap => d \notin minted
  BY DEF OpenProtected
<1>5. u \in State /\ Grows(u, disk, new)
  <2> DEFINE lifetime == IF set THEN life ELSE disk.lifetime
             b == bootstrap
             v == [disk EXCEPT !.invites = IF b THEN {newInvitation(d, None)}
                                                  ELSE pruneInvitations(disk.invites),
                               !.lifetime = lifetime]
  <2>1. lifetime \in Lifetimes /\ b \in BOOLEAN
    BY <1>2 DEF State
  <2>2. u = v
    BY <1>2 DEF State
  <2> HIDE DEF lifetime, bootstrap, u, b
  <2>3. u \in State /\ Grows(u, disk, IF b THEN {d} ELSE {})
    BY <1>2, <2>1, <2>2, OpenedState
  <2> QED BY <2>3 DEF b
<1>6. new \cap minted = {} /\ new \cap Trusts = {}
  BY <1>4, KindsAreDisjoint
<1> HIDE DEF u, new
<1>7. StoreInv' /\ SingleUse' /\ minted \subseteq minted'
  <2>1. CASE CommitLocked(u, ok)
    <3>1. Absent({}, u) /\ retired' = IF ok THEN retired \cup {} ELSE retired
      BY <1>1 DEF Absent
    <3>2. StoreInv' /\ minted \subseteq minted'
      BY <1>5, <1>6, <2>1, <3>1, InvGivesStoreInv, CommitStep
    <3>3. SingleUse'
      BY <1>1, <1>5, <1>6, <2>1, CommitKeepsSingleUse
    <3> QED BY <3>2, <3>3
  <2>2. CASE ok /\ mem' = disk /\ UNCHANGED <<disk, failures, minted, rejected>>
    BY <1>1, <2>2, InvGivesStoreInv
    DEF StoreInv, Valid, RetiredStaysRetired, Inv, SingleUse, UsedOnce
  <2> QED BY <1>3, <2>1, <2>2
<1>8. ~Serving /\ ~Managed' /\ mode' \in {"opened", "down"}
  BY <1>1, <1>3 DEF Serving, Managed
<1> QED BY <1>1, <1>2, <1>7, <1>8, IdleStep

\* A local command that opens the file of a stopped server keeps Inv.
LEMMA OpenExistingStoppedStep ==
    ASSUME Inv, OpenExistingStopped
    PROVE  Inv'
<1>1. StoreInv' /\ SingleUse' /\ minted \subseteq minted'
  BY InvGivesStoreInv
  DEF OpenExistingStopped, historyVars, StoreInv, Valid, RetiredStaysRetired, Inv, SingleUse, UsedOnce
<1>2. /\ ~Serving /\ ~Managed' /\ mode' = "commandopened" /\ runtimes' \subseteq Digests
      /\ starts' \in Nat /\ UNCHANGED <<requestVars, via, confirmed, refused, clock, loopWait>>
  BY DEF OpenExistingStopped, historyVars, Serving, Managed, Inv, TypeOK
<1> QED BY <1>1, <1>2, IdleStep

\* NewManager, with its first expireNow, keeps Inv.
LEMMA NewManagerStep ==
    ASSUME Inv, NewManager
    PROVE  Inv'
<1> DEFINE gone == DigestsOf({s \in mem.sessions : Expired(s)})
           u == WithSessions(mem, {s \in mem.sessions : ~Expired(s)})
           ready == IF mode = "opened" THEN "up" ELSE "command"
<1>1. /\ ~Serving /\ starts' \in Nat /\ UNCHANGED <<requestVars, clock, loopWait>>
      /\ mem \in State
  BY DEF NewManager, Serving, Inv, TypeOK
<1>2. CASE /\ mode' = ready /\ runtimes' = DigestsOf(mem.sessions)
           /\ UNCHANGED <<storeVars, historyVars>>
  <2>1. StoreInv' /\ SingleUse' /\ minted \subseteq minted'
    BY <1>2, StoreUnchanged DEF storeVars
  <2>2. runtimes' \subseteq Digests /\ runtimes' = DigestsOf(mem'.sessions)
    BY <1>1, <1>2, NamesAreNames DEF storeVars
  <2>3. UNCHANGED <<via, confirmed, refused>> /\ mode' \in {"up", "command"}
    BY <1>2 DEF historyVars
  <2> QED BY <1>1, <2>1, <2>2, <2>3, IdleStep
<1>3. CASE \E ok \in BOOLEAN :
              /\ ExpireSessions(ok)
              /\ mode' = IF ok THEN ready ELSE "down"
              /\ runtimes' = IF ok THEN DigestsOf(mem.sessions) \ gone ELSE {}
  <2>1. PICK ok \in BOOLEAN :
           /\ CommitLocked(u, ok) /\ retired' = IF ok THEN retired \cup gone ELSE retired
           /\ UNCHANGED <<via, confirmed, refused>>
           /\ mode' = IF ok THEN ready ELSE "down"
           /\ runtimes' = IF ok THEN DigestsOf(mem.sessions) \ gone ELSE {}
    BY <1>3 DEF ExpireSessions
  <2>2. /\ u \in State /\ Grows(u, mem, {}) /\ Absent(gone, u)
        /\ DigestsOf(u.sessions) = DigestsOf(mem.sessions) \ gone
    BY InvGivesStoreInv, ExpiredDropped
  <2>3. {} \cap minted = {} /\ {} \cap Trusts = {}
    OBVIOUS
  <2> HIDE DEF u, gone
  <2>4. StoreInv' /\ minted \subseteq minted'
    BY <2>1, <2>2, <2>3, InvGivesStoreInv, CommitStep
  <2>5. SingleUse'
    BY <2>1, <2>2, <2>3, CommitKeepsSingleUse
  <2>6. runtimes' \subseteq Digests
    BY <1>1, <2>1, NamesAreNames
  <2>7. Managed' => runtimes' = DigestsOf(mem'.sessions)
    BY <2>1, <2>2 DEF Managed, CommitLocked
  <2>8. mode' \in {"up", "command", "down"}
    BY <2>1
  <2> QED BY <1>1, <2>1, <2>4, <2>5, <2>6, <2>7, <2>8, IdleStep
<1> QED BY <1>2, <1>3 DEF NewManager

\* One change of the state by a command, which then stops.
LEMMA CommandCommit ==
    ASSUME Inv, mode = "command", mode' = "stopping", GateFree,
           NEW u \in State, NEW ok \in BOOLEAN, CommitLocked(u, ok),
           NEW new, new \cap (minted \cup Trusts) = {}, Grows(u, mem, new),
           NEW gone, Absent(gone, u), retired' = IF ok THEN retired \cup gone ELSE retired,
           NEW cut, runtimes' = IF ok THEN runtimes \ cut ELSE runtimes,
           DigestsOf(u.sessions) = DigestsOf(mem.sessions) \ cut,
           UNCHANGED <<requestVars, clock, starts, loopWait, confirmed, via, refused>>
    PROVE  Inv'
<1>1. /\ phase' \in [Handlers -> {"idle", "request", "waiting"}]
      /\ waits' \in [Handlers -> SUBSET Digests] /\ loopWait' \subseteq Digests
      /\ UNCHANGED <<ident, bound, reading, clock, starts>> /\ \A g \in bound : phase'[g] = phase[g]
  BY DEF requestVars, Inv, TypeOK
<1>2. runtimes' = DigestsOf(mem'.sessions)
  BY SettledRuntimes
<1>3. new \cap minted = {} /\ new \cap Trusts = {} /\ UNCHANGED <<confirmed, via, refused>>
  OBVIOUS
<1> QED BY <1>1, <1>2, <1>3, ManagedCommit

\* The invite command keeps Inv.
LEMMA CreateLocalInvitationStep ==
    ASSUME Inv, NEW d \in Invites, CreateLocalInvitation(d)
    PROVE  Inv'
<1> DEFINE u == AddInvitation(mem, d, None)
<1>1. PICK ok \in BOOLEAN : CommitLocked(u, ok)
  BY DEF CreateLocalInvitation
<1>2. u \in State /\ Grows(u, mem, {d}) /\ u.sessions = mem.sessions
  BY InvitationAdded DEF Inv, TypeOK
<1>3. /\ Absent({}, u) /\ {d} \cap (minted \cup Trusts) = {}
      /\ DigestsOf(u.sessions) = DigestsOf(mem.sessions) \ {}
  BY <1>2, KindsAreDisjoint DEF Absent, CreateLocalInvitation
<1>4. /\ mode = "command" /\ mode' = "stopping" /\ GateFree
      /\ retired' = IF ok THEN retired \cup {} ELSE retired
      /\ runtimes' = IF ok THEN runtimes \ {} ELSE runtimes
      /\ UNCHANGED <<requestVars, clock, starts, loopWait, confirmed, via, refused>>
  BY DEF CreateLocalInvitation, historyVars
<1> HIDE DEF u
<1> QED BY <1>1, <1>2, <1>3, <1>4, CommandCommit

\* The revoke command keeps Inv.
LEMMA RevokeLocalStep ==
    ASSUME Inv, NEW t \in Trusts, RevokeLocal(t)
    PROVE  Inv'
<1> DEFINE u == Revoked(mem, t)
           cut == SessionsOf(mem, t)
           gone == {t} \cup cut
<1>1. PICK ok \in BOOLEAN : /\ CommitLocked(u, ok)
                            /\ runtimes' = IF ok THEN runtimes \ cut ELSE runtimes
                            /\ retired' = IF ok THEN retired \cup gone ELSE retired
  BY DEF RevokeLocal
<1>2. t \in ActiveTrusts(mem) /\ GateFree /\ mode = "command" /\ mode' = "stopping"
  BY DEF RevokeLocal, MayRevoke
<1>3. /\ u \in State /\ Grows(u, mem, {}) /\ Absent(gone, u)
      /\ DigestsOf(u.sessions) = DigestsOf(mem.sessions) \ cut
  BY <1>2, TrustRevokedAbsent
<1>4. /\ UNCHANGED <<requestVars, clock, starts, loopWait, confirmed, via, refused>>
      /\ {} \cap (minted \cup Trusts) = {}
  BY DEF RevokeLocal
<1> HIDE DEF u, gone, cut
<1> QED BY <1>1, <1>2, <1>3, <1>4, CommandCommit

\* The reset command keeps Inv.
LEMMA ResetStep ==
    ASSUME Inv, Reset
    PROVE  Inv'
<1> DEFINE u == EmptyState(mem.lifetime)
           cut == DigestsOf(mem.sessions)
           gone == Trusted(mem) \cup cut
<1>1. PICK ok \in BOOLEAN : /\ CommitLocked(u, ok)
                            /\ runtimes' = IF ok THEN runtimes \ cut ELSE runtimes
                            /\ retired' = IF ok THEN retired \cup gone ELSE retired
  BY DEF Reset, Trusted
<1>2. mem \in State /\ Names(mem) \subseteq minted
  BY DEF Inv, TypeOK, Minted
<1>3. u \in State /\ u.sessions = {} /\ u.creds = {} /\ u.invites = {}
  BY <1>2, EmptyStateIsValid DEF State, EmptyState
<1> HIDE DEF u
<1>4. Trusted(u) = {} /\ ActiveTrusts(u) = {} /\ Open(u) = {} /\ DigestsOf(u.sessions) = {}
  BY <1>3 DEF Trusted, ActiveTrusts, Active, Open, DigestsOf
<1>5. Grows(u, mem, {}) /\ DigestsOf(u.sessions) = DigestsOf(mem.sessions) \ cut
  BY <1>3, <1>4 DEF Grows
<1>6. Absent(gone, u)
  BY <1>2, <1>4, NamesAreNames DEF Absent
<1>7. /\ GateFree /\ mode = "command" /\ mode' = "stopping"
      /\ UNCHANGED <<requestVars, clock, starts, loopWait, confirmed, via, refused>>
      /\ {} \cap (minted \cup Trusts) = {}
  BY DEF Reset
<1> HIDE DEF gone, cut
<1> QED BY <1>1, <1>3, <1>5, <1>6, <1>7, CommandCommit

\* The end of a process, by a crash or by Close, keeps Inv.
LEMMA GoneStep ==
    ASSUME Inv, Gone
    PROVE  Inv'
<1>1. StoreInv' /\ SingleUse'
  BY StoreUnchanged DEF Gone
<1>2. TypeOK' /\ Minted'
  BY <1>1 DEF Gone, storeVars, historyVars, StoreInv, Inv, TypeOK, Minted
<1>3. Quiet' /\ LeasesHaveAuthority' /\ ReadsHaveAuthority' /\ RuntimesMatchSessions'
  BY DEF Gone, Quiet, LeasesHaveAuthority, ReadsHaveAuthority, RuntimesMatchSessions, Managed
<1> QED BY <1>1, <1>2, <1>3 DEF Inv, StoreInv

\* Steps that change neither the store nor the requests.
LEMMA QuietStep ==
    ASSUME Inv, Tick \/ LoopWaited \/ StopLoop \/ CancelAll
    PROVE  Inv'
<1>1. /\ UNCHANGED <<storeVars, requestVars, historyVars, runtimes, starts>>
      /\ clock' \in Nat /\ loopWait' \subseteq Digests
      /\ \/ mode' = mode
         \/ mode \in {"up", "command"} /\ mode' = "stopping"
         \/ mode = "stopping" /\ mode' = "closing"
  BY DEF Tick, LoopWaited, StopLoop, CancelAll, Inv, TypeOK
<1>2. StoreInv' /\ SingleUse'
  BY <1>1, StoreUnchanged
<1>3. TypeOK' /\ Minted'
  BY <1>1, <1>2 DEF storeVars, historyVars, requestVars, StoreInv, Inv, TypeOK, Minted
<1>4. Quiet'
  BY <1>1 DEF Inv, Quiet, Serving, requestVars
<1>5. RuntimesMatchSessions'
  BY <1>1 DEF Inv, RuntimesMatchSessions, Managed, storeVars
<1>6. LeasesHaveAuthority' /\ ReadsHaveAuthority'
  BY <1>1 DEF Inv, LeasesHaveAuthority, ReadsHaveAuthority, HasRecord, Cancelled, storeVars, requestVars
<1> QED BY <1>2, <1>3, <1>4, <1>5, <1>6 DEF Inv, StoreInv

-----------------------------------------------------------------------------
(* Requests.                                                               *)

\* Admitting a request under an identity found in memory keeps Inv.
LEMMA AdmitStep ==
    ASSUME Inv, NEW h \in Handlers,
           NEW id \in {[digest |-> s.digest, trust |-> s.trust] : s \in mem.sessions} \cup {None},
           Admit(h, id)
    PROVE  Inv'
<1>1. /\ UNCHANGED <<storeVars, historyVars, bound, reading, waits, mode, clock, runtimes, loopWait, starts>>
      /\ phase[h] = "idle" /\ phase' = [phase EXCEPT ![h] = "request"]
      /\ ident' = [ident EXCEPT ![h] = id]
  BY DEF Admit
<1>2. StoreInv' /\ SingleUse'
  BY <1>1, StoreUnchanged
<1>3. mem \in State /\ Names(mem) \subseteq minted
  BY DEF Inv, TypeOK, Minted
<1>4. id # None => id \in SessionIdentity /\ id.digest \in minted
  BY <1>3, NamesAreNames DEF State, Session, SessionIdentity, DigestsOf
<1>5. TypeOK' /\ Minted'
  BY <1>1, <1>2, <1>4 DEF storeVars, historyVars, StoreInv, Inv, TypeOK, Minted
<1>6. h \notin bound \cup reading
  BY <1>1 DEF Inv, Quiet
<1>7. \A g \in bound \cup reading : g \in Handlers /\ ident'[g] = ident[g] /\ phase'[g] = phase[g]
  BY <1>1, <1>6 DEF Inv, TypeOK
<1>8. Quiet'
  BY <1>1, <1>7 DEF Inv, Quiet, Serving
<1>9. RuntimesMatchSessions' /\ LeasesHaveAuthority' /\ ReadsHaveAuthority'
  BY <1>1, <1>7 DEF Inv, RuntimesMatchSessions, LeasesHaveAuthority, ReadsHaveAuthority,
                    HasRecord, Cancelled, Managed, storeVars
<1> QED BY <1>2, <1>5, <1>8, <1>9 DEF Inv, StoreInv

\* Taking a lease, and beginning or ending guarded work, keeps Inv.
LEMMA BindStep ==
    ASSUME Inv, NEW h \in Handlers, Bind(h) \/ BeginRead(h) \/ EndRead(h)
    PROVE  Inv'
<1>1. /\ UNCHANGED <<storeVars, historyVars, phase, ident, waits, mode, clock, runtimes, loopWait, starts>>
      /\ bound' \subseteq bound \cup {h} /\ reading' \subseteq reading \cup {h}
      /\ h \in (bound' \ bound) \cup (reading' \ reading) =>
            Serving /\ phase[h] = "request" /\ ident[h] # None /\ ActiveSessions(ident[h]) # {}
  BY DEF Bind, BeginRead, EndRead, Calling
<1>2. StoreInv' /\ SingleUse'
  BY <1>1, StoreUnchanged
<1>3. TypeOK' /\ Minted'
  BY <1>1, <1>2 DEF storeVars, historyVars, StoreInv, Inv, TypeOK, Minted
<1>4. Quiet'
  BY <1>1 DEF Inv, Quiet, Serving
<1>5. ASSUME ActiveSessions(ident[h]) # {}
      PROVE  HasRecord(ident[h])
  BY <1>5 DEF ActiveSessions, HasRecord
<1>6. RuntimesMatchSessions' /\ LeasesHaveAuthority' /\ ReadsHaveAuthority'
  BY <1>1, <1>5 DEF Inv, RuntimesMatchSessions, LeasesHaveAuthority, ReadsHaveAuthority,
                    HasRecord, Cancelled, Managed, storeVars
<1> QED BY <1>2, <1>3, <1>4, <1>6 DEF Inv, StoreInv

\* The end of a request, or of its wait for removed runtimes, keeps Inv.
LEMMA EndStep ==
    ASSUME Inv, NEW h \in Handlers, EndRequest(h) \/ Report(h)
    PROVE  Inv'
<1>1. /\ UNCHANGED <<storeVars, historyVars, reading, mode, clock, runtimes, loopWait, starts>>
      /\ bound' = bound \ {h} /\ h \notin reading
      /\ phase' = [phase EXCEPT ![h] = "idle"]
      /\ ident' = [ident EXCEPT ![h] = None]
      /\ waits' \in [Handlers -> SUBSET Digests]
  BY DEF EndRequest, Report, Inv, Quiet, TypeOK
<1>2. StoreInv' /\ SingleUse'
  BY <1>1, StoreUnchanged
<1>3. TypeOK' /\ Minted'
  BY <1>1, <1>2 DEF storeVars, historyVars, StoreInv, Inv, TypeOK, Minted
<1>4. \A g \in bound' \cup reading' : g \in Handlers /\ ident'[g] = ident[g] /\ phase'[g] = phase[g]
  BY <1>1 DEF Inv, TypeOK
<1>5. Quiet'
  BY <1>1, <1>4 DEF Inv, Quiet, Serving
<1>6. RuntimesMatchSessions' /\ LeasesHaveAuthority' /\ ReadsHaveAuthority'
  BY <1>1, <1>4 DEF Inv, RuntimesMatchSessions, LeasesHaveAuthority, ReadsHaveAuthority,
                    HasRecord, Cancelled, Managed, storeVars
<1> QED BY <1>2, <1>3, <1>5, <1>6 DEF Inv, StoreInv

-----------------------------------------------------------------------------
(* The invariant.                                                          *)

\* Inv holds of an installation that has no trusted sign-in.
LEMMA InitInv == Init => Inv
<1> SUFFICES ASSUME Init PROVE Inv
  OBVIOUS
<1>1. PICK life \in Lifetimes : disk = EmptyState(life) /\ mem = EmptyState(life)
  BY DEF Init
<1>2. mem \in State /\ disk \in State /\ Valid
  BY <1>1, EmptyStateIsValid DEF Valid
<1>3. TypeOK
  BY <1>2 DEF Init, TypeOK
<1>4. /\ Names(mem) = {} /\ Names(disk) = {} /\ Trusted(mem) = {} /\ Trusted(disk) = {}
  BY <1>1 DEF EmptyState, Names, DigestsOf, Trusted
<1>5. Minted /\ SingleUse
  BY <1>4 DEF Init, Minted, SingleUse, UsedOnce
<1>6. Quiet /\ RuntimesMatchSessions /\ LeasesHaveAuthority /\ ReadsHaveAuthority /\ RetiredStaysRetired
  BY DEF Init, Quiet, RuntimesMatchSessions, Managed, LeasesHaveAuthority, ReadsHaveAuthority,
         RetiredStaysRetired
<1> QED BY <1>2, <1>3, <1>5, <1>6 DEF Inv

\* Every step keeps Inv: one step of the proof per action.
LEMMA NextInv == Inv /\ [Next]_vars => Inv'
<1> SUFFICES ASSUME Inv, [Next]_vars PROVE Inv'
  OBVIOUS
<1>1. ASSUME NEW h \in Handlers, BrowserStep(h) PROVE Inv'
  BY <1>1, CreateBrowserInvitationStep, RevokeBrowserStep, SignOutStep, ReserveInvitationStep,
     CommitAssertionStep, CommitRegistrationStep DEF BrowserStep
<1>2. ASSUME NEW h \in Handlers, RequestStep(h) PROVE Inv'
  BY <1>2, AdmitStep, BindStep, EndStep DEF RequestStep
<1>3. CASE ProcessStep
  BY <1>3, OpenProtectedStep, OpenExistingStoppedStep, NewManagerStep, CreateLocalInvitationStep,
     RevokeLocalStep, ResetStep, QuietStep, GoneStep DEF ProcessStep, Closed, Crash
<1>4. CASE Tick \/ expiryLoop \/ LoopWaited
  BY <1>4, QuietStep, expiryLoopStep
<1>5. CASE UNCHANGED vars
  <2>1. StoreInv' /\ SingleUse'
    BY <1>5, StoreUnchanged DEF vars
  <2>2. TypeOK' /\ Minted' /\ Quiet'
    BY <1>5, <2>1 DEF vars, storeVars, requestVars, historyVars, StoreInv, Inv, TypeOK, Minted,
                      Quiet, Serving
  <2>3. RuntimesMatchSessions' /\ LeasesHaveAuthority' /\ ReadsHaveAuthority'
    BY <1>5 DEF vars, storeVars, requestVars, Inv, RuntimesMatchSessions, LeasesHaveAuthority,
                ReadsHaveAuthority, HasRecord, Cancelled, Managed
  <2> QED BY <2>1, <2>2, <2>3 DEF Inv, StoreInv
<1> QED BY <1>1, <1>2, <1>3, <1>4, <1>5 DEF Next

\* Every reachable state of the manager, its file and its requests satisfies Inv.
THEOREM Invariance == Spec => []Inv
<1>1. Init => Inv
  BY InitInv
<1>2. Inv /\ [Next]_vars => Inv'
  BY NextInv
<1> QED BY <1>1, <1>2, PTL DEF Spec

\* The state keeps its types, for every set of names and every limit.
THEOREM TypeCorrect == Spec => []TypeOK
<1>1. Inv => TypeOK
  BY DEF Inv
<1> QED BY <1>1, Invariance, PTL

\* Manager.runtimes holds exactly the sessions in memory.
THEOREM RuntimesCorrect == Spec => []RuntimesMatchSessions
<1>1. Inv => RuntimesMatchSessions
  BY DEF Inv
<1> QED BY <1>1, Invariance, PTL

\* A lease that was not cancelled stands for a recorded session of a trusted
\* sign-in.
THEOREM LeaseAuthority == Spec => []LeasesHaveAuthority
<1>1. Inv => LeasesHaveAuthority
  BY DEF Inv
<1> QED BY <1>1, Invariance, PTL

\* An operation of WithSessionRead has such a session for as long as it runs.
THEOREM ReadAuthority == Spec => []ReadsHaveAuthority
<1>1. Inv => ReadsHaveAuthority
  BY DEF Inv
<1> QED BY <1>1, Invariance, PTL

\* What was reported as removed is in neither memory nor the file, whatever
\* writes fail and whenever the process crashes.
THEOREM RetirementIsFinal == Spec => []RetiredStaysRetired
<1>1. Inv => RetiredStaysRetired
  BY DEF Inv
<1> QED BY <1>1, Invariance, PTL

\* commitRegistration uses an invitation once, over failed writes and restarts.
THEOREM SingleUseHolds == Spec => []InvitationsAreSingleUse
<1>1. Inv => InvitationsAreSingleUse
  BY DEF Inv, SingleUse, UsedOnce, InvitationsAreSingleUse, Trusted
<1> QED BY <1>1, Invariance, PTL

-----------------------------------------------------------------------------
(* The last trusted sign-in.                                               *)

\* validateState allows one credential per trusted sign-in.
LEMMA CredentialTrustsDiffer ==
    ASSUME NEW st, validateState(st)
    PROVE  \A b, c \in st.creds : b.trust = c.trust => b = c
BY DEF validateState, Injective

\* Revoking one of several active sign-ins leaves one.
LEMMA RevokedLeavesOne ==
    ASSUME NEW st \in State, validateState(st), NEW t, Cardinality(Active(st)) > 1
    PROVE  Active(Revoked(st, t)) # {}
<1>1. PICK c \in Active(st) : c.trust # t
  <2> SUFFICES ASSUME \A c \in Active(st) : c.trust = t
               PROVE  FALSE
    OBVIOUS
  <2>1. \A b, c \in Active(st) : b = c
    BY CredentialTrustsDiffer DEF Active
  <2>2. Active(st) # {}
    BY FS_EmptySet
  <2>3. PICK c \in Active(st) : Active(st) = {c}
    BY <2>1, <2>2
  <2>4. Cardinality({c}) = 1
    BY FS_Singleton
  <2> QED BY <2>3, <2>4
<1>2. Revoked(st, t).creds =
         {IF b.trust = t THEN [b EXCEPT !.revoked = TRUE] ELSE b : b \in st.creds}
  BY DEF Revoked, State
<1>3. c \in Revoked(st, t).creds /\ ~c.revoked
  BY <1>1, <1>2 DEF Active
<1> QED BY <1>3 DEF Active

\* A commit of a state with an active sign-in leaves one in memory, also when the write fails.
LEMMA CommitKeepsTrust ==
    ASSUME NEW u, NEW ok \in BOOLEAN, CommitLocked(u, ok), Active(u) # {}, Active(mem) # {}
    PROVE  Active(mem') # {}
BY DEF CommitLocked

\* Changes of sessions and invitations leave the active credentials alone.
LEMMA SameCredentials ==
    ASSUME NEW st \in State
    PROVE  /\ \A S : Active(WithSessions(st, S)) = Active(st)
           /\ \A i : Active(ReplaceInvitation(st, i)) = Active(st)
           /\ \A d, issuer : Active(AddInvitation(st, d, issuer)) = Active(st)
BY DEF WithSessions, ReplaceInvitation, AddInvitation, Active, State

\* No step but Reset takes the last active sign-in from a running manager.
LEMMA FinalTrustStep ==
    ASSUME Inv, Next, Managed, Managed', Active(mem) # {}
    PROVE  Active(mem') # {} \/ Reset
<1>1. mem \in State /\ validateState(mem)
  BY DEF Inv, TypeOK, Valid
<1>2. ASSUME NEW t, MayRevoke(t) PROVE Active(Revoked(mem, t)) # {}
  BY <1>1, <1>2, RevokedLeavesOne DEF MayRevoke
<1>3. ASSUME NEW h \in Handlers, NEW st \in State, Active(st) # {},
             NEW t, NEW d, NEW ok \in BOOLEAN, CommitSession(h, st, t, d, ok)
      PROVE  Active(mem') # {}
  <2>1. PICK S : CommitLocked(WithSessions(st, S), ok)
    BY <1>3 DEF CommitSession
  <2>2. Active(WithSessions(st, S)) # {}
    BY <1>3, SameCredentials
  <2> QED BY <2>1, <2>2, CommitKeepsTrust
<1>4. ASSUME NEW h \in Handlers, BrowserStep(h) PROVE Active(mem') # {}
  <2>1. ASSUME NEW d \in Invites, CreateBrowserInvitation(h, d) PROVE Active(mem') # {}
    <3>1. PICK ok \in BOOLEAN : CommitLocked(AddInvitation(mem, d, ident[h].trust), ok)
      BY <2>1 DEF CreateBrowserInvitation
    <3>2. Active(AddInvitation(mem, d, ident[h].trust)) # {}
      BY <1>1, SameCredentials
    <3> QED BY <3>1, <3>2, CommitKeepsTrust
  <2>2. ASSUME NEW t \in Trusts, RevokeBrowser(h, t) PROVE Active(mem') # {}
    BY <1>2, <2>2, CommitKeepsTrust DEF RevokeBrowser
  <2>3. ASSUME SignOut(h) PROVE Active(mem') # {}
    <3> DEFINE S == {s \in mem.sessions : s.digest \notin {ident[h].digest}}
    <3>1. PICK ok \in BOOLEAN : CommitLocked(WithSessions(mem, S), ok)
      BY <2>3 DEF SignOut
    <3>2. Active(WithSessions(mem, S)) # {}
      BY <1>1, SameCredentials
    <3> QED BY <3>1, <3>2, CommitKeepsTrust
  <2>4. ASSUME NEW c \in Clients, NEW d \in Invites, NEW ok \in BOOLEAN, ReserveInvitation(h, c, d, ok)
        PROVE  Active(mem') # {}
    <3>1. PICK j : CommitLocked(ReplaceInvitation(mem, j), ok)
      BY <2>4 DEF ReserveInvitation
    <3>2. Active(ReplaceInvitation(mem, j)) # {}
      BY <1>1, SameCredentials
    <3> QED BY <3>1, <3>2, CommitKeepsTrust
  <2>5. ASSUME NEW t \in Trusts, NEW k \in Keys, NEW d \in Digests, NEW re \in BOOLEAN,
               NEW ok \in BOOLEAN, CommitAssertion(h, t, k, d, re, ok)
        PROVE  Active(mem') # {}
    BY <1>1, <1>3, <2>5 DEF CommitAssertion
  <2>6. ASSUME NEW c \in Clients, NEW i \in Invites, NEW k \in Keys, NEW t \in Trusts,
               NEW d \in Digests, NEW ok \in BOOLEAN, CommitRegistration(h, c, i, k, t, d, ok)
        PROVE  Active(mem') # {}
    <3>1. PICK inv \in UsableInvitations(i, c) :
             CommitSession(h, Register(ReplaceInvitation(mem, Consume(inv)), t, k), t, d, ok)
      BY <2>6 DEF CommitRegistration, Registrable
    <3> DEFINE r == ReplaceInvitation(mem, Consume(inv))
    <3>2. inv \in Invitation /\ inv.digest = i
      BY <1>1, UsableIsOpen
    <3>3. Consume(inv) \in Invitation /\ Consume(inv).consumed
      BY <3>2 DEF Consume, Invitation
    <3>4. r \in State /\ Active(r) # {}
      BY <1>1, <3>3, InvitationReplaced, SameCredentials
    <3> HIDE DEF r
    <3>5. Register(r, t, k) \in State
      BY <3>4, TrustRegistered
    <3>6. Active(r) \subseteq Register(r, t, k).creds
      BY <3>4 DEF Register, State
    <3>7. Active(Register(r, t, k)) # {}
      BY <3>4, <3>6 DEF Active
    <3> QED BY <1>3, <3>1, <3>5, <3>7 DEF r
  <2> QED BY <1>4, <2>1, <2>2, <2>3, <2>4, <2>5, <2>6 DEF BrowserStep
<1>5. ASSUME NEW h \in Handlers, RequestStep(h) PROVE Active(mem') # {}
  <2>1. mem' = mem
    BY <1>5 DEF RequestStep, Admit, Bind, BeginRead, EndRead, EndRequest, Report, storeVars
  <2> QED BY <2>1
<1>6. CASE expiryLoop
  <2> DEFINE S == {s \in mem.sessions : ~Expired(s)}
  <2>1. PICK ok \in BOOLEAN : CommitLocked(WithSessions(mem, S), ok)
    BY <1>6 DEF expiryLoop, ExpireSessions
  <2>2. Active(WithSessions(mem, S)) # {}
    BY <1>1, SameCredentials
  <2> QED BY <2>1, <2>2, CommitKeepsTrust
<1>7. CASE Tick \/ LoopWaited \/ StopLoop \/ CancelAll \/ Closed \/ Crash
  <2>1. mem' = mem
    BY <1>7 DEF Tick, LoopWaited, StopLoop, CancelAll, Closed, Crash, Gone, storeVars
  <2> QED BY <2>1
<1>8. ASSUME NEW d \in Invites, CreateLocalInvitation(d) PROVE Active(mem') # {}
  <2>1. PICK ok \in BOOLEAN : CommitLocked(AddInvitation(mem, d, None), ok)
    BY <1>8 DEF CreateLocalInvitation
  <2>2. Active(AddInvitation(mem, d, None)) # {}
    BY <1>1, SameCredentials
  <2> QED BY <2>1, <2>2, CommitKeepsTrust
<1>9. ASSUME NEW t \in Trusts, RevokeLocal(t) PROVE Active(mem') # {}
  BY <1>2, <1>9, CommitKeepsTrust DEF RevokeLocal
<1>10. /\ ~OpenExistingStopped /\ ~NewManager
       /\ \A set, life, d : ~OpenProtected(set, life, d)
  BY DEF Managed, OpenExistingStopped, NewManager, OpenProtected
<1> QED BY <1>4, <1>5, <1>6, <1>7, <1>8, <1>9, <1>10 DEF Next, ProcessStep

\* However revocations interleave, only reset takes the last trusted sign-in.
THEOREM FinalTrustIsKept == Spec => FinalTrustRemains
<1>1. Inv /\ [Next]_vars =>
         [Managed /\ Managed' /\ Active(mem) # {} => Active(mem') # {} \/ Reset]_vars
  BY FinalTrustStep
<1> QED BY <1>1, Invariance, PTL DEF Spec, FinalTrustRemains

-----------------------------------------------------------------------------
(* Waiting for the streams of what was removed.                            *)

\* With Inv: only a request that reports a removal waits for streams.
AwaitInv ==
    /\ RemovalsAreAwaited
    /\ \A h \in Handlers : phase[h] # "waiting" => waits[h] = {}

\* A request that commits waits for every session that it retires.
LEMMA CommitAwaits ==
    ASSUME Inv, AwaitInv, NEW h \in Handlers, Calling(h), NEW W,
           UNCHANGED <<ident, bound, loopWait>>, waits' = [waits EXCEPT ![h] = W],
           phase' = [phase EXCEPT ![h] = "waiting"],
           \A d \in Digests : d \in retired' => d \in retired \/ d \in W
    PROVE  AwaitInv'
<1>1. /\ waits \in [Handlers -> SUBSET Digests] /\ phase \in [Handlers -> {"idle", "request", "waiting"}]
      /\ waits[h] = {} /\ \A b \in bound : b \in Handlers /\ ident[b].digest \in Digests
  BY DEF Inv, TypeOK, AwaitInv, Calling, LeasesHaveAuthority, SessionIdentity
<1>2. /\ waits'[h] = W /\ \A g \in Handlers \ {h} : waits'[g] = waits[g]
      /\ phase'[h] = "waiting" /\ \A g \in Handlers \ {h} : phase'[g] = phase[g]
  BY <1>1
<1>3. ASSUME NEW b \in bound, ident[b].digest \in retired'
      PROVE  ident[b].digest \in loopWait \cup UNION {waits'[g] : g \in Handlers}
  <2>1. CASE ident[b].digest \in W
    BY <1>2, <2>1
  <2>2. CASE ident[b].digest \in retired
    <3>1. ident[b].digest \in loopWait \/ \E g \in Handlers : ident[b].digest \in waits[g]
      BY <2>2 DEF AwaitInv, RemovalsAreAwaited
    <3> QED BY <1>1, <1>2, <3>1
  <2> QED BY <1>1, <1>3, <2>1, <2>2
<1>4. RemovalsAreAwaited'
  BY <1>3 DEF RemovalsAreAwaited
<1> QED BY <1>2, <1>4 DEF AwaitInv

\* Removed sessions had runtimes, so the request that removed them waits for them.
LEMMA SettleAwaits ==
    ASSUME Inv, AwaitInv, GateFree, NEW h \in Handlers, Calling(h), NEW ok \in BOOLEAN,
           NEW cut, cut \subseteq DigestsOf(mem.sessions), NEW gone, gone \cap Digests \subseteq cut,
           Settle(h, ok, cut), retired' = IF ok THEN retired \cup gone ELSE retired,
           loopWait' = loopWait
    PROVE  AwaitInv'
<1> DEFINE W == IF ok THEN cut \cap runtimes ELSE {}
<1>1. /\ UNCHANGED <<ident, bound>> /\ waits' = [waits EXCEPT ![h] = W]
      /\ phase' = [phase EXCEPT ![h] = "waiting"]
  BY DEF Settle
<1>2. cut \subseteq runtimes
  BY DEF Inv, RuntimesMatchSessions, GateFree
<1>3. \A d \in Digests : d \in retired' => d \in retired \/ d \in W
  BY <1>2
<1> HIDE DEF W
<1> QED BY <1>1, <1>3, CommitAwaits

\* So do the sign-in, the reauthentication and the registration that evict or
\* replace sessions.
LEMMA CommitSessionAwaits ==
    ASSUME Inv, AwaitInv, GateFree, NEW h \in Handlers, Calling(h), NEW st, NEW t, NEW d,
           NEW ok \in BOOLEAN, CommitSession(h, st, t, d, ok), loopWait' = loopWait
    PROVE  AwaitInv'
<1>1. PICK S : LET gone == DigestsOf(mem.sessions) \ DigestsOf(S)
               IN /\ retired' = IF ok THEN retired \cup gone ELSE retired
                  /\ waits' = [waits EXCEPT ![h] = IF ok THEN gone \cap runtimes ELSE {}]
                  /\ phase' = [phase EXCEPT ![h] = "waiting"]
  BY DEF CommitSession
<1> DEFINE gone == DigestsOf(mem.sessions) \ DigestsOf(S)
           W == IF ok THEN gone \cap runtimes ELSE {}
<1>2. UNCHANGED <<ident, bound, loopWait>>
  BY DEF CommitSession
<1>3. gone \subseteq runtimes
  BY DEF Inv, RuntimesMatchSessions, GateFree
<1>4. \A e \in Digests : e \in retired' => e \in retired \/ e \in W
  BY <1>1, <1>3
<1>5. waits' = [waits EXCEPT ![h] = W] /\ phase' = [phase EXCEPT ![h] = "waiting"]
  BY <1>1
<1> HIDE DEF W, gone
<1> QED BY <1>2, <1>4, <1>5, CommitAwaits

\* No operation of a browser reports a removal without waiting for it.
LEMMA BrowserStepAwaits ==
    ASSUME Inv, AwaitInv, NEW h \in Handlers, BrowserStep(h)
    PROVE  AwaitInv'
<1>1. ASSUME NEW d \in Invites, CreateBrowserInvitation(h, d) PROVE AwaitInv'
  <2>1. PICK ok \in BOOLEAN : Settle(h, ok, {})
    BY <1>1 DEF CreateBrowserInvitation
  <2>2. /\ GateFree /\ Calling(h) /\ loopWait' = loopWait
        /\ retired' = IF ok THEN retired \cup {} ELSE retired
    BY <1>1 DEF CreateBrowserInvitation, historyVars
  <2> QED BY <2>1, <2>2, SettleAwaits
<1>2. ASSUME NEW t \in Trusts, RevokeBrowser(h, t) PROVE AwaitInv'
  <2> DEFINE cut == SessionsOf(mem, t)
             gone == {t} \cup cut
  <2>1. PICK ok \in BOOLEAN : /\ Settle(h, ok, cut)
                              /\ retired' = IF ok THEN retired \cup gone ELSE retired
    BY <1>2 DEF RevokeBrowser
  <2>2. GateFree /\ Calling(h) /\ loopWait' = loopWait
    BY <1>2 DEF RevokeBrowser
  <2>3. cut \subseteq DigestsOf(mem.sessions) /\ gone \cap Digests \subseteq cut
    BY KindsAreDisjoint DEF SessionsOf, DigestsOf
  <2> HIDE DEF cut, gone
  <2> QED BY <2>1, <2>2, <2>3, SettleAwaits
<1>3. CASE SignOut(h)
  <2> DEFINE gone == {ident[h].digest}
  <2>1. PICK ok \in BOOLEAN : /\ Settle(h, ok, gone)
                              /\ retired' = IF ok THEN retired \cup gone ELSE retired
    BY <1>3 DEF SignOut
  <2>2. GateFree /\ Calling(h) /\ loopWait' = loopWait /\ gone \subseteq DigestsOf(mem.sessions)
    BY <1>3 DEF SignOut, DigestsOf
  <2> HIDE DEF gone
  <2> QED BY <2>1, <2>2, SettleAwaits
<1>4. ASSUME NEW c \in Clients, NEW d \in Invites, NEW ok \in BOOLEAN, ReserveInvitation(h, c, d, ok)
      PROVE  AwaitInv'
  <2>1. /\ GateFree /\ Calling(h) /\ loopWait' = loopWait /\ Settle(h, ok, {})
        /\ retired' = IF ok THEN retired \cup {} ELSE retired
    BY <1>4 DEF ReserveInvitation, historyVars
  <2> QED BY <2>1, SettleAwaits
<1>5. ASSUME NEW t \in Trusts, NEW k \in Keys, NEW d \in Digests, NEW re \in BOOLEAN,
             NEW ok \in BOOLEAN, CommitAssertion(h, t, k, d, re, ok)
      PROVE  AwaitInv'
  BY <1>5, CommitSessionAwaits DEF CommitAssertion
<1>6. ASSUME NEW c \in Clients, NEW i \in Invites, NEW k \in Keys, NEW t \in Trusts, NEW d \in Digests,
             NEW ok \in BOOLEAN, CommitRegistration(h, c, i, k, t, d, ok)
      PROVE  AwaitInv'
  BY <1>6, CommitSessionAwaits DEF CommitRegistration
<1> QED BY <1>1, <1>2, <1>3, <1>4, <1>5, <1>6 DEF BrowserStep

\* A lease binds only to a session that was not removed, and an answer or the
\* end of a request leaves no lease that nobody waits for.
LEMMA RequestStepAwaits ==
    ASSUME Inv, AwaitInv, NEW h \in Handlers, RequestStep(h)
    PROVE  AwaitInv'
<1>1. /\ \A b \in bound : phase[b] = "request" /\ b \in Handlers
      /\ waits \in [Handlers -> SUBSET Digests] /\ phase \in [Handlers -> {"idle", "request", "waiting"}]
      /\ ident \in [Handlers -> SessionIdentity \cup {None}]
      /\ RemovalsAreAwaited /\ \A g \in Handlers : phase[g] # "waiting" => waits[g] = {}
  BY DEF Inv, TypeOK, Quiet, AwaitInv
<1>2. ASSUME NEW id, Admit(h, id) PROVE AwaitInv'
  <2>1. /\ UNCHANGED <<bound, waits, loopWait, retired>> /\ phase[h] = "idle"
        /\ phase' = [phase EXCEPT ![h] = "request"] /\ ident' = [ident EXCEPT ![h] = id]
    BY <1>2 DEF Admit, historyVars
  <2>2. h \notin bound /\ \A b \in bound : ident'[b] = ident[b]
    BY <1>1, <2>1
  <2> QED BY <1>1, <2>1, <2>2 DEF AwaitInv, RemovalsAreAwaited
<1>3. CASE Bind(h)
  <2>1. /\ UNCHANGED <<phase, ident, waits, loopWait, retired>> /\ bound' = bound \cup {h}
        /\ ident[h].digest \in runtimes /\ Managed
    BY <1>3 DEF Bind, historyVars, Calling, Serving, Managed
  <2>2. ident[h].digest \notin retired
    BY <2>1 DEF Inv, RuntimesMatchSessions, RetiredStaysRetired
  <2> QED BY <1>1, <2>1, <2>2 DEF AwaitInv, RemovalsAreAwaited
<1>4. CASE BeginRead(h) \/ EndRead(h)
  <2>1. UNCHANGED <<phase, ident, bound, waits, loopWait, retired>>
    BY <1>4 DEF BeginRead, EndRead, historyVars
  <2> QED BY <1>1, <2>1 DEF AwaitInv, RemovalsAreAwaited
<1>5. CASE EndRequest(h)
  <2>1. /\ UNCHANGED <<waits, loopWait, retired>> /\ bound' = bound \ {h} /\ phase[h] = "request"
        /\ phase' = [phase EXCEPT ![h] = "idle"] /\ ident' = [ident EXCEPT ![h] = None]
    BY <1>5 DEF EndRequest, historyVars
  <2>2. \A b \in bound' : b \in bound /\ ident'[b] = ident[b]
    BY <1>1, <2>1
  <2> QED BY <1>1, <2>1, <2>2 DEF AwaitInv, RemovalsAreAwaited
<1>6. CASE Report(h)
  <2>1. /\ UNCHANGED <<bound, loopWait, retired>> /\ phase[h] = "waiting" /\ ~Leased(waits[h])
        /\ phase' = [phase EXCEPT ![h] = "idle"] /\ ident' = [ident EXCEPT ![h] = None]
        /\ waits' = [waits EXCEPT ![h] = {}]
    BY <1>6 DEF Report, historyVars
  <2>2. /\ h \notin bound /\ \A b \in bound : ident'[b] = ident[b] /\ ident[b].digest \notin waits[h]
        /\ waits'[h] = {} /\ \A g \in Handlers \ {h} : waits'[g] = waits[g] /\ phase'[g] = phase[g]
    BY <1>1, <2>1 DEF Leased
  <2>3. ASSUME NEW b \in bound, ident[b].digest \in retired
        PROVE  ident[b].digest \in loopWait \cup UNION {waits'[g] : g \in Handlers}
    <3>1. ident[b].digest \in loopWait \cup UNION {waits[g] : g \in Handlers}
      BY <1>1, <2>3 DEF RemovalsAreAwaited
    <3> QED BY <2>2, <3>1
  <2>4. RemovalsAreAwaited'
    BY <2>1, <2>2, <2>3 DEF RemovalsAreAwaited
  <2> QED BY <1>1, <2>2, <2>4 DEF AwaitInv
<1> QED BY <1>2, <1>3, <1>4, <1>5, <1>6 DEF RequestStep

\* Every step keeps AwaitInv: expiryLoop waits for what it drops, and the commands
\* run where nothing is bound.
LEMMA NextAwaits == Inv /\ AwaitInv /\ [Next]_vars => AwaitInv'
<1> SUFFICES ASSUME Inv, AwaitInv, [Next]_vars PROVE AwaitInv'
  OBVIOUS
<1>1. ASSUME NEW h \in Handlers, BrowserStep(h) \/ RequestStep(h) PROVE AwaitInv'
  BY <1>1, BrowserStepAwaits, RequestStepAwaits
<1>2. CASE expiryLoop
  <2> DEFINE gone == DigestsOf({s \in mem.sessions : Expired(s)})
  <2>1. PICK ok \in BOOLEAN : /\ retired' = IF ok THEN retired \cup gone ELSE retired
                              /\ loopWait' = IF ok THEN gone \cap runtimes ELSE {}
    BY <1>2 DEF expiryLoop, ExpireSessions
  <2>2. UNCHANGED requestVars /\ loopWait = {} /\ Managed
    BY <1>2 DEF expiryLoop, GateFree
  <2>3. gone \subseteq runtimes
    BY <2>2 DEF Inv, RuntimesMatchSessions, DigestsOf
  <2> HIDE DEF gone
  <2> QED BY <2>1, <2>2, <2>3 DEF requestVars, AwaitInv, RemovalsAreAwaited
<1>3. CASE LoopWaited
  <2>1. UNCHANGED <<requestVars, historyVars>> /\ ~Leased(loopWait) /\ loopWait' = {}
    BY <1>3 DEF LoopWaited
  <2> QED BY <2>1 DEF requestVars, historyVars, AwaitInv, RemovalsAreAwaited, Leased
<1>4. CASE UNCHANGED vars \/ Tick \/ StopLoop \/ CancelAll
  <2>1. UNCHANGED <<requestVars, historyVars, loopWait>>
    BY <1>4 DEF vars, Tick, StopLoop, CancelAll
  <2> QED BY <2>1 DEF requestVars, historyVars, AwaitInv, RemovalsAreAwaited
<1>5. CASE Closed \/ Crash
  <2>1. bound' = {} /\ waits' = [h \in Handlers |-> {}]
    BY <1>5 DEF Closed, Crash, Gone
  <2> QED BY <2>1 DEF AwaitInv, RemovalsAreAwaited
<1>6. CASE \/ \E set \in BOOLEAN, life \in Lifetimes, d \in Invites : OpenProtected(set, life, d)
           \/ OpenExistingStopped \/ NewManager \/ Reset
           \/ \E d \in Invites : CreateLocalInvitation(d)
           \/ \E t \in Trusts : RevokeLocal(t)
  <2>1. UNCHANGED requestVars /\ ~Serving
    BY <1>6 DEF OpenProtected, OpenExistingStopped, NewManager, Reset, CreateLocalInvitation,
                RevokeLocal, Serving
  <2>2. bound = {}
    BY <2>1 DEF Inv, Quiet
  <2> QED BY <2>1, <2>2 DEF requestVars, AwaitInv, RemovalsAreAwaited
<1> QED BY <1>1, <1>2, <1>3, <1>4, <1>5, <1>6 DEF Next, ProcessStep

\* Sign-out, rotation, eviction, revocation and expiry are reported as done only
\* once the streams of the removed sessions have closed (manager.go:465-540).
THEOREM RemovalsStayAwaited == Spec => []RemovalsAreAwaited
<1>1. Init => AwaitInv
  BY DEF Init, AwaitInv, RemovalsAreAwaited
<1>2. Inv /\ AwaitInv /\ [Next]_vars => AwaitInv'
  BY NextAwaits
<1>3. AwaitInv => RemovalsAreAwaited
  BY DEF AwaitInv
<1> QED BY <1>1, <1>2, <1>3, Invariance, PTL DEF Spec

-----------------------------------------------------------------------------
(* validateState never refuses what an operation builds.                   *)

\* What validateState asks of each part, for the active trusted sign-ins T, that
\* the part is finite, and that every invitation was issued by now.
CredentialsOK(C) ==
    /\ IsFiniteSet(C) /\ Cardinality(C) <= MaxCredentials
    /\ \A b, c \in C : b.trust = c.trust \/ b.key = c.key => b = c

Of(S, t) == {s \in S : s.trust = t}
SessionsOK(S, T) ==
    /\ IsFiniteSet(S) /\ Cardinality(S) <= MaxSessions
    /\ \A r, s \in S : r.digest = s.digest => r = s
    /\ \A s \in S : s.trust \in T /\ Cardinality(Of(S, s.trust)) <= MaxTrustSessions

From(I, t) == {i \in I : i.issuer = t /\ ~i.consumed}
InvitationOK(i, T) ==
    /\ i.issuer # None => i.issuer \in T
    /\ (i.client = None) <=> (i.until = None)
    /\ i.until # None => i.until > i.expires - InvitationLifetime /\ i.until <= i.expires
    /\ i.consumed => i.until = None
    /\ i.expires <= clock + InvitationLifetime
InvitationsOK(I, T) ==
    /\ IsFiniteSet(I) /\ Cardinality(I) <= MaxInvitations
    /\ \A i, j \in I : i.digest = j.digest => i = j
    /\ \A i \in I : /\ InvitationOK(i, T)
                    /\ i.issuer # None /\ ~i.consumed => Cardinality(From(I, i.issuer)) <= MaxAuthorizerInvites

Sound(st) ==
    /\ st \in State
    /\ CredentialsOK(st.creds)
    /\ SessionsOK(st.sessions, ActiveTrusts(st)) /\ InvitationsOK(st.invites, ActiveTrusts(st))

AcceptInv == ~rejected /\ Sound(mem) /\ Sound(disk)

\* A sound state passes validateState.
LEMMA SoundIsValid ==
    ASSUME NEW st, Sound(st)
    PROVE  validateState(st)
<1>1. /\ CredentialsOK(st.creds)
      /\ SessionsOK(st.sessions, ActiveTrusts(st)) /\ InvitationsOK(st.invites, ActiveTrusts(st))
  BY DEF Sound
<1>2. /\ Cardinality(st.creds) <= MaxCredentials /\ Cardinality(st.invites) <= MaxInvitations
      /\ Cardinality(st.sessions) <= MaxSessions
  BY <1>1 DEF CredentialsOK, SessionsOK, InvitationsOK
<1>3. /\ Injective(st.creds, LAMBDA c : c.trust) /\ Injective(st.creds, LAMBDA c : c.key)
      /\ Injective(st.sessions, LAMBDA s : s.digest) /\ Injective(st.invites, LAMBDA i : i.digest)
  BY <1>1 DEF CredentialsOK, SessionsOK, InvitationsOK, Injective
<1>4. \A s \in st.sessions :
          /\ s.trust \in ActiveTrusts(st)
          /\ Cardinality({r \in st.sessions : r.trust = s.trust}) <= MaxTrustSessions
  BY <1>1 DEF SessionsOK, Of
<1>5. \A i \in st.invites : ValidInvitation(st, i)
  BY <1>1 DEF InvitationsOK, InvitationOK, ValidInvitation
<1>6. \A i \in st.invites : i.issuer # None /\ ~i.consumed =>
          Cardinality({j \in st.invites : j.issuer = i.issuer /\ ~j.consumed}) <= MaxAuthorizerInvites
  BY <1>1 DEF InvitationsOK, From
<1> QED BY <1>2, <1>3, <1>4, <1>5, <1>6 DEF validateState

\* A commit of a sound state is not refused, and leaves sound states.
LEMMA SoundCommit ==
    ASSUME AcceptInv, NEW u, Sound(u), NEW ok \in BOOLEAN, CommitLocked(u, ok), clock' = clock
    PROVE  AcceptInv'
<1>1. /\ ~rejected' /\ mem' \in {mem, u} /\ disk' \in {disk, u}
  BY SoundIsValid DEF AcceptInv, CommitLocked
<1>2. \A st : Sound(st) => st \in State /\ CredentialsOK(st.creds)
                            /\ SessionsOK(st.sessions, ActiveTrusts(st)) /\ InvitationsOK(st.invites, ActiveTrusts(st))'
  BY DEF Sound, InvitationsOK, InvitationOK
<1> QED BY <1>1, <1>2 DEF AcceptInv, Sound

\* Cardinalities of a part, and of a set with one element more or one exchanged.
LEMMA PartIsSmaller ==
    ASSUME NEW S, IsFiniteSet(S), NEW T, T \subseteq S
    PROVE  IsFiniteSet(T) /\ Cardinality(T) <= Cardinality(S) /\ Cardinality(T) \in Nat /\ Cardinality(S) \in Nat
BY FS_Subset, FS_CardinalityType

LEMMA OneMore ==
    ASSUME NEW S, IsFiniteSet(S), NEW x, NEW T, T \subseteq S \cup {x}
    PROVE  IsFiniteSet(T) /\ Cardinality(T) <= Cardinality(S) + 1 /\ Cardinality(T) \in Nat /\ Cardinality(S) \in Nat
<1>1. /\ IsFiniteSet(S \cup {x}) /\ Cardinality(S) \in Nat
      /\ Cardinality(S \cup {x}) = IF x \in S THEN Cardinality(S) ELSE Cardinality(S) + 1
  BY FS_AddElement, FS_CardinalityType
<1>2. /\ IsFiniteSet(T) /\ Cardinality(T) <= Cardinality(S \cup {x})
      /\ Cardinality(T) \in Nat /\ Cardinality(S \cup {x}) \in Nat
  BY <1>1, PartIsSmaller
<1> QED BY <1>1, <1>2

LEMMA OneExchanged ==
    ASSUME NEW S, IsFiniteSet(S), NEW x \in S, NEW y, NEW T, T \subseteq (S \ {x}) \cup {y}
    PROVE  IsFiniteSet(T) /\ Cardinality(T) <= Cardinality(S) /\ Cardinality(T) \in Nat /\ Cardinality(S) \in Nat
<1>1. IsFiniteSet(S \ {x}) /\ Cardinality(S \ {x}) = Cardinality(S) - 1 /\ Cardinality(S) \in Nat
  BY FS_RemoveElement, FS_CardinalityType
<1>2. IsFiniteSet(T) /\ Cardinality(T) <= Cardinality(S \ {x}) + 1 /\ Cardinality(T) \in Nat
  BY <1>1, OneMore
<1> QED BY <1>1, <1>2

\* A part of sound sessions or invitations is sound, for the sign-ins that its own need.
LEMMA SomeSessions ==
    ASSUME NEW S, NEW T, SessionsOK(S, T), NEW R, R \subseteq S, NEW U, \A s \in R : s.trust \in U
    PROVE  SessionsOK(R, U)
<1>0. MaxSessions \in Nat /\ MaxTrustSessions \in Nat
  BY BoundsAreNaturals
<1>1. IsFiniteSet(R) /\ Cardinality(R) <= MaxSessions
  BY <1>0, PartIsSmaller DEF SessionsOK
<1>2. ASSUME NEW s \in R PROVE Cardinality(Of(R, s.trust)) <= MaxTrustSessions
  <2>1. IsFiniteSet(Of(S, s.trust))
    BY FS_Subset DEF SessionsOK, Of
  <2>2. Of(R, s.trust) \subseteq Of(S, s.trust)
    BY DEF Of
  <2>3. Cardinality(Of(S, s.trust)) <= MaxTrustSessions
    BY <1>2 DEF SessionsOK
  <2> QED BY <1>0, <2>1, <2>2, <2>3, PartIsSmaller
<1> QED BY <1>1, <1>2 DEF SessionsOK

LEMMA SomeInvitations ==
    ASSUME NEW I, NEW T, InvitationsOK(I, T), NEW J, J \subseteq I, NEW U,
           \A i \in J : i.issuer # None => i.issuer \in U
    PROVE  InvitationsOK(J, U)
<1>0. MaxInvitations \in Nat /\ MaxAuthorizerInvites \in Nat
  BY BoundsAreNaturals
<1>1. IsFiniteSet(J) /\ Cardinality(J) <= MaxInvitations
  BY <1>0, PartIsSmaller DEF InvitationsOK
<1>2. ASSUME NEW i \in J, i.issuer # None, ~i.consumed
      PROVE  Cardinality(From(J, i.issuer)) <= MaxAuthorizerInvites
  <2>1. IsFiniteSet(From(I, i.issuer))
    BY FS_Subset DEF InvitationsOK, From
  <2>2. From(J, i.issuer) \subseteq From(I, i.issuer)
    BY DEF From
  <2>3. Cardinality(From(I, i.issuer)) <= MaxAuthorizerInvites
    BY <1>2 DEF InvitationsOK
  <2> QED BY <1>0, <2>1, <2>2, <2>3, PartIsSmaller
<1>3. \A i \in J : InvitationOK(i, U)
  BY DEF InvitationsOK, InvitationOK
<1> QED BY <1>1, <1>2, <1>3 DEF InvitationsOK

\* A new invitation fits beside invitations none of which is consumed.
LEMMA InvitationFits ==
    ASSUME NEW I, NEW T, InvitationsOK(I, T), \A j \in I : ~j.consumed, NEW i, InvitationOK(i, T),
           i.digest \notin DigestsOf(I), Cardinality(I) < MaxInvitations,
           i.issuer # None => Cardinality({j \in I : j.issuer = i.issuer}) < MaxAuthorizerInvites
    PROVE  InvitationsOK(I \cup {i}, T)
<1> DEFINE J == I \cup {i}
<1>0. MaxInvitations \in Nat /\ MaxAuthorizerInvites \in Nat /\ IsFiniteSet(I)
  BY BoundsAreNaturals DEF InvitationsOK
<1>1. IsFiniteSet(J) /\ Cardinality(J) <= MaxInvitations
  <2>1. IsFiniteSet(J) /\ Cardinality(J) <= Cardinality(I) + 1 /\ Cardinality(I) \in Nat /\ Cardinality(J) \in Nat
    BY <1>0, OneMore
  <2> HIDE DEF J
  <2> QED BY <1>0, <2>1
<1>2. \A x, y \in J : x.digest = y.digest => x = y
  BY DEF InvitationsOK, DigestsOf
<1>3. \A x \in J : InvitationOK(x, T)
  BY DEF InvitationsOK
<1>4. ASSUME NEW x \in J, x.issuer # None, ~x.consumed PROVE Cardinality(From(J, x.issuer)) <= MaxAuthorizerInvites
  <2> DEFINE A == {j \in I : j.issuer = x.issuer}
  <2>1. IsFiniteSet(A)
    BY <1>0, FS_Subset
  <2>2. A = From(I, x.issuer)
    BY DEF From
  <2>3. CASE x.issuer = i.issuer
    <3>1. From(J, x.issuer) \subseteq A \cup {i}
      BY DEF From
    <3>2. Cardinality(A) < MaxAuthorizerInvites
      BY <1>4, <2>3
    <3> HIDE DEF A, J
    <3>3. /\ Cardinality(From(J, x.issuer)) <= Cardinality(A) + 1
          /\ Cardinality(From(J, x.issuer)) \in Nat /\ Cardinality(A) \in Nat
      BY <2>1, <3>1, OneMore
    <3> QED BY <1>0, <3>2, <3>3
  <2>4. CASE x.issuer # i.issuer
    <3>1. x \in I /\ From(J, x.issuer) \subseteq A
      BY <2>4 DEF From
    <3>2. Cardinality(A) <= MaxAuthorizerInvites
      BY <1>4, <2>2, <3>1 DEF InvitationsOK
    <3> HIDE DEF A, J
    <3> QED BY <1>0, <2>1, <3>1, <3>2, PartIsSmaller
  <2> QED BY <2>3, <2>4
<1> QED BY <1>1, <1>2, <1>3, <1>4 DEF InvitationsOK

\* The invitations that pruning leaves.
LEMMA PrunedInvitations ==
    ASSUME NEW I, NEW T, InvitationsOK(I, T)
    PROVE  /\ InvitationsOK(pruneInvitations(I), T) /\ pruneInvitations(I) \subseteq I
           /\ \A i \in pruneInvitations(I) : ~i.consumed
<1>1. pruneInvitations(I) \subseteq I /\ \A i \in pruneInvitations(I) : ~i.consumed
  BY DEF pruneInvitations
<1>2. \A i \in I : i.issuer # None => i.issuer \in T
  BY DEF InvitationsOK, InvitationOK
<1> QED BY <1>1, <1>2, SomeInvitations

\* An invitation issued now has the form validateState asks for.
LEMMA NewInvitationIsOK ==
    ASSUME clock \in Nat, NEW d \in Invites, NEW issuer \in Trusts \cup {None}, NEW T,
           issuer # None => issuer \in T
    PROVE  /\ InvitationOK(newInvitation(d, issuer), T) /\ newInvitation(d, issuer).digest = d
           /\ newInvitation(d, issuer).issuer = issuer /\ newInvitation(d, issuer) \in Invitation
<1>1. clock + InvitationLifetime \in Nat
  BY BoundsAreNaturals
<1> QED BY <1>1 DEF newInvitation, InvitationOK, Invitation

\* An invitation is created only where its issuer's and all invitations leave room.
LEMMA AddInvitationIsSound ==
    ASSUME NEW st, Sound(st), clock \in Nat, NEW d \in Invites, d \notin DigestsOf(st.invites),
           NEW issuer \in Trusts \cup {None}, Cardinality(pruneInvitations(st.invites)) < MaxInvitations,
           issuer # None =>
              /\ issuer \in ActiveTrusts(st)
              /\ Cardinality({i \in pruneInvitations(st.invites) : i.issuer = issuer}) < MaxAuthorizerInvites
    PROVE  Sound(AddInvitation(st, d, issuer))
<1> DEFINE u == AddInvitation(st, d, issuer)
           T == ActiveTrusts(st)
           I == pruneInvitations(st.invites)
           i == newInvitation(d, issuer)
<1>0. st \in State /\ CredentialsOK(st.creds) /\ SessionsOK(st.sessions, T) /\ InvitationsOK(st.invites, T)
  BY DEF Sound
<1>1. /\ u.invites = I \cup {i} /\ u.creds = st.creds /\ u.sessions = st.sessions
  BY <1>0 DEF AddInvitation, State
<1>2. ActiveTrusts(u) = T
  BY <1>1 DEF ActiveTrusts, Active
<1>3. u \in State
  BY <1>0, InvitationAdded
<1>4. InvitationsOK(I, T) /\ I \subseteq st.invites /\ \A j \in I : ~j.consumed
  BY <1>0, PrunedInvitations
<1>5. InvitationOK(i, T) /\ i.digest = d /\ i.issuer = issuer
  BY NewInvitationIsOK
<1>6. i.digest \notin DigestsOf(I)
  BY <1>4, <1>5 DEF DigestsOf
<1> HIDE DEF u, T, I, i
<1>7. InvitationsOK(I \cup {i}, T)
  BY <1>4, <1>5, <1>6, InvitationFits DEF I, T
<1> QED BY <1>0, <1>1, <1>2, <1>3, <1>7 DEF Sound, u

\* Removing sessions leaves a sound state.
LEMMA WithSessionsIsSound ==
    ASSUME NEW st, Sound(st), NEW S, S \subseteq st.sessions
    PROVE  Sound(WithSessions(st, S))
<1> DEFINE u == WithSessions(st, S)
<1>0. st \in State /\ SessionsOK(st.sessions, ActiveTrusts(st))
  BY DEF Sound
<1>1. u \in State /\ u.sessions = S /\ u.creds = st.creds /\ u.invites = st.invites
  BY <1>0 DEF WithSessions, State
<1>2. ActiveTrusts(u) = ActiveTrusts(st)
  BY <1>1 DEF ActiveTrusts, Active
<1>3. SessionsOK(S, ActiveTrusts(st))
  BY <1>0, SomeSessions DEF SessionsOK
<1> HIDE DEF u
<1> QED BY <1>1, <1>2, <1>3 DEF Sound, u

\* An image has no more elements than the set.
LEMMA ImageIsSmaller ==
    ASSUME NEW S, IsFiniteSet(S), NEW T, NEW f \in Surjection(S, T), NEW N \in Nat, Cardinality(S) <= N
    PROVE  IsFiniteSet(T) /\ Cardinality(T) <= N
<1>1. IsFiniteSet(T) /\ Cardinality(T) <= Cardinality(S)
  BY FS_Surjection
<1>2. Cardinality(T) \in Nat /\ Cardinality(S) \in Nat
  BY <1>1, FS_CardinalityType
<1> QED BY <1>1, <1>2

\* Revocation leaves a sound state.
LEMMA RevokedIsSound ==
    ASSUME NEW st, Sound(st), NEW t \in Trusts
    PROVE  Sound(Revoked(st, t))
<1> DEFINE u == Revoked(st, t)
           f == [c \in st.creds |-> IF c.trust = t THEN [c EXCEPT !.revoked = TRUE] ELSE c]
<1>0. /\ st \in State /\ CredentialsOK(st.creds)
      /\ SessionsOK(st.sessions, ActiveTrusts(st)) /\ InvitationsOK(st.invites, ActiveTrusts(st))
  BY DEF Sound
<1>1. /\ u.creds = {IF c.trust = t THEN [c EXCEPT !.revoked = TRUE] ELSE c : c \in st.creds}
      /\ u.sessions = {s \in st.sessions : s.trust # t}
      /\ u.invites = {i \in st.invites : i.issuer # t}
  BY <1>0 DEF Revoked, State
<1>2. u \in State
  BY <1>0, SoundIsValid, TrustRevoked
<1>3. \A c \in st.creds : f[c].trust = c.trust /\ f[c].key = c.key /\ (c.trust # t => f[c] = c)
  BY <1>0 DEF State, Credential
<1>4. \A b \in u.creds : \E c \in st.creds : b = f[c]
  BY <1>1
<1>5. CredentialsOK(u.creds)
  <2>1. f \in Surjection(st.creds, u.creds)
    BY <1>1 DEF Surjection
  <2>2. MaxCredentials \in Nat /\ IsFiniteSet(st.creds) /\ Cardinality(st.creds) <= MaxCredentials
    BY <1>0, BoundsAreNaturals DEF CredentialsOK
  <2>3. IsFiniteSet(u.creds) /\ Cardinality(u.creds) <= MaxCredentials
    <3> HIDE DEF f, u
    <3> QED BY <2>1, <2>2, ImageIsSmaller
  <2>4. ASSUME NEW b \in u.creds, NEW c \in u.creds, b.trust = c.trust \/ b.key = c.key PROVE b = c
    <3> HIDE DEF f, u
    <3>1. PICK x \in st.creds : b = f[x]
      BY <1>4
    <3>2. PICK y \in st.creds : c = f[y]
      BY <1>4
    <3>3. x.trust = y.trust \/ x.key = y.key
      BY <1>3, <2>4, <3>1, <3>2
    <3>4. x = y
      BY <1>0, <3>3 DEF CredentialsOK
    <3> QED BY <3>1, <3>2, <3>4
  <2> QED BY <2>3, <2>4 DEF CredentialsOK
<1>6. \A x \in ActiveTrusts(st) : x # t => x \in ActiveTrusts(u)
  BY <1>1 DEF ActiveTrusts, Active
<1>7. SessionsOK(u.sessions, ActiveTrusts(u))
  <2>1. u.sessions \subseteq st.sessions /\ \A s \in u.sessions : s.trust \in ActiveTrusts(u)
    BY <1>0, <1>1, <1>6 DEF SessionsOK
  <2> HIDE DEF u
  <2> QED BY <1>0, <2>1, SomeSessions
<1>8. InvitationsOK(u.invites, ActiveTrusts(u))
  <2>1. u.invites \subseteq st.invites /\ \A i \in u.invites : i.issuer # None => i.issuer \in ActiveTrusts(u)
    BY <1>0, <1>1, <1>6 DEF InvitationsOK, InvitationOK
  <2> HIDE DEF u
  <2> QED BY <1>0, <2>1, SomeInvitations
<1> HIDE DEF u
<1> QED BY <1>2, <1>5, <1>7, <1>8 DEF Sound, u

\* Making room leaves fewer than the limit.
LEMMA RoomIsMade ==
    ASSUME NEW S, IsFiniteSet(S), NEW limit \in Nat, NEW E \in Oldest(S, Excess(S, limit))
    PROVE  Cardinality(S \ E) + 1 <= limit
<1>1. E \subseteq S /\ Cardinality(E) = Excess(S, limit)
  BY DEF Oldest
<1>2. S \cap E = E
  BY <1>1
<1>3. Cardinality(S \ E) = Cardinality(S) - Cardinality(E)
  BY <1>2, FS_Difference
<1>4. Cardinality(S) \in Nat /\ Cardinality(S \ E) \in Nat
  BY FS_Difference, FS_CardinalityType
<1>5. CASE Cardinality(S) >= limit
  BY <1>1, <1>3, <1>4, <1>5 DEF Excess
<1>6. CASE ~(Cardinality(S) >= limit)
  BY <1>1, <1>3, <1>4, <1>6 DEF Excess
<1> QED BY <1>5, <1>6

\* What addSession leaves of the sessions X has room for one of t.
LEMMA SurvivorsLeaveRoom ==
    ASSUME NEW X, NEW T, SessionsOK(X, T), NEW t, NEW R \in Survivors(X, t)
    PROVE  /\ R \subseteq X /\ Cardinality(R) + 1 <= MaxSessions
           /\ Cardinality(Of(R, t)) + 1 <= MaxTrustSessions
<1> DEFINE own == Of(X, t)
           Left(E) == {(X \ E) \ F : F \in Oldest(X \ E, Excess(X \ E, MaxSessions))}
<1>0. /\ IsFiniteSet(X) /\ MaxSessions \in Nat /\ MaxTrustSessions \in Nat
      /\ IsFiniteSet(own)
  BY FS_Subset, BoundsAreNaturals DEF SessionsOK, Of
<1>1. R \in UNION {Left(E) : E \in Oldest(own, Excess(own, MaxTrustSessions))}
  BY DEF Survivors, Of
<1> HIDE DEF Left
<1>2. PICK E \in Oldest(own, Excess(own, MaxTrustSessions)) : R \in Left(E)
  BY <1>1
<1>3. PICK F \in Oldest(X \ E, Excess(X \ E, MaxSessions)) : R = (X \ E) \ F
  BY <1>2 DEF Left
<1>4. R \subseteq X /\ Of(R, t) \subseteq own \ E
  BY <1>3 DEF Of
<1> HIDE DEF own
<1>5. Cardinality(own \ E) + 1 <= MaxTrustSessions
  BY <1>0, RoomIsMade
<1>6. IsFiniteSet(own \ E) /\ IsFiniteSet(X \ E)
  BY <1>0, FS_Difference
<1>7. Cardinality(R) + 1 <= MaxSessions
  BY <1>0, <1>3, <1>6, RoomIsMade
<1>8. /\ Cardinality(Of(R, t)) <= Cardinality(own \ E)
      /\ Cardinality(Of(R, t)) \in Nat /\ Cardinality(own \ E) \in Nat
  BY <1>4, <1>6, PartIsSmaller
<1>9. Cardinality(Of(R, t)) + 1 <= MaxTrustSessions
  BY <1>0, <1>5, <1>8
<1> QED BY <1>4, <1>7, <1>9

\* A session that addSession adds for an active trusted sign-in fits.
LEMMA AddSessionIsSound ==
    ASSUME NEW st, Sound(st), clock \in Nat, NEW t \in Trusts, t \in ActiveTrusts(st),
           NEW d \in Digests, d \notin DigestsOf(st.sessions), NEW id, NEW S \in AddSession(st, t, d, id)
    PROVE  Sound(WithSessions(st, S))
<1> DEFINE u == WithSessions(st, S)
           T == ActiveTrusts(st)
           X == {s \in st.sessions : id = None \/ s.digest # id.digest}
           n == newSession(d, t, st.lifetime)
<1>0. st \in State /\ SessionsOK(st.sessions, T)
  BY DEF Sound
<1>1. PICK R \in Survivors(X, t) : S = R \cup {n}
  BY Zenon DEF AddSession
<1>2. SessionsOK(X, T)
  <2>1. X \subseteq st.sessions /\ \A s \in X : s.trust \in T
    BY <1>0 DEF SessionsOK
  <2> HIDE DEF X, T
  <2> QED BY <1>0, <2>1, SomeSessions
<1>3. n.digest = d /\ n.trust = t
  BY DEF newSession
<1>4. S \subseteq Session
  BY <1>0, SessionAdded
<1> HIDE DEF X, n, T
<1>5. R \subseteq X /\ Cardinality(R) + 1 <= MaxSessions /\ Cardinality(Of(R, t)) + 1 <= MaxTrustSessions
  BY <1>2, SurvivorsLeaveRoom
<1>6. SessionsOK(R, T)
  BY <1>2, <1>5, SomeSessions DEF SessionsOK
<1>7. IsFiniteSet(R) /\ MaxSessions \in Nat /\ MaxTrustSessions \in Nat
  BY <1>6, BoundsAreNaturals DEF SessionsOK
<1>8. IsFiniteSet(S) /\ Cardinality(S) <= MaxSessions
  <2>1. /\ IsFiniteSet(S) /\ Cardinality(S) <= Cardinality(R) + 1
        /\ Cardinality(S) \in Nat /\ Cardinality(R) \in Nat
    BY <1>1, <1>7, OneMore
  <2> QED BY <1>5, <1>7, <2>1
<1>9. \A r, s \in S : r.digest = s.digest => r = s
  <2>1. \A r \in R : r.digest # d
    BY <1>5 DEF X, DigestsOf
  <2> QED BY <1>1, <1>3, <1>6, <2>1 DEF SessionsOK
<1>10. ASSUME NEW s \in S PROVE s.trust \in T /\ Cardinality(Of(S, s.trust)) <= MaxTrustSessions
  <2>1. CASE s.trust = t
    <3>1. Of(S, t) \subseteq Of(R, t) \cup {n}
      BY <1>1 DEF Of
    <3>2. IsFiniteSet(Of(R, t))
      BY <1>7, FS_Subset DEF Of
    <3>3. /\ Cardinality(Of(S, t)) <= Cardinality(Of(R, t)) + 1
          /\ Cardinality(Of(S, t)) \in Nat /\ Cardinality(Of(R, t)) \in Nat
      BY <3>1, <3>2, OneMore
    <3>4. Cardinality(Of(S, t)) <= MaxTrustSessions
      BY <1>5, <1>7, <3>3
    <3> QED BY <2>1, <3>4 DEF T
  <2>2. CASE s.trust # t
    <3>1. s \in R /\ Of(S, s.trust) = Of(R, s.trust)
      BY <1>1, <1>3, <2>2 DEF Of
    <3> QED BY <1>6, <3>1 DEF SessionsOK
  <2> QED BY <2>1, <2>2
<1>11. SessionsOK(S, T)
  BY <1>8, <1>9, <1>10 DEF SessionsOK
<1>12. u \in State /\ u.sessions = S /\ u.creds = st.creds /\ u.invites = st.invites
  BY <1>0, <1>4 DEF WithSessions, State
<1>13. ActiveTrusts(u) = T
  BY <1>12 DEF ActiveTrusts, Active, T
<1> HIDE DEF u
<1> QED BY <1>11, <1>12, <1>13 DEF Sound, u, T

\* Rewriting a recorded invitation, for the same issuer and no later, leaves a sound state.
LEMMA ReplaceInvitationIsSound ==
    ASSUME NEW st, Sound(st), NEW j \in st.invites, ~j.consumed, NEW i \in Invitation,
           i.digest = j.digest, i.issuer = j.issuer, InvitationOK(i, ActiveTrusts(st))
    PROVE  Sound(ReplaceInvitation(st, i))
<1> DEFINE u == ReplaceInvitation(st, i)
           T == ActiveTrusts(st)
           I == {k \in st.invites : k.digest # i.digest} \cup {i}
<1>0. st \in State /\ InvitationsOK(st.invites, T)
  BY DEF Sound
<1>1. /\ u.invites = I /\ u.creds = st.creds /\ u.sessions = st.sessions /\ u \in State
  BY <1>0 DEF ReplaceInvitation, State
<1>2. ActiveTrusts(u) = T
  BY <1>1 DEF ActiveTrusts, Active
<1>3. I \subseteq (st.invites \ {j}) \cup {i} /\ IsFiniteSet(st.invites)
  BY <1>0 DEF InvitationsOK
<1>4. MaxInvitations \in Nat /\ MaxAuthorizerInvites \in Nat
  BY BoundsAreNaturals
<1>5. \A x, y \in I : x.digest = y.digest => x = y
  BY <1>0 DEF InvitationsOK
<1>6. \A x \in I : InvitationOK(x, T)
  BY <1>0 DEF InvitationsOK
<1> HIDE DEF I, T
<1>7. IsFiniteSet(I) /\ Cardinality(I) <= MaxInvitations
  <2>1. /\ IsFiniteSet(I) /\ Cardinality(I) <= Cardinality(st.invites)
        /\ Cardinality(I) \in Nat /\ Cardinality(st.invites) \in Nat
    BY <1>3, OneExchanged
  <2>2. Cardinality(st.invites) <= MaxInvitations
    BY <1>0 DEF InvitationsOK
  <2> QED BY <1>4, <2>1, <2>2
<1>8. ASSUME NEW x \in I, x.issuer # None, ~x.consumed PROVE Cardinality(From(I, x.issuer)) <= MaxAuthorizerInvites
  <2> DEFINE A == From(st.invites, x.issuer)
  <2>1. IsFiniteSet(A)
    BY <1>3, FS_Subset DEF From
  <2>2. Cardinality(A) <= MaxAuthorizerInvites
    <3>1. \E y \in st.invites : y.issuer = x.issuer /\ ~y.consumed
      BY <1>3, <1>8
    <3> QED BY <1>0, <1>8, <3>1 DEF InvitationsOK
  <2>3. CASE x.issuer = j.issuer
    <3>1. j \in A /\ From(I, x.issuer) \subseteq (A \ {j}) \cup {i}
      BY <1>3, <2>3 DEF From
    <3> HIDE DEF A
    <3>2. /\ Cardinality(From(I, x.issuer)) <= Cardinality(A)
          /\ Cardinality(From(I, x.issuer)) \in Nat /\ Cardinality(A) \in Nat
      BY <2>1, <3>1, OneExchanged
    <3> QED BY <1>4, <2>2, <3>2
  <2>4. CASE x.issuer # j.issuer
    <3>1. From(I, x.issuer) \subseteq A
      BY <1>3, <2>4 DEF From
    <3> HIDE DEF A
    <3>2. /\ Cardinality(From(I, x.issuer)) <= Cardinality(A)
          /\ Cardinality(From(I, x.issuer)) \in Nat /\ Cardinality(A) \in Nat
      BY <2>1, <3>1, PartIsSmaller
    <3> QED BY <1>4, <2>2, <3>2
  <2> QED BY <2>3, <2>4
<1>9. InvitationsOK(I, T)
  BY <1>5, <1>6, <1>7, <1>8 DEF InvitationsOK
<1> HIDE DEF u
<1> QED BY <1>1, <1>2, <1>9 DEF Sound, u, T

\* Registration drops the revoked records and adds one where there is room.
LEMMA RegisterIsSound ==
    ASSUME NEW st, Sound(st), NEW t \in Trusts, t \notin Trusted(st), NEW k \in Keys,
           Cardinality(Active(st)) < MaxCredentials, \A c \in Active(st) : c.key # k
    PROVE  Sound(Register(st, t, k)) /\ t \in ActiveTrusts(Register(st, t, k))
<1> DEFINE new == [trust |-> t, key |-> k, revoked |-> FALSE]
           A == Active(st)
           u == Register(st, t, k)
<1>0. /\ st \in State /\ CredentialsOK(st.creds)
      /\ SessionsOK(st.sessions, ActiveTrusts(st)) /\ InvitationsOK(st.invites, ActiveTrusts(st))
  BY DEF Sound
<1>1. u \in State /\ u.sessions = st.sessions /\ u.invites = st.invites
  BY <1>0, TrustRegistered
<1>2. u.creds = A \cup {new}
  BY <1>0 DEF Register, State
<1>3. new.trust = t /\ new.key = k /\ ~new.revoked
  OBVIOUS
<1>4. A \subseteq st.creds /\ IsFiniteSet(A) /\ (\A c \in A : ~c.revoked)
  BY <1>0, FS_Subset DEF CredentialsOK, Active
<1>5. \A c \in A : c.trust # t /\ c.key # k
  BY <1>4 DEF Trusted
<1>6. ActiveTrusts(st) \subseteq ActiveTrusts(u) /\ t \in ActiveTrusts(u)
  <2>1. \A c \in A : c \in Active(u)
    BY <1>2, <1>4 DEF Active
  <2>2. new \in Active(u)
    BY <1>2, <1>3 DEF Active
  <2> QED BY <1>3, <2>1, <2>2 DEF ActiveTrusts
<1> HIDE DEF new, A
<1>7. CredentialsOK(u.creds)
  <2>1. MaxCredentials \in Nat /\ Cardinality(A) < MaxCredentials
    BY BoundsAreNaturals DEF A
  <2>2. /\ IsFiniteSet(u.creds) /\ Cardinality(u.creds) <= Cardinality(A) + 1
        /\ Cardinality(u.creds) \in Nat /\ Cardinality(A) \in Nat
    <3> HIDE DEF u
    <3> QED BY <1>2, <1>4, OneMore
  <2>3. \A b, c \in u.creds : b.trust = c.trust \/ b.key = c.key => b = c
    BY <1>0, <1>2, <1>3, <1>4, <1>5 DEF CredentialsOK
  <2>4. Cardinality(u.creds) <= MaxCredentials
    <3> HIDE DEF u
    <3> QED BY <2>1, <2>2
  <2> QED BY <2>2, <2>3, <2>4 DEF CredentialsOK
<1> HIDE DEF u
<1>8. SessionsOK(u.sessions, ActiveTrusts(u))
  BY <1>0, <1>1, <1>6 DEF SessionsOK
<1>9. InvitationsOK(u.invites, ActiveTrusts(u))
  BY <1>0, <1>1, <1>6 DEF InvitationsOK, InvitationOK
<1>10. Sound(u)
  BY <1>1, <1>7, <1>8, <1>9 DEF Sound
<1> QED BY <1>6, <1>10 DEF u

\* Sound states stay sound as time goes on, whichever of the two a process takes up.
LEMMA SoundLater ==
    ASSUME Inv, AcceptInv, clock' \in Nat, clock <= clock', mem' \in {mem, disk}, disk' = disk, rejected' = rejected
    PROVE  AcceptInv'
<1>0. clock \in Nat /\ InvitationLifetime \in Nat
  BY BoundsAreNaturals DEF Inv, TypeOK
<1>1. ASSUME NEW st, Sound(st) PROVE Sound(st)'
  <2>1. /\ st \in State /\ CredentialsOK(st.creds)
        /\ SessionsOK(st.sessions, ActiveTrusts(st)) /\ InvitationsOK(st.invites, ActiveTrusts(st))
    BY <1>1 DEF Sound
  <2>2. \A i \in st.invites : i.expires \in Nat
    BY <2>1 DEF State, Invitation
  <2>3. \A i \in st.invites : i.expires <= clock + InvitationLifetime => i.expires <= clock' + InvitationLifetime
    BY <1>0, <2>2
  <2>4. InvitationsOK(st.invites, ActiveTrusts(st))'
    BY <2>1, <2>3 DEF InvitationsOK, InvitationOK
  <2> QED BY <2>1, <2>4 DEF Sound
<1> QED BY <1>1 DEF AcceptInv, Sound

\* The state that OpenProtected writes: pruned, and with an invitation where nobody
\* is trusted and none is left.
LEMMA OpenedIsSound ==
    ASSUME Inv, NEW st, Sound(st), NEW d \in Invites, NEW life \in Lifetimes, NEW b \in BOOLEAN,
           NEW u, u = [st EXCEPT !.invites = IF b THEN {newInvitation(d, None)} ELSE pruneInvitations(st.invites),
                                 !.lifetime = life]
    PROVE  Sound(u)
<1> DEFINE T == ActiveTrusts(st)
           I == IF b THEN {newInvitation(d, None)} ELSE pruneInvitations(st.invites)
<1>0. st \in State /\ InvitationsOK(st.invites, T) /\ clock \in Nat
  BY DEF Sound, Inv, TypeOK
<1>1. /\ u.invites = I /\ u.creds = st.creds /\ u.sessions = st.sessions /\ u.lifetime = life
      /\ u = [creds |-> st.creds, sessions |-> st.sessions, invites |-> I, lifetime |-> life]
  BY <1>0 DEF State
<1>2. newInvitation(d, None) \in Invitation /\ InvitationOK(newInvitation(d, None), T)
      /\ newInvitation(d, None).issuer = None
  BY <1>0, NewInvitationIsOK
<1>3. pruneInvitations(st.invites) \subseteq st.invites /\ InvitationsOK(pruneInvitations(st.invites), T)
  BY <1>0, PrunedInvitations
<1>4. I \subseteq Invitation
  BY <1>0, <1>2, <1>3 DEF State
<1>5. InvitationsOK(I, T)
  <2>1. CASE b
    <3>1. I = {newInvitation(d, None)}
      BY <2>1
    <3>2. IsFiniteSet(I) /\ Cardinality(I) = 1
      BY <3>1, FS_Singleton
    <3>3. 1 <= MaxInvitations
      BY AnInvitationFits, BoundsAreNaturals
    <3> HIDE DEF I
    <3> QED BY <1>2, <3>1, <3>2, <3>3 DEF InvitationsOK
  <2>2. CASE ~b
    BY <1>3, <2>2
  <2> QED BY <2>1, <2>2
<1> HIDE DEF I, T
<1>6. u \in State
  BY <1>0, <1>1, <1>4 DEF State
<1>7. ActiveTrusts(u) = T
  BY <1>1 DEF ActiveTrusts, Active, T
<1> QED BY <1>1, <1>5, <1>6, <1>7 DEF Sound, T

\* No operation of a request builds a state that is refused: each checks for room,
\* makes room, or only removes.
LEMMA BrowserStepAccepted ==
    ASSUME Inv, AcceptInv, NEW h \in Handlers, BrowserStep(h)
    PROVE  AcceptInv'
<1>0. /\ mem \in State /\ Sound(mem) /\ Names(mem) \subseteq minted /\ clock \in Nat
      /\ ident \in [Handlers -> SessionIdentity \cup {None}]
  BY DEF Inv, TypeOK, AcceptInv, Minted
<1>1. ASSUME NEW d \in Invites, CreateBrowserInvitation(h, d) PROVE AcceptInv'
  <2> DEFINE issuer == ident[h].trust
             u == AddInvitation(mem, d, issuer)
  <2>1. PICK ok \in BOOLEAN : CommitLocked(u, ok)
    BY <1>1 DEF CreateBrowserInvitation
  <2>2. issuer \in Trusts /\ issuer \in ActiveTrusts(mem) /\ d \notin minted /\ clock' = clock
    BY <1>0, <1>1 DEF CreateBrowserInvitation, FreshSessions, ActiveSessions, SessionIdentity
  <2>3. /\ Cardinality(pruneInvitations(mem.invites)) < MaxInvitations
        /\ Cardinality({i \in pruneInvitations(mem.invites) : i.issuer = issuer}) < MaxAuthorizerInvites
    BY <1>1 DEF CreateBrowserInvitation
  <2>4. d \notin DigestsOf(mem.invites)
    BY <1>0, <2>2 DEF Names
  <2> HIDE DEF issuer
  <2>5. Sound(u)
    BY <1>0, <2>2, <2>3, <2>4, AddInvitationIsSound
  <2> HIDE DEF u
  <2> QED BY <2>1, <2>2, <2>5, SoundCommit
<1>2. ASSUME NEW t \in Trusts, RevokeBrowser(h, t) PROVE AcceptInv'
  <2>1. PICK ok \in BOOLEAN : CommitLocked(Revoked(mem, t), ok)
    BY <1>2 DEF RevokeBrowser
  <2>2. clock' = clock
    BY <1>2 DEF RevokeBrowser
  <2> QED BY <1>0, <2>1, <2>2, RevokedIsSound, SoundCommit
<1>3. CASE SignOut(h)
  <2> DEFINE S == {s \in mem.sessions : s.digest \notin {ident[h].digest}}
  <2>1. PICK ok \in BOOLEAN : CommitLocked(WithSessions(mem, S), ok)
    BY <1>3 DEF SignOut
  <2>2. clock' = clock /\ S \subseteq mem.sessions
    BY <1>3 DEF SignOut
  <2> HIDE DEF S
  <2> QED BY <1>0, <2>1, <2>2, WithSessionsIsSound, SoundCommit
<1>4. ASSUME NEW d \in Invites, NEW c \in Clients, NEW i \in UsableInvitations(d, c)
      PROVE  \E j \in mem.invites :
                /\ ~j.consumed /\ i \in Invitation /\ i.digest = j.digest /\ i.issuer = j.issuer
                /\ i.expires = j.expires /\ InvitationOK(i, ActiveTrusts(mem))
  <2>1. PICK j \in mem.invites :
           /\ ~j.consumed
           /\ i = [j EXCEPT !.client = IF Reserved(j) THEN @ ELSE None,
                            !.until  = IF Reserved(j) THEN @ ELSE None]
    BY DEF UsableInvitations
  <2>2. j \in Invitation /\ InvitationOK(j, ActiveTrusts(mem))
    BY <1>0 DEF Sound, State, InvitationsOK
  <2>3. /\ i \in Invitation /\ i.digest = j.digest /\ i.issuer = j.issuer /\ i.expires = j.expires
        /\ i.consumed = j.consumed
        /\ \/ i.client = j.client /\ i.until = j.until
           \/ i.client = None /\ i.until = None
    BY <2>1, <2>2 DEF Invitation
  <2> QED BY <2>1, <2>2, <2>3 DEF InvitationOK
<1>5. ASSUME NEW c \in Clients, NEW d \in Invites, NEW ok \in BOOLEAN, ReserveInvitation(h, c, d, ok) PROVE AcceptInv'
  <2>1. PICK i \in UsableInvitations(d, c) :
          LET until == IF clock + ReservationLifetime > i.expires THEN i.expires ELSE clock + ReservationLifetime
          IN CommitLocked(ReplaceInvitation(mem,
                IF i.until = None THEN [i EXCEPT !.client = c, !.until = until] ELSE i), ok)
    BY <1>5 DEF ReserveInvitation
  <2> DEFINE until == IF clock + ReservationLifetime > i.expires THEN i.expires ELSE clock + ReservationLifetime
             r == IF i.until = None THEN [i EXCEPT !.client = c, !.until = until] ELSE i
  <2>2. CommitLocked(ReplaceInvitation(mem, r), ok) /\ clock' = clock
    BY <1>5, <2>1 DEF ReserveInvitation
  <2>3. PICK j \in mem.invites :
           /\ ~j.consumed /\ i \in Invitation /\ i.digest = j.digest /\ i.issuer = j.issuer
           /\ i.expires = j.expires /\ InvitationOK(i, ActiveTrusts(mem))
    BY <1>4
  <2>4. i.expires \in Nat /\ i.expires <= clock + InvitationLifetime /\ ~i.consumed
    <3>1. ~i.consumed
      BY <1>0, <2>1, UsableIsOpen
    <3> QED BY <2>3, <3>1 DEF Invitation, InvitationOK
  <2>5. until \in Nat /\ until <= i.expires /\ until > i.expires - InvitationLifetime
    <3>1. /\ ReservationLifetime \in Nat /\ ReservationLifetime > 0
          /\ InvitationLifetime \in Nat /\ InvitationLifetime > 0
      BY BoundsAreNaturals
    <3> QED BY <1>0, <2>4, <3>1
  <2>6. c # None /\ until # None
    BY <2>5, NoneIsNoName
  <2> HIDE DEF until
  <2>7. /\ r \in Invitation /\ r.digest = j.digest /\ r.issuer = j.issuer /\ r.expires = i.expires
        /\ r.consumed = FALSE
        /\ \/ r.client = c /\ r.until = until
           \/ r = i
    BY <2>3, <2>4, <2>5 DEF Invitation
  <2> HIDE DEF r
  <2>8. InvitationOK(r, ActiveTrusts(mem))
    BY <2>3, <2>5, <2>6, <2>7 DEF InvitationOK
  <2>9. Sound(ReplaceInvitation(mem, r))
    BY <1>0, <2>3, <2>7, <2>8, ReplaceInvitationIsSound
  <2> QED BY <2>2, <2>9, SoundCommit
<1>6. ASSUME NEW st, Sound(st), st.sessions = mem.sessions, NEW t \in Trusts, t \in ActiveTrusts(st),
             NEW d \in Digests, NEW ok \in BOOLEAN, CommitSession(h, st, t, d, ok), clock' = clock
      PROVE  AcceptInv'
  <2>1. PICK S \in AddSession(st, t, d, ident[h]) : CommitLocked(WithSessions(st, S), ok)
    BY <1>6 DEF CommitSession
  <2>2. d \notin DigestsOf(st.sessions)
    BY <1>0, <1>6 DEF CommitSession, Names
  <2>3. Sound(WithSessions(st, S))
    BY <1>0, <1>6, <2>2, AddSessionIsSound
  <2> QED BY <1>6, <2>1, <2>3, SoundCommit
<1>7. ASSUME NEW t \in Trusts, NEW k \in Keys, NEW d \in Digests, NEW re \in BOOLEAN, NEW ok \in BOOLEAN,
             CommitAssertion(h, t, k, d, re, ok) PROVE AcceptInv'
  <2>1. t \in ActiveTrusts(mem) /\ CommitSession(h, mem, t, d, ok) /\ clock' = clock
    BY <1>7 DEF CommitAssertion, AssertionHolds, ActiveTrusts
  <2> QED BY <1>0, <1>6, <2>1
<1>8. ASSUME NEW c \in Clients, NEW i \in Invites, NEW k \in Keys, NEW t \in Trusts, NEW d \in Digests,
             NEW ok \in BOOLEAN, CommitRegistration(h, c, i, k, t, d, ok) PROVE AcceptInv'
  <2>1. PICK inv \in UsableInvitations(i, c) :
          /\ Cardinality(Active(mem)) < MaxCredentials /\ \A x \in Active(mem) : x.key # k
          /\ CommitSession(h, Register(ReplaceInvitation(mem, Consume(inv)), t, k), t, d, ok)
    BY <1>8 DEF CommitRegistration, Registrable
  <2>2. t \notin minted /\ clock' = clock
    BY <1>8 DEF CommitRegistration
  <2> DEFINE used == Consume(inv)
             r == ReplaceInvitation(mem, used)
             st == Register(r, t, k)
  <2>3. PICK j \in mem.invites :
           /\ ~j.consumed /\ inv \in Invitation /\ inv.digest = j.digest /\ inv.issuer = j.issuer
           /\ inv.expires = j.expires /\ InvitationOK(inv, ActiveTrusts(mem))
    BY <1>4
  <2>4. /\ used \in Invitation /\ used.digest = j.digest /\ used.issuer = j.issuer /\ used.expires = inv.expires
        /\ used.consumed /\ used.client = None /\ used.until = None
    BY <2>3 DEF Consume, Invitation
  <2> HIDE DEF used
  <2>5. InvitationOK(used, ActiveTrusts(mem))
    BY <2>3, <2>4 DEF InvitationOK
  <2>6. Sound(r)
    BY <1>0, <2>3, <2>4, <2>5, ReplaceInvitationIsSound
  <2>7. r.creds = mem.creds /\ r.sessions = mem.sessions
    BY <1>0, <2>4, InvitationReplaced
  <2> HIDE DEF r
  <2>8. Active(r) = Active(mem) /\ t \notin Trusted(r)
    BY <1>0, <2>2, <2>7 DEF Active, Trusted, Names
  <2>9. Sound(st) /\ t \in ActiveTrusts(st)
    BY <2>1, <2>6, <2>8, RegisterIsSound
  <2>10. st.sessions = mem.sessions
    BY <2>6, <2>7, TrustRegistered DEF Sound
  <2>11. CommitSession(h, st, t, d, ok)
    BY <2>1 DEF r, used
  <2> HIDE DEF st
  <2> QED BY <1>6, <2>2, <2>9, <2>10, <2>11
<1> QED BY <1>1, <1>2, <1>3, <1>5, <1>7, <1>8 DEF BrowserStep

\* A new or reset file is sound.
LEMMA EmptyStateIsSound ==
    ASSUME NEW life \in Lifetimes
    PROVE  Sound(EmptyState(life))
<1>1. EmptyState(life).creds = {} /\ EmptyState(life).sessions = {} /\ EmptyState(life).invites = {}
  BY DEF EmptyState
<1>2. IsFiniteSet({}) /\ Cardinality({}) = 0
  BY FS_EmptySet
<1> QED BY <1>1, <1>2, EmptyStateIsValid, BoundsAreNaturals
        DEF Sound, CredentialsOK, SessionsOK, InvitationsOK

\* A process builds no state that is refused when it starts, expires sessions or runs a
\* command of the operator.
LEMMA NextAccepted == Inv /\ AcceptInv /\ [Next]_vars => AcceptInv'
<1> SUFFICES ASSUME Inv, AcceptInv, [Next]_vars PROVE AcceptInv'
  OBVIOUS
<1>0. /\ mem \in State /\ disk \in State /\ Sound(mem) /\ Sound(disk) /\ clock \in Nat
      /\ Names(mem) \subseteq minted
  BY DEF Inv, TypeOK, AcceptInv, Minted
<1>1. ASSUME NEW h \in Handlers, BrowserStep(h) PROVE AcceptInv'
  BY <1>1, BrowserStepAccepted
<1>2. CASE (\E h \in Handlers : RequestStep(h)) \/ LoopWaited \/ StopLoop \/ CancelAll \/ Closed \/ Crash
           \/ OpenExistingStopped \/ UNCHANGED vars
  <2>1. mem' \in {mem, disk} /\ disk' = disk /\ rejected' = rejected /\ clock' = clock
    BY <1>2 DEF RequestStep, Admit, Bind, BeginRead, EndRead, EndRequest, Report, LoopWaited, StopLoop, CancelAll,
                Closed, Crash, Gone, OpenExistingStopped, vars, storeVars
  <2> QED BY <1>0, <2>1, SoundLater
<1>3. CASE Tick
  <2>1. mem' = mem /\ disk' = disk /\ rejected' = rejected /\ clock' = clock + 1
    BY <1>3 DEF Tick, storeVars
  <2> QED BY <1>0, <2>1, SoundLater
<1>4. ASSUME NEW ok \in BOOLEAN, ExpireSessions(ok), clock' = clock PROVE AcceptInv'
  <2> DEFINE S == {s \in mem.sessions : ~Expired(s)}
  <2>1. CommitLocked(WithSessions(mem, S), ok) /\ S \subseteq mem.sessions
    BY <1>4 DEF ExpireSessions
  <2> HIDE DEF S
  <2> QED BY <1>0, <1>4, <2>1, WithSessionsIsSound, SoundCommit
<1>5. CASE expiryLoop
  BY <1>4, <1>5 DEF expiryLoop
<1>6. CASE NewManager
  <2>1. CASE \E ok \in BOOLEAN : ExpireSessions(ok)
    BY <1>4, <1>6, <2>1 DEF NewManager
  <2>2. CASE UNCHANGED storeVars
    BY <1>0, <1>6, <2>2, SoundLater DEF NewManager, storeVars
  <2> QED BY <1>6, <2>1, <2>2 DEF NewManager
<1>7. ASSUME NEW set \in BOOLEAN, NEW life \in Lifetimes, NEW d \in Invites, OpenProtected(set, life, d) PROVE AcceptInv'
  <2> DEFINE kept == [disk EXCEPT !.invites = pruneInvitations(@), !.lifetime = IF set THEN life ELSE @]
             bootstrap == Active(kept) = {} /\ kept.invites = {}
             u == [kept EXCEPT !.invites = IF bootstrap THEN {newInvitation(d, None)} ELSE @]
             lifetime == IF set THEN life ELSE disk.lifetime
             b == bootstrap
  <2>1. PICK ok \in BOOLEAN :
           \/ CommitLocked(u, ok)
           \/ mem' = disk /\ UNCHANGED <<disk, failures, minted, rejected>>
    BY <1>7 DEF OpenProtected
  <2>2. clock' = clock
    BY <1>7 DEF OpenProtected
  <2>3. lifetime \in Lifetimes /\ b \in BOOLEAN
    BY <1>0 DEF State
  <2>4. u = [disk EXCEPT !.invites = IF b THEN {newInvitation(d, None)} ELSE pruneInvitations(disk.invites),
                         !.lifetime = lifetime]
    BY <1>0 DEF State
  <2> HIDE DEF lifetime, bootstrap, u, b
  <2>5. Sound(u)
    BY <1>0, <2>3, <2>4, OpenedIsSound
  <2>6. CASE CommitLocked(u, ok)
    BY <2>2, <2>5, <2>6, SoundCommit
  <2>7. CASE mem' = disk /\ UNCHANGED <<disk, failures, minted, rejected>>
    BY <1>0, <2>2, <2>7, SoundLater
  <2> QED BY <2>1, <2>6, <2>7
<1>8. ASSUME NEW d \in Invites, CreateLocalInvitation(d) PROVE AcceptInv'
  <2>1. PICK ok \in BOOLEAN : CommitLocked(AddInvitation(mem, d, None), ok)
    BY <1>8 DEF CreateLocalInvitation
  <2>2. /\ clock' = clock /\ Cardinality(pruneInvitations(mem.invites)) < MaxInvitations /\ d \notin minted
    BY <1>8 DEF CreateLocalInvitation
  <2>3. d \notin DigestsOf(mem.invites)
    BY <1>0, <2>2 DEF Names
  <2>4. Sound(AddInvitation(mem, d, None))
    BY <1>0, <2>2, <2>3, AddInvitationIsSound
  <2> QED BY <2>1, <2>2, <2>4, SoundCommit
<1>9. ASSUME NEW t \in Trusts, RevokeLocal(t) PROVE AcceptInv'
  <2>1. PICK ok \in BOOLEAN : CommitLocked(Revoked(mem, t), ok)
    BY <1>9 DEF RevokeLocal
  <2>2. clock' = clock
    BY <1>9 DEF RevokeLocal
  <2> QED BY <1>0, <2>1, <2>2, RevokedIsSound, SoundCommit
<1>10. CASE Reset
  <2>1. PICK ok \in BOOLEAN : CommitLocked(EmptyState(mem.lifetime), ok)
    BY <1>10 DEF Reset
  <2>2. clock' = clock /\ mem.lifetime \in Lifetimes
    BY <1>0, <1>10 DEF Reset, State
  <2>3. Sound(EmptyState(mem.lifetime))
    BY <2>2, EmptyStateIsSound
  <2> QED BY <2>1, <2>2, <2>3, SoundCommit
<1> QED BY <1>1, <1>2, <1>3, <1>5, <1>6, <1>7, <1>8, <1>9, <1>10 DEF Next, ProcessStep

\* No operation ever builds a state that commitLocked turns away (types.go:104-191): the
\* operations themselves prune, evict, revoke and check for room, so no person's change
\* is lost to a limit or to a state that could not be loaded again.
THEOREM ValidationAccepts == Spec => []ValidationNeverRefuses
<1>1. Init => AcceptInv
  BY EmptyStateIsSound DEF Init, AcceptInv
<1>2. Inv /\ AcceptInv /\ [Next]_vars => AcceptInv'
  BY NextAccepted
<1>3. AcceptInv => ValidationNeverRefuses
  BY DEF AcceptInv, ValidationNeverRefuses
<1> QED BY <1>1, <1>2, <1>3, Invariance, PTL DEF Spec

-----------------------------------------------------------------------------
(***************************************************************************)
(* Ceremonies.                                                             *)
(***************************************************************************)

Kinds == {"signin", "reauth", "trust"}

\* There are ceremonies only while the service is up; it never stops its loop
\* by itself, so every end is a Restart.
OnlyWhileUp ==
    /\ mode \in {"down", "opened", "up"}
    /\ mode # "up" => /\ ceremonies = NoRecords /\ attempts = NoRecords
                      /\ finish = [h \in Handlers |-> None]

\* A ceremony lives inside an attempt window that ends when it does.
WindowsCoverCeremonies ==
    \A key \in CeremonyKeys : ceremonies[key] # None =>
        attempts[key] # None /\ attempts[key].expires = ceremonies[key].expires

\* An open window of a trust ceremony is the reservation of its invitation,
\* and there is none for an invitation that does not exist yet.
WindowsAreReservations ==
    \A i \in Invites : attempts[TrustKey(i)] # None =>
        /\ i \in minted
        /\ clock < attempts[TrustKey(i)].expires =>
              \A inv \in mem.invites : inv.digest = i =>
                  inv.consumed \/ inv.until = attempts[TrustKey(i)].expires

\* Two requests never finish the ceremony of one key.
FinishesDiffer ==
    \A g, h \in Handlers : g # h /\ finish[g] # None /\ finish[h] # None =>
        finish[g].key # finish[h].key

\* Challenges are issued in order, and each to one ceremony.
ChallengesDiffer ==
    /\ \A key \in CeremonyKeys : ceremonies[key] # None => ceremonies[key].challenge <= challenge
    /\ \A j, k \in CeremonyKeys :
          ceremonies[j] # None /\ ceremonies[k] # None
              /\ ceremonies[j].challenge = ceremonies[k].challenge => j = k

\* Only an issued challenge was committed, only by a finish that is about to
\* remove its ceremony, or by one that has.
CommitsAreFinal ==
    /\ \A n \in 1..MaxBegins : commits[n] # 0 => n <= challenge
    /\ \A h \in Handlers : finish[h] # None /\ finish[h].step # "succeeded" =>
          commits[finish[h].challenge] = 0
    /\ \A key \in CeremonyKeys :
          ceremonies[key] # None /\ commits[ceremonies[key].challenge] # 0 =>
              \E h \in Handlers : At(h, "succeeded") /\ finish[h].key = key

FinitePools ==
    \A kind \in Kinds : IsFiniteSet(Pool(ceremonies, kind)) /\ IsFiniteSet(Pool(attempts, kind))

\* A finish past its verification, however it ended, was verified for a passkey.
PasskeysVerified ==
    \A h \in Handlers : finish[h] # None =>
        (finish[h].step \notin {"verify", "failed"} => finish[h].passkey \in Keys)

\* What ceremonyMu guards: the pools, the finishes and their challenges.
PoolsInv ==
    /\ CeremonyTypeOK /\ FinitePools /\ PoolsAreBounded /\ WindowsCoverCeremonies
    /\ FinishesKeepTheirCeremony /\ FinishesDiffer /\ PasskeysVerified
    /\ ChallengesDiffer /\ CommitsAreFinal /\ ChallengesAreSingleUse

\* How that agrees with what the gate guards.
LinkInv == OnlyWhileUp /\ WindowsAreReservations /\ TrustCeremoniesHoldReservations

CeremonyInv == Inv /\ PoolsInv /\ LinkInv

-----------------------------------------------------------------------------
(* The ceremonies only ever do to the access state what Access allows.     *)

\* The keys of a reauthentication or a sign-in are not those of a trust ceremony, and a
\* trust key names its invitation.
LEMMA TrustKeysNameInvites ==
    /\ \A i \in Invites : TrustKey(i) \in CeremonyKeys /\ Kind(TrustKey(i)) = "trust"
    /\ \A i, j \in Invites : TrustKey(i) = TrustKey(j) => i = j
    /\ \A key \in CeremonyKeys :
          /\ Kind(key) \in Kinds
          /\ Kind(key) = "trust" => key[2] \in Invites /\ key = TrustKey(key[2])
BY DEF CeremonyKeys, TrustKey, SignInKey, ReauthKey, Kind, Kinds

\* A finish has the types of its record.
LEMMA FinishTypes ==
    ASSUME CeremonyTypeOK, NEW h \in Handlers, finish[h] # None
    PROVE  /\ finish[h] \in Finish
           /\ finish[h].key \in CeremonyKeys /\ finish[h].client \in Clients
           /\ finish[h].challenge \in 1..MaxBegins /\ finish[h].expires \in Nat
           /\ finish[h].passkey \in Keys \cup {None}
BY DEF CeremonyTypeOK, Finish

\* The commit of an assertion is one of Access: the passkey it found is an active one.
LEMMA FinishAssertionAccess ==
    ASSUME Inv, CeremonyTypeOK, NEW h \in Handlers, NEW d \in Digests, NEW ok \in BOOLEAN,
           FinishAssertion(h, d, ok)
    PROVE  Next
<1> DEFINE t == finish[h].trust
           k == finish[h].passkey
           re == Kind(finish[h].key) = "reauth"
<1>1. CommitAssertion(h, t, k, d, re, ok)
  BY DEF FinishAssertion
<1>2. PICK c \in Active(mem) : c.trust = t /\ c.key = k
  BY <1>1 DEF CommitAssertion, AssertionHolds
<1>3. t \in Trusts /\ k \in Keys
  BY <1>2 DEF Inv, TypeOK, State, Active, Credential
<1>4. re \in BOOLEAN
  OBVIOUS
<1> HIDE DEF t, k, re
<1> QED BY <1>1, <1>3, <1>4 DEF Next, BrowserStep

\* So is the commit of a registration: its key names an invitation, and a passkey was verified.
LEMMA FinishRegistrationAccess ==
    ASSUME Inv, CeremonyTypeOK, NEW h \in Handlers, NEW t \in Trusts, NEW d \in Digests,
           NEW ok \in BOOLEAN, FinishRegistration(h, t, d, ok), finish[h].passkey \in Keys
    PROVE  Next
<1> DEFINE c == finish[h].client
           i == finish[h].key[2]
           k == finish[h].passkey
<1>1. CommitRegistration(h, c, i, k, t, d, ok) /\ finish[h] # None /\ Kind(finish[h].key) = "trust"
  BY DEF FinishRegistration, At
<1>2. c \in Clients /\ i \in Invites /\ k \in Keys
  BY <1>1, FinishTypes, TrustKeysNameInvites
<1> HIDE DEF c, i, k
<1> QED BY <1>1, <1>2 DEF Next, BrowserStep

-----------------------------------------------------------------------------
(* The pools: dropping records, and installing one.                        *)

\* C and A are the two maps with records dropped, windows last.
Drops(C, A) ==
    /\ C \in [CeremonyKeys -> Ceremony \cup {None}] /\ A \in [CeremonyKeys -> Attempts \cup {None}]
    /\ \A key \in CeremonyKeys :
          /\ C[key] \in {None, ceremonies[key]} /\ A[key] \in {None, attempts[key]}
          /\ C[key] # None => A[key] # None

\* C still has the ceremony that h is finishing.
Keeps(C, h) == finish[h] # None => C[finish[h].key] = ceremonies[finish[h].key]

\* The bounds of the pools of one map.
Bounded(F) == \A kind \in Kinds : /\ IsFiniteSet(Pool(F, kind))
                                  /\ Cardinality(Pool(F, kind)) <= PoolLimit(kind)

\* PoolsInv, with the bounds of the two maps apart.
LEMMA PoolsInvParts ==
    PoolsInv <=> /\ CeremonyTypeOK /\ Bounded(ceremonies) /\ Bounded(attempts)
                 /\ \A i, j \in Invites :
                      LET a == ceremonies[TrustKey(i)] b == ceremonies[TrustKey(j)]
                      IN a # None /\ b # None /\ a.client = b.client => i = j
                 /\ WindowsCoverCeremonies /\ FinishesKeepTheirCeremony /\ FinishesDiffer
                 /\ PasskeysVerified /\ ChallengesDiffer /\ CommitsAreFinal /\ ChallengesAreSingleUse
BY DEF PoolsInv, FinitePools, PoolsAreBounded, Bounded, Kinds

\* The limits of the pools are numbers.
LEMMA LimitsAreNaturals == \A kind \in Kinds : PoolLimit(kind) \in Nat
BY CeremonyBounds DEF Kinds, PoolLimit

\* Smaller pools keep within their bounds.
LEMMA FewerAreBounded ==
    ASSUME NEW F, NEW G, Bounded(F), \A key \in CeremonyKeys : G[key] # None => F[key] # None
    PROVE  Bounded(G)
<1> SUFFICES ASSUME NEW kind \in Kinds
             PROVE  /\ IsFiniteSet(Pool(G, kind)) /\ Cardinality(Pool(G, kind)) <= PoolLimit(kind)
  BY DEF Bounded
<1>1. Pool(G, kind) \subseteq Pool(F, kind)
  BY DEF Pool
<1>2. IsFiniteSet(Pool(F, kind)) /\ Cardinality(Pool(F, kind)) <= PoolLimit(kind)
  BY DEF Bounded
<1>3. /\ IsFiniteSet(Pool(G, kind))
      /\ Cardinality(Pool(G, kind)) <= Cardinality(Pool(F, kind))
      /\ Cardinality(Pool(G, kind)) \in Nat /\ Cardinality(Pool(F, kind)) \in Nat
  BY <1>1, <1>2, FS_Subset, FS_CardinalityType
<1> QED BY <1>2, <1>3, LimitsAreNaturals

\* So does a pool that had room for the key that is added.
LEMMA OneMoreIsBounded ==
    ASSUME NEW F, NEW G, Bounded(F), NEW new \in CeremonyKeys,
           \A key \in CeremonyKeys \ {new} : G[key] # None => F[key] # None,
           Cardinality(Pool(F, Kind(new)) \cup {new}) <= PoolLimit(Kind(new))
    PROVE  Bounded(G)
<1> SUFFICES ASSUME NEW kind \in Kinds
             PROVE  /\ IsFiniteSet(Pool(G, kind)) /\ Cardinality(Pool(G, kind)) <= PoolLimit(kind)
  BY DEF Bounded
<1>1. /\ IsFiniteSet(Pool(F, kind)) /\ Cardinality(Pool(F, kind)) <= PoolLimit(kind)
      /\ PoolLimit(kind) \in Nat
  BY LimitsAreNaturals DEF Bounded
<1> DEFINE P == IF kind = Kind(new) THEN Pool(F, kind) \cup {new} ELSE Pool(F, kind)
<1>2. Pool(G, kind) \subseteq P
  BY DEF Pool
<1>3. IsFiniteSet(P) /\ Cardinality(P) <= PoolLimit(kind)
  BY <1>1, FS_AddElement
<1> HIDE DEF P
<1>4. /\ IsFiniteSet(Pool(G, kind)) /\ Cardinality(Pool(G, kind)) <= Cardinality(P)
      /\ Cardinality(Pool(G, kind)) \in Nat /\ Cardinality(P) \in Nat
  BY <1>2, <1>3, FS_Subset, FS_CardinalityType
<1> QED BY <1>1, <1>3, <1>4

\* pruneCeremoniesLocked drops what has expired and keeps what is being verified.
LEMMA PruningDrops ==
    ASSUME PoolsInv, clock \in Nat
    PROVE  /\ Drops(PrunedCeremonies, PrunedAttempts)
           /\ \A key \in CeremonyKeys : InFlight(key) => PrunedCeremonies[key] = ceremonies[key]
           /\ \A key \in CeremonyKeys :
                 attempts[key] # None /\ clock < attempts[key].expires =>
                    PrunedAttempts[key] = attempts[key] /\ PrunedCeremonies[key] = ceremonies[key]
           /\ \A h \in Handlers : Keeps(PrunedCeremonies, h)
<1>1. /\ CeremonyTypeOK /\ WindowsCoverCeremonies /\ FinishesKeepTheirCeremony
  BY DEF PoolsInv
<1>2. /\ PrunedCeremonies \in [CeremonyKeys -> Ceremony \cup {None}]
      /\ PrunedAttempts \in [CeremonyKeys -> Attempts \cup {None}]
  BY <1>1 DEF CeremonyTypeOK, PrunedCeremonies, PrunedAttempts
<1>3. ASSUME NEW key \in CeremonyKeys
      PROVE  /\ PrunedCeremonies[key] \in {None, ceremonies[key]}
             /\ PrunedAttempts[key] \in {None, attempts[key]}
             /\ PrunedCeremonies[key] # None => PrunedAttempts[key] # None
             /\ InFlight(key) => PrunedCeremonies[key] = ceremonies[key]
             /\ attempts[key] # None /\ clock < attempts[key].expires =>
                    PrunedAttempts[key] = attempts[key] /\ PrunedCeremonies[key] = ceremonies[key]
  <2>1. /\ ceremonies[key] # None => ceremonies[key].expires \in Nat
        /\ attempts[key] # None => attempts[key].expires \in Nat
    BY <1>1 DEF CeremonyTypeOK, Ceremony, Attempts
  <2> QED BY <1>1, <2>1 DEF PrunedCeremonies, PrunedAttempts, WindowsCoverCeremonies
<1>4. \A h \in Handlers : Keeps(PrunedCeremonies, h)
  BY <1>1, <1>3, FinishTypes DEF Keeps, FinishesKeepTheirCeremony, Own
<1> QED BY <1>2, <1>3, <1>4 DEF Drops

\* A step that drops records, none of a finish that goes on, and no challenge or commit.
LEMMA DropStep ==
    ASSUME PoolsInv, NEW C, NEW A, Drops(C, A), ceremonies' = C, attempts' = A,
           UNCHANGED <<challenge, commits>>, finish' \in [Handlers -> Finish \cup {None}],
           \A h \in Handlers : finish'[h] # None => finish'[h] = finish[h] /\ Keeps(C, h),
           \A h \in Handlers : At(h, "succeeded") /\ finish'[h] = None => C[finish[h].key] = None
    PROVE  PoolsInv'
<1>1. /\ CeremonyTypeOK /\ Bounded(ceremonies) /\ Bounded(attempts)
      /\ WindowsCoverCeremonies /\ FinishesKeepTheirCeremony /\ FinishesDiffer
      /\ PasskeysVerified /\ ChallengesDiffer /\ CommitsAreFinal /\ ChallengesAreSingleUse
  BY PoolsInvParts
<1>2. \A key \in CeremonyKeys : /\ C[key] \in {None, ceremonies[key]} /\ A[key] \in {None, attempts[key]}
                                /\ C[key] # None => A[key] # None
  BY DEF Drops
<1>3. CeremonyTypeOK'
  BY <1>1 DEF CeremonyTypeOK, Drops
<1>4. Bounded(ceremonies') /\ Bounded(attempts')
  BY <1>1, <1>2, FewerAreBounded
<1>5. \A i, j \in Invites :
         LET a == ceremonies'[TrustKey(i)] b == ceremonies'[TrustKey(j)]
         IN a # None /\ b # None /\ a.client = b.client => i = j
  BY <1>2, TrustKeysNameInvites, PoolsInvParts
<1>6. WindowsCoverCeremonies' /\ ChallengesDiffer' /\ ChallengesAreSingleUse'
  BY <1>1, <1>2 DEF WindowsCoverCeremonies, ChallengesDiffer, ChallengesAreSingleUse
<1>7. FinishesKeepTheirCeremony'
  <2> SUFFICES ASSUME NEW h \in Handlers, finish'[h] # None
               PROVE  Own(h)'
    BY DEF FinishesKeepTheirCeremony
  <2>1. finish'[h] = finish[h] /\ C[finish[h].key] = ceremonies[finish[h].key]
    BY DEF Keeps
  <2> QED BY <1>1, <2>1 DEF FinishesKeepTheirCeremony, Own, InFlight
<1>8. FinishesDiffer' /\ PasskeysVerified'
  BY <1>1 DEF FinishesDiffer, PasskeysVerified, At
<1>9. CommitsAreFinal'
  <2>1. ASSUME NEW key \in CeremonyKeys,
               ceremonies'[key] # None, commits'[ceremonies'[key].challenge] # 0
        PROVE  \E h \in Handlers : At(h, "succeeded")' /\ finish'[h].key = key
    <3>1. ceremonies'[key] = ceremonies[key]
      BY <1>2, <2>1
    <3>2. PICK h \in Handlers : At(h, "succeeded") /\ finish[h].key = key
      BY <1>1, <2>1, <3>1 DEF CommitsAreFinal
    <3>3. finish'[h] = finish[h]
      BY <2>1, <3>2
    <3> QED BY <3>2, <3>3 DEF At
  <2> QED BY <1>1, <2>1 DEF CommitsAreFinal
<1> HIDE DEF Drops
<1> QED BY <1>3, <1>4, <1>5, <1>6, <1>7, <1>8, <1>9
        DEF PoolsInv, FinitePools, PoolsAreBounded, Bounded, Kinds

\* What Install leaves under its key and elsewhere.
LEMMA InstallEffect ==
    ASSUME PoolsInv, NEW C, NEW A, Drops(C, A), NEW key \in CeremonyKeys,
           NEW c \in Clients, NEW expires \in Nat, clock \in Nat, challenge < MaxBegins,
           Install(C, A, key, c, expires),
           A[key] # None /\ clock < A[key].expires => A[key].expires = expires
    PROVE  /\ ceremonies' \in [CeremonyKeys -> Ceremony \cup {None}]
           /\ attempts' \in [CeremonyKeys -> Attempts \cup {None}]
           /\ ceremonies'[key] # None /\ ~ceremonies'[key].inFlight
           /\ ceremonies'[key].client = c /\ ceremonies'[key].expires = expires
           /\ ceremonies'[key].challenge = challenge + 1 /\ challenge' = challenge + 1
           /\ attempts'[key] # None /\ attempts'[key].expires = expires
           /\ A[key] # None /\ clock < A[key].expires => attempts'[key] = A[key]
           /\ \A k \in CeremonyKeys \ {key} : ceremonies'[k] = C[k] /\ attempts'[k] = A[k]
<1> DEFINE cer == [client |-> c, expires |-> expires, challenge |-> challenge + 1, inFlight |-> FALSE]
           att == [count |-> 0, expires |-> expires]
<1>1. /\ challenge + 1 \in 1..MaxBegins /\ 0 \in 0..maxAttempts
  BY CeremonyBounds DEF PoolsInv, CeremonyTypeOK
<1>2. cer \in Ceremony /\ att \in Attempts
  <2>1. cer \in Ceremony
    BY <1>1 DEF Ceremony
  <2>2. att \in Attempts
    BY <1>1 DEF Attempts
  <2> QED BY <2>1, <2>2
<1>3. /\ cer # None /\ cer.expires = expires /\ cer.challenge = challenge + 1 /\ cer.client = c
      /\ ~cer.inFlight /\ att # None /\ att.expires = expires
  <2>1. cer # None /\ att # None
    BY <1>2, NoneIsNoRecord
  <2> QED BY <2>1
<1>4. /\ challenge' = challenge + 1 /\ ceremonies' = [C EXCEPT ![key] = cer]
      /\ attempts' = IF A[key] = None \/ clock >= A[key].expires THEN [A EXCEPT ![key] = att] ELSE A
  BY DEF Install
<1>5. A[key] # None => A[key].expires \in Nat
  BY DEF Drops, Attempts
<1> HIDE DEF cer, att
<1> QED BY <1>2, <1>3, <1>4, <1>5 DEF Drops

\* A begin drops records and installs a new ceremony under a key that nobody is finishing.
LEMMA InstallStep ==
    ASSUME PoolsInv, NEW C, NEW A, Drops(C, A), NEW key \in CeremonyKeys, ~InFlight(key),
           NEW c \in Clients, NEW expires \in Nat, clock \in Nat, challenge < MaxBegins,
           \A h \in Handlers : Keeps(C, h),
           Install(C, A, key, c, expires), UNCHANGED <<finish, commits>>,
           A[key] # None /\ clock < A[key].expires => A[key].expires = expires,
           Cardinality(Pool(C, Kind(key)) \cup {key}) <= PoolLimit(Kind(key)),
           Cardinality(Pool(A, Kind(key)) \cup {key}) <= PoolLimit(Kind(key)),
           \A j \in Invites : key # TrustKey(j) /\ C[TrustKey(j)] # None /\ Kind(key) = "trust" =>
                                  C[TrustKey(j)].client # c
    PROVE  PoolsInv'
<1>1. /\ CeremonyTypeOK /\ Bounded(ceremonies) /\ Bounded(attempts)
      /\ WindowsCoverCeremonies /\ FinishesKeepTheirCeremony /\ FinishesDiffer
      /\ PasskeysVerified /\ ChallengesDiffer /\ CommitsAreFinal /\ ChallengesAreSingleUse
  BY PoolsInvParts
<1>2. \A k \in CeremonyKeys : /\ C[k] \in {None, ceremonies[k]} /\ A[k] \in {None, attempts[k]}
                              /\ C[k] # None => A[k] # None
  BY DEF Drops
<1>3. MaxBegins \in Nat /\ challenge \in Nat
  BY <1>1, CeremonyBounds DEF CeremonyTypeOK
<1>6. /\ ceremonies' \in [CeremonyKeys -> Ceremony \cup {None}]
      /\ attempts' \in [CeremonyKeys -> Attempts \cup {None}]
      /\ ceremonies'[key] # None /\ ceremonies'[key].client = c /\ ceremonies'[key].expires = expires
      /\ ceremonies'[key].challenge = challenge + 1 /\ challenge' = challenge + 1
      /\ attempts'[key] # None /\ attempts'[key].expires = expires
      /\ \A k \in CeremonyKeys \ {key} : ceremonies'[k] = C[k] /\ attempts'[k] = A[k]
  BY InstallEffect
<1>8. CeremonyTypeOK'
  BY <1>1, <1>3, <1>6 DEF CeremonyTypeOK
<1>9. Bounded(ceremonies') /\ Bounded(attempts')
  <2>1. Bounded(C) /\ Bounded(A)
    BY <1>1, <1>2, FewerAreBounded
  <2> QED BY <1>6, <2>1, OneMoreIsBounded
<1>10. \A i, j \in Invites :
         LET a == ceremonies'[TrustKey(i)] b == ceremonies'[TrustKey(j)]
         IN a # None /\ b # None /\ a.client = b.client => i = j
  <2>1. \A i, j \in Invites :
           LET a == ceremonies[TrustKey(i)] b == ceremonies[TrustKey(j)]
           IN a # None /\ b # None /\ a.client = b.client => i = j
    BY PoolsInvParts
  <2>2. \A j \in Invites : key # TrustKey(j) /\ ceremonies'[TrustKey(j)] # None /\ Kind(key) = "trust" =>
                              ceremonies'[TrustKey(j)].client # c
    BY <1>6, TrustKeysNameInvites
  <2>3. \A j \in Invites : key # TrustKey(j) =>
                              ceremonies'[TrustKey(j)] \in {None, ceremonies[TrustKey(j)]}
    BY <1>2, <1>6, TrustKeysNameInvites
  <2> QED BY <1>6, <2>1, <2>2, <2>3, TrustKeysNameInvites
<1>11. WindowsCoverCeremonies'
  <2>1. \A k \in CeremonyKeys \ {key} : ceremonies'[k] # None =>
            attempts'[k] # None /\ attempts'[k].expires = ceremonies'[k].expires
    BY <1>1, <1>2, <1>6 DEF WindowsCoverCeremonies
  <2> QED BY <1>6, <2>1 DEF WindowsCoverCeremonies
<1>12. \A h \in Handlers : finish[h] # None =>
          finish[h].key \in CeremonyKeys \ {key} /\ ceremonies'[finish[h].key] = ceremonies[finish[h].key]
  BY <1>1, <1>6, FinishTypes DEF FinishesKeepTheirCeremony, Own, Keeps
<1>13. FinishesKeepTheirCeremony' /\ FinishesDiffer' /\ PasskeysVerified'
  BY <1>1, <1>12
  DEF FinishesKeepTheirCeremony, Own, InFlight, FinishesDiffer, PasskeysVerified, At
<1>14. ChallengesDiffer'
  <2>1. \A k \in CeremonyKeys \ {key} : ceremonies'[k] # None =>
            ceremonies'[k] = ceremonies[k] /\ ceremonies[k].challenge <= challenge
                /\ ceremonies[k].challenge \in Nat
    BY <1>1, <1>2, <1>3, <1>6 DEF ChallengesDiffer, CeremonyTypeOK, Ceremony
  <2> QED BY <1>1, <1>3, <1>6, <2>1 DEF ChallengesDiffer
<1>15. CommitsAreFinal'
  <2>1. \A n \in 1..MaxBegins : commits'[n] # 0 => n <= challenge'
    BY <1>1, <1>3, <1>6 DEF CommitsAreFinal
  <2>2. \A h \in Handlers : finish'[h] # None /\ finish'[h].step # "succeeded" =>
           commits'[finish'[h].challenge] = 0
    BY <1>1 DEF CommitsAreFinal
  <2>3. commits[challenge + 1] = 0
    BY <1>1, <1>3 DEF CommitsAreFinal
  <2>4. ASSUME NEW k \in CeremonyKeys, ceremonies'[k] # None, commits'[ceremonies'[k].challenge] # 0
        PROVE  \E h \in Handlers : At(h, "succeeded")' /\ finish'[h].key = k
    <3>1. k # key
      BY <1>6, <2>3, <2>4
    <3>2. ceremonies'[k] = ceremonies[k]
      BY <1>2, <1>6, <2>4, <3>1
    <3> QED BY <1>1, <2>4, <3>2 DEF CommitsAreFinal, At
  <2> QED BY <2>1, <2>2, <2>4 DEF CommitsAreFinal
<1>16. ChallengesAreSingleUse'
  BY <1>1 DEF ChallengesAreSingleUse
<1> QED BY <1>8, <1>9, <1>10, <1>11, <1>13, <1>14, <1>15, <1>16
        DEF PoolsInv, FinitePools, PoolsAreBounded, Bounded, Kinds

\* makeCeremonyRoomLocked leaves room for one more record under key.
LEMMA RoomForOne ==
    ASSUME NEW F, NEW G, Bounded(F), NEW key \in CeremonyKeys, NEW R,
           \A k \in CeremonyKeys : G[k] # None => F[k] # None /\ k \notin R,
           F[key] # None \/ Cardinality(Pool(F, Kind(key)) \ R) < PoolLimit(Kind(key))
    PROVE  Cardinality(Pool(G, Kind(key)) \cup {key}) <= PoolLimit(Kind(key))
<1> DEFINE kind == Kind(key)
           P == Pool(F, kind) \ R
           Q == Pool(G, kind) \cup {key}
<1> SUFFICES Cardinality(Q) <= PoolLimit(kind)
  OBVIOUS
<1>1. /\ IsFiniteSet(Pool(F, kind)) /\ Cardinality(Pool(F, kind)) <= PoolLimit(kind)
      /\ PoolLimit(kind) \in Nat /\ Cardinality(Pool(F, kind)) \in Nat
  BY LimitsAreNaturals, TrustKeysNameInvites, FS_CardinalityType DEF Bounded
<1>2. Pool(G, kind) \subseteq P
  BY DEF Pool
<1>3. IsFiniteSet(P)
  <2>1. P \subseteq Pool(F, kind)
    OBVIOUS
  <2> QED BY <1>1, <2>1, FS_Subset
<1>4. CASE F[key] # None
  <2>1. Q \subseteq Pool(F, kind)
    BY <1>2, <1>4 DEF Pool
  <2>2. Cardinality(Q) <= Cardinality(Pool(F, kind)) /\ Cardinality(Q) \in Nat
    BY <1>1, <2>1, FS_Subset, FS_CardinalityType
  <2> HIDE DEF Q
  <2> QED BY <1>1, <2>2
<1>5. CASE Cardinality(P) < PoolLimit(kind)
  <2>1. IsFiniteSet(P \cup {key}) /\ Cardinality(P \cup {key}) <= Cardinality(P) + 1
    <3> HIDE DEF P
    <3>1. /\ IsFiniteSet(P \cup {key})
          /\ Cardinality(P \cup {key}) = IF key \in P THEN Cardinality(P) ELSE Cardinality(P) + 1
      BY <1>3, FS_AddElement
    <3>2. Cardinality(P) \in Nat
      BY <1>3, FS_CardinalityType
    <3> QED BY <3>1, <3>2
  <2>2. Q \subseteq P \cup {key}
    BY <1>2
  <2>3. Cardinality(Q) <= Cardinality(P \cup {key}) /\ Cardinality(Q) \in Nat
    BY <2>1, <2>2, FS_Subset, FS_CardinalityType
  <2>4. Cardinality(P) \in Nat /\ Cardinality(P \cup {key}) \in Nat
    BY <1>3, <2>1, FS_CardinalityType
  <2> HIDE DEF P, Q
  <2> QED BY <1>1, <1>5, <2>1, <2>3, <2>4
<1> HIDE DEF Q
<1> QED BY <1>4, <1>5

-----------------------------------------------------------------------------
(* What each step of a ceremony does to the pools.                         *)

\* The evicted records are dropped from both maps, and none of them is being verified.
LEMMA EvictionDrops ==
    ASSUME PoolsInv, clock \in Nat, NEW key \in CeremonyKeys,
           NEW R \in Evictions(PrunedCeremonies, PrunedAttempts, key)
    PROVE  /\ Drops(Without(PrunedCeremonies, R), Without(PrunedAttempts, R))
           /\ Room(PrunedCeremonies, PrunedAttempts, key, R)
           /\ \A h \in Handlers : Keeps(Without(PrunedCeremonies, R), h)
           /\ R # {} => Kind(key) = "signin" /\ ~Room(PrunedCeremonies, PrunedAttempts, key, {})
<1> DEFINE C == PrunedCeremonies
           A == PrunedAttempts
<1>1. /\ Drops(C, A) /\ \A h \in Handlers : Keeps(C, h)
      /\ CeremonyTypeOK /\ FinishesKeepTheirCeremony
  BY PruningDrops DEF PoolsInv
<1>2. /\ \A k \in R : C[k] = None \/ ~C[k].inFlight
      /\ Room(C, A, key, R)
      /\ R # {} => Kind(key) = "signin" /\ ~Room(C, A, key, {})
  <2> HIDE DEF C, A
  <2>1. CASE Room(C, A, key, {})
    <3>1. Evictions(C, A, key) = {{}}
      BY <2>1 DEF Evictions
    <3>2. R = {}
      BY <3>1 DEF C, A
    <3> QED BY <2>1, <3>2
  <2>2. CASE ~Room(C, A, key, {})
    <3>1. Kind(key) = "signin" /\ R \in SUBSET Evictable(C, A) /\ Room(C, A, key, R)
      BY <2>2 DEF Evictions, C, A
    <3> QED BY <2>2, <3>1 DEF Evictable
  <2> QED BY <2>1, <2>2
<1> HIDE DEF C, A
<1>3. Drops(Without(C, R), Without(A, R))
  BY <1>1 DEF Drops, Without
<1>4. ASSUME NEW h \in Handlers, finish[h] # None
      PROVE  Without(C, R)[finish[h].key] = ceremonies[finish[h].key]
  <2>1. /\ finish[h].key \in CeremonyKeys /\ C[finish[h].key] = ceremonies[finish[h].key]
        /\ ceremonies[finish[h].key] # None /\ ceremonies[finish[h].key].inFlight
    BY <1>1, <1>4, FinishTypes DEF Keeps, FinishesKeepTheirCeremony, Own, InFlight
  <2>2. finish[h].key \notin R
    BY <1>2, <2>1
  <2> QED BY <2>1, <2>2 DEF Without
<1> QED BY <1>2, <1>3, <1>4 DEF C, A, Keeps

\* A begin of a sign-in or a reauthentication.
LEMMA BeginAssertionPools ==
    ASSUME PoolsInv, clock \in Nat, NEW h \in Handlers, NEW c \in Clients, NEW key \in CeremonyKeys,
           beginAssertion(h, key, c)
    PROVE  PoolsInv'
<1> DEFINE C == PrunedCeremonies
           A == PrunedAttempts
<1>1. PICK R \in Evictions(C, A, key) :
         Install(Without(C, R), Without(A, R), key, c, BeginDeadline(Without(A, R), key))
  BY DEF beginAssertion
<1>2. /\ ~InFlight(key) /\ challenge < MaxBegins /\ UNCHANGED <<finish, commits>>
      /\ Kind(key) # "trust"
  BY DEF beginAssertion, SignInKey, ReauthKey, Kind
<1>3. /\ Drops(Without(C, R), Without(A, R)) /\ Room(C, A, key, R)
      /\ \A g \in Handlers : Keeps(Without(C, R), g)
  BY EvictionDrops
<1>4. Bounded(C) /\ Bounded(A)
  <2>1. Bounded(ceremonies) /\ Bounded(attempts)
    BY PoolsInvParts
  <2> QED BY <2>1, PruningDrops, FewerAreBounded DEF Drops
<1> HIDE DEF C, A
<1>5. /\ Cardinality(Pool(Without(C, R), Kind(key)) \cup {key}) <= PoolLimit(Kind(key))
      /\ Cardinality(Pool(Without(A, R), Kind(key)) \cup {key}) <= PoolLimit(Kind(key))
  <2>1. \A F : \A k \in CeremonyKeys : Without(F, R)[k] # None => F[k] # None /\ k \notin R
    BY DEF Without
  <2>2. /\ C[key] # None \/ Cardinality(Pool(C, Kind(key)) \ R) < PoolLimit(Kind(key))
        /\ A[key] # None \/ Cardinality(Pool(A, Kind(key)) \ R) < PoolLimit(Kind(key))
    BY <1>3 DEF Room
  <2>3. Cardinality(Pool(Without(C, R), Kind(key)) \cup {key}) <= PoolLimit(Kind(key))
    BY <1>4, <2>1, <2>2, RoomForOne
  <2>4. Cardinality(Pool(Without(A, R), Kind(key)) \cup {key}) <= PoolLimit(Kind(key))
    BY <1>4, <2>1, <2>2, RoomForOne
  <2> QED BY <2>3, <2>4
<1> DEFINE X == Without(C, R)
           Y == Without(A, R)
           expires == BeginDeadline(Y, key)
<1>6. expires \in Nat /\ (Y[key] # None /\ clock < Y[key].expires => Y[key].expires = expires)
  <2>1. Y[key] # None => Y[key].expires \in Nat
    BY <1>3 DEF Drops, Attempts
  <2> HIDE DEF Y
  <2>2. clock + ReservationLifetime \in Nat
    BY BoundsAreNaturals
  <2> QED BY <2>1, <2>2 DEF BeginDeadline
<1>7. Drops(X, Y) /\ Install(X, Y, key, c, expires) /\ \A g \in Handlers : Keeps(X, g)
  BY <1>1, <1>3
<1> HIDE DEF X, Y, expires
<1> QED BY <1>2, <1>5, <1>6, <1>7, InstallStep DEF X, Y

\* A begin or a finish that is turned away only prunes.
LEMMA PruneOnlyPools ==
    ASSUME PoolsInv, clock \in Nat, ceremonies' = PrunedCeremonies, attempts' = PrunedAttempts,
           UNCHANGED <<finish, challenge, commits>>
    PROVE  PoolsInv'
<1> DEFINE C == PrunedCeremonies
           A == PrunedAttempts
<1>1. Drops(C, A) /\ \A h \in Handlers : Keeps(C, h)
  BY PruningDrops
<1>2. ceremonies' = C /\ attempts' = A
  OBVIOUS
<1>3. finish' \in [Handlers -> Finish \cup {None}] /\ finish' = finish
  BY DEF PoolsInv, CeremonyTypeOK
<1>4. \A h \in Handlers : ~(At(h, "succeeded") /\ finish'[h] = None)
  BY <1>3 DEF At
<1> HIDE DEF C, A
<1> QED BY <1>1, <1>2, <1>3, <1>4, DropStep

\* A finish is carried out in the code's order.
LEMMA FinishMoves ==
    ASSUME PoolsInv, NEW h \in Handlers, finish[h] # None, finish[h].step # "succeeded",
           NEW f \in Finish, f.key = finish[h].key, f.challenge = finish[h].challenge,
           f.step \notin {"verify", "failed"} => f.passkey \in Keys,
           finish' = [finish EXCEPT ![h] = f], UNCHANGED <<ceremonies, attempts, challenge>>,
           commits' = [commits EXCEPT ![f.challenge] = IF f.step = "succeeded" THEN @ + 1 ELSE @]
    PROVE  PoolsInv'
<1>1. /\ CeremonyTypeOK /\ FinitePools /\ PoolsAreBounded /\ WindowsCoverCeremonies
      /\ FinishesKeepTheirCeremony /\ FinishesDiffer /\ PasskeysVerified
      /\ ChallengesDiffer /\ CommitsAreFinal /\ ChallengesAreSingleUse
  BY DEF PoolsInv
<1>2. /\ f # None /\ f.challenge \in 1..MaxBegins /\ f.key \in CeremonyKeys
      /\ finish'[h] = f /\ \A g \in Handlers \ {h} : finish'[g] = finish[g]
      /\ commits[f.challenge] = 0
  <2>1. f.challenge \in 1..MaxBegins /\ f.key \in CeremonyKeys
    BY DEF Finish
  <2> QED BY <1>1, <2>1, NoneIsNoRecord DEF CeremonyTypeOK, CommitsAreFinal
<1>3. /\ InFlight(f.key) /\ ceremonies[f.key].challenge = f.challenge
  BY <1>1 DEF FinishesKeepTheirCeremony, Own
<1>4. /\ \A n \in 1..MaxBegins : commits'[n] \in Nat /\ (n # f.challenge => commits'[n] = commits[n])
      /\ commits'[f.challenge] = IF f.step = "succeeded" THEN 1 ELSE 0
      /\ commits' \in [1..MaxBegins -> Nat]
  BY <1>1, <1>2 DEF CeremonyTypeOK
<1>5. CeremonyTypeOK' /\ FinitePools' /\ PoolsAreBounded' /\ WindowsCoverCeremonies' /\ ChallengesDiffer'
  BY <1>1, <1>4
  DEF CeremonyTypeOK, FinitePools, PoolsAreBounded, Pool, WindowsCoverCeremonies, ChallengesDiffer
<1>6. FinishesKeepTheirCeremony' /\ FinishesDiffer' /\ PasskeysVerified'
  BY <1>1, <1>2
  DEF FinishesKeepTheirCeremony, Own, InFlight, FinishesDiffer, PasskeysVerified, At
<1>7. ChallengesAreSingleUse'
  BY <1>1, <1>4 DEF ChallengesAreSingleUse
<1>8. ASSUME NEW g \in Handlers \ {h}, finish[g] # None
      PROVE  finish[g].challenge # f.challenge /\ finish[g].challenge \in 1..MaxBegins
  <2>1. finish[g].key \in CeremonyKeys /\ finish[g].key # f.key /\ finish[g].challenge \in 1..MaxBegins
    BY <1>1, <1>8, FinishTypes DEF FinishesDiffer
  <2>2. InFlight(finish[g].key) /\ ceremonies[finish[g].key].challenge = finish[g].challenge
    BY <1>1, <1>8 DEF FinishesKeepTheirCeremony, Own
  <2> QED BY <1>1, <1>2, <1>3, <2>1, <2>2 DEF ChallengesDiffer, InFlight
<1>9. CommitsAreFinal'
  <2>1. \A n \in 1..MaxBegins : commits'[n] # 0 => n <= challenge'
    BY <1>1, <1>2, <1>3, <1>4 DEF CommitsAreFinal, ChallengesDiffer, InFlight
  <2>2. \A g \in Handlers : finish'[g] # None /\ finish'[g].step # "succeeded" =>
           commits'[finish'[g].challenge] = 0
    BY <1>1, <1>2, <1>4, <1>8 DEF CommitsAreFinal
  <2>3. ASSUME NEW key \in CeremonyKeys, ceremonies'[key] # None, commits'[ceremonies'[key].challenge] # 0
        PROVE  \E g \in Handlers : At(g, "succeeded")' /\ finish'[g].key = key
    <3>1. CASE key = f.key
      BY <1>2, <1>3, <1>4, <2>3, <3>1 DEF At
    <3>2. CASE key # f.key
      <4>1. /\ ceremonies[key].challenge # f.challenge
            /\ ceremonies[key].challenge \in 1..MaxBegins
        BY <1>1, <1>2, <1>3, <2>3, <3>2 DEF ChallengesDiffer, InFlight, CeremonyTypeOK, Ceremony
      <4>2. PICK g \in Handlers : At(g, "succeeded") /\ finish[g].key = key
        BY <1>1, <1>4, <2>3, <4>1 DEF CommitsAreFinal
      <4> QED BY <1>2, <3>2, <4>2 DEF At
    <3> QED BY <3>1, <3>2
  <2> QED BY <2>1, <2>2, <2>3 DEF CommitsAreFinal
<1> QED BY <1>5, <1>6, <1>7, <1>9 DEF PoolsInv

\* resolveCeremony removes its own ceremony and no other.
LEMMA ResolvePools ==
    ASSUME PoolsInv, NEW h \in Handlers, resolveCeremony(h)
    PROVE  PoolsInv'
<1> DEFINE key == finish[h].key
           C == [ceremonies EXCEPT ![key] = None]
           A == attempts'
<1>1. /\ CeremonyTypeOK /\ WindowsCoverCeremonies /\ FinishesKeepTheirCeremony /\ FinishesDiffer
      /\ finish[h] # None
  BY DEF PoolsInv, resolveCeremony, At
<1>2. key \in CeremonyKeys /\ Own(h)
  BY <1>1, FinishTypes DEF FinishesKeepTheirCeremony
<1>3. /\ ceremonies' = C /\ A \in {attempts, [attempts EXCEPT ![key] = None]}
      /\ finish' = [finish EXCEPT ![h] = None] /\ UNCHANGED <<challenge, commits>>
  BY <1>2 DEF resolveCeremony
<1>4. Drops(C, A)
  BY <1>1, <1>2, <1>3 DEF Drops, CeremonyTypeOK, WindowsCoverCeremonies
<1>5. \A g \in Handlers : finish'[g] # None => finish'[g] = finish[g] /\ Keeps(C, g)
  BY <1>1, <1>2, <1>3, FinishTypes DEF FinishesDiffer, CeremonyTypeOK, Keeps
<1>6. \A g \in Handlers : At(g, "succeeded") /\ finish'[g] = None => C[finish[g].key] = None
  BY <1>1, <1>2, <1>3 DEF CeremonyTypeOK, At
<1>7. finish' \in [Handlers -> Finish \cup {None}] /\ attempts' = A
  BY <1>1, <1>3 DEF CeremonyTypeOK
<1> HIDE DEF C, A
<1> QED BY <1>3, <1>4, <1>5, <1>6, <1>7, DropStep

\* A process that ends takes every ceremony with it.
LEMMA RestartPools ==
    ASSUME PoolsInv, Restart
    PROVE  PoolsInv'
<1>1. Drops(NoRecords, NoRecords)
  BY DEF Drops, NoRecords
<1>2. \A h \in Handlers : finish[h] # None => NoRecords[finish[h].key] = None
  BY FinishTypes DEF PoolsInv, NoRecords
<1>3. /\ ceremonies' = NoRecords /\ attempts' = NoRecords /\ UNCHANGED <<challenge, commits>>
      /\ finish' \in [Handlers -> Finish \cup {None}] /\ \A h \in Handlers : finish'[h] = None
  BY DEF Restart
<1> QED BY <1>1, <1>2, <1>3, DropStep DEF At

\* startCeremonyVerification takes one ceremony, whose challenge was never committed.
LEMMA StartPools ==
    ASSUME PoolsInv, clock \in Nat, NEW h \in Handlers, NEW kind \in Kinds, NEW c \in Clients,
           NEW n \in 1..MaxBegins, startCeremonyVerification(h, kind, c, n),
           ident[h] = None \/ ident[h].digest \in Digests
    PROVE  PoolsInv'
<1> DEFINE C == PrunedCeremonies
           A == PrunedAttempts
<1>1. PICK key \in FinishKeys(h, kind, c) :
         /\ C[key] # None /\ ~InFlight(key) /\ C[key].client = c /\ clock < C[key].expires
         /\ ~Exhausted(A, key)
         /\ attempts' = [A EXCEPT ![key].count = @ + 1]
         /\ ceremonies' = [C EXCEPT ![key].inFlight = TRUE]
         /\ finish' = [finish EXCEPT ![h] =
                [key |-> key, client |-> c, challenge |-> C[key].challenge,
                 expires |-> C[key].expires, answer |-> n,
                 trust |-> None, passkey |-> None, step |-> "verify"]]
  BY DEF startCeremonyVerification
<1>2. finish[h] = None /\ UNCHANGED <<challenge, commits>>
  BY DEF startCeremonyVerification
<1>3. key \in CeremonyKeys
  BY DEF FinishKeys, Kinds, CeremonyKeys
<1>4. /\ Drops(C, A) /\ \A g \in Handlers : Keeps(C, g)
  BY PruningDrops
<1>5. /\ CeremonyTypeOK /\ Bounded(ceremonies) /\ Bounded(attempts)
      /\ WindowsCoverCeremonies /\ FinishesKeepTheirCeremony /\ FinishesDiffer
      /\ PasskeysVerified /\ ChallengesDiffer /\ CommitsAreFinal /\ ChallengesAreSingleUse
  BY PoolsInvParts
<1> HIDE DEF C, A
<1>6. /\ C[key] = ceremonies[key] /\ C[key] \in Ceremony
      /\ A[key] = attempts[key] /\ A[key] # None /\ A[key] \in Attempts
      /\ A[key].expires = C[key].expires
  BY <1>1, <1>3, <1>4, <1>5 DEF Drops, WindowsCoverCeremonies
<1> DEFINE cer == [C[key] EXCEPT !.inFlight = TRUE]
           att == [A[key] EXCEPT !.count = @ + 1]
           f == [key |-> key, client |-> c, challenge |-> C[key].challenge,
                 expires |-> C[key].expires, answer |-> n,
                 trust |-> None, passkey |-> None, step |-> "verify"]
<1>7. /\ cer \in Ceremony /\ cer # None /\ cer.inFlight /\ cer.client = C[key].client
      /\ cer.challenge = C[key].challenge /\ cer.expires = C[key].expires
  BY <1>6, NoneIsNoRecord DEF Ceremony
<1>8. att \in Attempts /\ att # None /\ att.expires = A[key].expires
  <2>1. A[key].count + 1 \in 0..maxAttempts
    BY <1>1, <1>6, CeremonyBounds DEF Exhausted, Attempts
  <2>2. att \in Attempts
    BY <1>6, <2>1 DEF Attempts
  <2> QED BY <1>6, <2>2, NoneIsNoRecord DEF Attempts
<1>9. /\ f \in Finish /\ f # None /\ f.key = key /\ f.challenge = C[key].challenge /\ f.step = "verify"
  <2>1. f \in Finish
    BY <1>3, <1>6 DEF Finish, Ceremony
  <2> QED BY <2>1, NoneIsNoRecord
<1>10. /\ ceremonies' = [C EXCEPT ![key] = cer] /\ attempts' = [A EXCEPT ![key] = att]
       /\ finish' = [finish EXCEPT ![h] = f]
  BY <1>1
<1> HIDE DEF cer, att, f
<1>11. /\ ceremonies' \in [CeremonyKeys -> Ceremony \cup {None}] /\ ceremonies'[key] = cer
       /\ attempts' \in [CeremonyKeys -> Attempts \cup {None}] /\ attempts'[key] = att
       /\ finish' \in [Handlers -> Finish \cup {None}] /\ finish'[h] = f
       /\ \A k \in CeremonyKeys \ {key} : ceremonies'[k] = C[k] /\ attempts'[k] = A[k]
       /\ \A g \in Handlers \ {h} : finish'[g] = finish[g]
  BY <1>3, <1>4, <1>5, <1>7, <1>8, <1>9, <1>10 DEF Drops, CeremonyTypeOK
<1>12. \A k \in CeremonyKeys :
          /\ ceremonies'[k] # None =>
                /\ ceremonies[k] # None /\ attempts'[k] # None
                /\ ceremonies'[k].client = ceremonies[k].client
                /\ ceremonies'[k].challenge = ceremonies[k].challenge
                /\ ceremonies'[k].expires = ceremonies[k].expires
                /\ attempts'[k].expires = attempts[k].expires
          /\ attempts'[k] # None => attempts[k] # None
  BY <1>1, <1>4, <1>6, <1>7, <1>8, <1>11 DEF Drops
<1>13. CeremonyTypeOK'
  BY <1>2, <1>5, <1>11 DEF CeremonyTypeOK
<1>14. Bounded(ceremonies') /\ Bounded(attempts')
  BY <1>5, <1>12, FewerAreBounded
<1>15. \A i, j \in Invites :
         LET a == ceremonies'[TrustKey(i)] b == ceremonies'[TrustKey(j)]
         IN a # None /\ b # None /\ a.client = b.client => i = j
  BY <1>12, TrustKeysNameInvites, PoolsInvParts
<1>16. WindowsCoverCeremonies' /\ ChallengesDiffer' /\ ChallengesAreSingleUse'
  BY <1>2, <1>5, <1>12 DEF WindowsCoverCeremonies, ChallengesDiffer, ChallengesAreSingleUse
<1>17. \A g \in Handlers : finish[g] # None =>
          finish[g].key \in CeremonyKeys \ {key} /\ ceremonies'[finish[g].key] = ceremonies[finish[g].key]
  BY <1>1, <1>4, <1>5, <1>11, FinishTypes DEF FinishesKeepTheirCeremony, Own, Keeps
<1>18. FinishesKeepTheirCeremony' /\ FinishesDiffer' /\ PasskeysVerified'
  <2>1. FinishesKeepTheirCeremony'
    BY <1>2, <1>3, <1>5, <1>7, <1>9, <1>11, <1>17 DEF FinishesKeepTheirCeremony, Own, InFlight
  <2>2. FinishesDiffer' /\ PasskeysVerified'
    BY <1>5, <1>9, <1>11, <1>17 DEF FinishesDiffer, PasskeysVerified, At
  <2> QED BY <2>1, <2>2
<1>19. CommitsAreFinal'
  <2>1. commits[ceremonies[key].challenge] = 0
    BY <1>1, <1>3, <1>5, <1>6 DEF CommitsAreFinal, FinishesKeepTheirCeremony, Own, At
  <2>2. \A n1 \in 1..MaxBegins : commits'[n1] # 0 => n1 <= challenge'
    BY <1>2, <1>5 DEF CommitsAreFinal
  <2>3. \A g \in Handlers : finish'[g] # None /\ finish'[g].step # "succeeded" =>
           commits'[finish'[g].challenge] = 0
    BY <1>2, <1>5, <1>6, <1>9, <1>11, <2>1 DEF CommitsAreFinal
  <2>4. ASSUME NEW k \in CeremonyKeys, ceremonies'[k] # None, commits'[ceremonies'[k].challenge] # 0
        PROVE  \E g \in Handlers : At(g, "succeeded")' /\ finish'[g].key = k
    <3>1. PICK g \in Handlers : At(g, "succeeded") /\ finish[g].key = k
      BY <1>2, <1>5, <1>12, <2>4 DEF CommitsAreFinal
    <3> QED BY <1>2, <1>11, <3>1 DEF At
  <2> QED BY <2>2, <2>3, <2>4 DEF CommitsAreFinal
<1> QED BY <1>13, <1>14, <1>15, <1>16, <1>18, <1>19
        DEF PoolsInv, FinitePools, PoolsAreBounded, Bounded, Kinds

\* The verification, and the check before the commit, only move the finish on.
LEMMA VerificationPools ==
    ASSUME PoolsInv, NEW h \in Handlers,
           \/ \E t \in Trusts \cup {None}, k \in Keys : Verified(h, t, k)
           \/ VerificationFailed(h) \/ ceremonyCanCommit(h) \/ CommitRefused(h)
    PROVE  PoolsInv'
<1>1. /\ finish[h] # None /\ finish[h].step \in {"verify", "verified", "commit"}
      /\ UNCHANGED <<ceremonies, attempts, challenge, commits>>
  BY DEF Verified, VerificationFailed, ceremonyCanCommit, CommitRefused, At
<1>2. /\ finish[h] \in Finish /\ finish[h].challenge \in 1..MaxBegins
      /\ finish[h].step \notin {"verify", "failed"} => finish[h].passkey \in Keys
      /\ commits \in [1..MaxBegins -> Nat]
  BY <1>1, FinishTypes DEF PoolsInv, PasskeysVerified, At, CeremonyTypeOK
<1>3. PICK f \in Finish : /\ f.key = finish[h].key /\ f.challenge = finish[h].challenge
                          /\ f.step \notin {"verify", "failed"} => f.passkey \in Keys
                          /\ f.step # "succeeded" /\ finish' = [finish EXCEPT ![h] = f]
  <2>1. ASSUME NEW t \in Trusts \cup {None}, NEW k \in Keys, Verified(h, t, k)
        PROVE  \E f \in Finish : /\ f.key = finish[h].key /\ f.challenge = finish[h].challenge
                                 /\ f.step \notin {"verify", "failed"} => f.passkey \in Keys
                                 /\ f.step # "succeeded" /\ finish' = [finish EXCEPT ![h] = f]
    <3> DEFINE f == [finish[h] EXCEPT !.trust = t, !.passkey = k, !.step = "verified"]
    <3>1. /\ f \in Finish /\ f.key = finish[h].key /\ f.challenge = finish[h].challenge
          /\ f.passkey \in Keys /\ f.step = "verified"
      BY <1>2 DEF Finish
    <3>2. finish' = [finish EXCEPT ![h] = f]
      BY <1>1, <2>1 DEF Verified, PoolsInv, CeremonyTypeOK
    <3> HIDE DEF f
    <3> QED BY <3>1, <3>2
  <2>2. ASSUME NEW step \in {"failed", "terminal", "commit"}, Goto(h, step),
               step # "failed" => finish[h].step \in {"verified", "commit"}
        PROVE  \E f \in Finish : /\ f.key = finish[h].key /\ f.challenge = finish[h].challenge
                                 /\ f.step \notin {"verify", "failed"} => f.passkey \in Keys
                                 /\ f.step # "succeeded" /\ finish' = [finish EXCEPT ![h] = f]
    <3> DEFINE f == [finish[h] EXCEPT !.step = step]
    <3>1. /\ f \in Finish /\ f.key = finish[h].key /\ f.challenge = finish[h].challenge
          /\ f.passkey = finish[h].passkey /\ f.step = step
      BY <1>2 DEF Finish
    <3>2. finish' = [finish EXCEPT ![h] = f]
      BY <1>1, <2>2 DEF Goto, PoolsInv, CeremonyTypeOK
    <3>3. f.step \notin {"verify", "failed"} => f.passkey \in Keys
      BY <1>2, <2>2, <3>1 DEF At
    <3> HIDE DEF f
    <3> QED BY <3>1, <3>2, <3>3
  <2>3. CASE \E t \in Trusts \cup {None}, k \in Keys : Verified(h, t, k)
    BY <2>1, <2>3
  <2>4. CASE VerificationFailed(h)
    <3>1. Goto(h, "failed")
      BY <2>4 DEF VerificationFailed
    <3> QED BY <2>2, <3>1
  <2>5. CASE ceremonyCanCommit(h)
    <3>1. (Goto(h, "commit") \/ Goto(h, "terminal")) /\ At(h, "verified")
      BY <2>5 DEF ceremonyCanCommit
    <3> QED BY <2>2, <3>1 DEF At
  <2>6. CASE CommitRefused(h)
    <3>1. Goto(h, "terminal") /\ At(h, "commit")
      BY <2>6 DEF CommitRefused
    <3> QED BY <2>2, <3>1 DEF At
  <2> QED BY <2>3, <2>4, <2>5, <2>6
<1>4. commits' = [commits EXCEPT ![f.challenge] = IF f.step = "succeeded" THEN @ + 1 ELSE @]
  BY <1>1, <1>2, <1>3
<1> QED BY <1>1, <1>3, <1>4, FinishMoves

\* A commit counts once for the challenge of the finish.
LEMMA CommittedPools ==
    ASSUME PoolsInv, NEW h \in Handlers, At(h, "commit"), NEW ok \in BOOLEAN, Committed(h, ok)
    PROVE  PoolsInv'
<1> DEFINE f == [finish[h] EXCEPT !.step = IF ok THEN "succeeded" ELSE "terminal"]
<1>1. finish[h] # None /\ finish[h].step = "commit" /\ finish[h] \in Finish
  BY FinishTypes DEF At, PoolsInv
<1>2. /\ f \in Finish /\ f.key = finish[h].key /\ f.challenge = finish[h].challenge
      /\ f.step = IF ok THEN "succeeded" ELSE "terminal"
      /\ f.passkey = finish[h].passkey
  BY <1>1 DEF Finish
<1>3. finish' = [finish EXCEPT ![h] = f] /\ UNCHANGED <<ceremonies, attempts, challenge>>
  BY <1>1 DEF Committed, Goto, PoolsInv, CeremonyTypeOK
<1>4. commits' = [commits EXCEPT ![f.challenge] = IF f.step = "succeeded" THEN @ + 1 ELSE @]
  <2> HIDE DEF f
  <2>1. commits' = [commits EXCEPT ![finish[h].challenge] = IF ok THEN @ + 1 ELSE @]
    BY DEF Committed
  <2>2. f.step = "succeeded" <=> ok
    BY <1>2
  <2> QED BY <1>2, <2>1, <2>2
<1> HIDE DEF f
<1>5. f.passkey \in Keys /\ finish[h].step # "succeeded"
  BY <1>1, <1>2 DEF PoolsInv, PasskeysVerified
<1> QED BY <1>1, <1>2, <1>3, <1>4, <1>5, FinishMoves

-----------------------------------------------------------------------------
(* The reservation of an invitation.                                       *)

\* BeginTrust's change of the state: the one usable record j of the invitation
\* becomes r, reserved for the cookie, under the deadline it had if it was reserved.
LEMMA ReservationMade ==
    ASSUME Inv, NEW h \in Handlers, NEW c \in Clients, NEW i \in Invites, NEW ok \in BOOLEAN,
           ReserveInvitation(h, c, i, ok)
    PROVE  \E r \in Invitation :
              /\ r.digest = i /\ r.client = c /\ r.until \in Nat
              /\ \E j \in mem.invites : j.digest = i
              /\ \A j \in mem.invites : j.digest = i =>
                    ~j.consumed /\ (Reserved(j) => j.client = c /\ j.until = r.until)
              /\ ok => mem'.invites = {j \in mem.invites : j.digest # i} \cup {r}
              /\ ~ok => mem'.invites = mem.invites
              /\ minted \subseteq minted'
<1>1. PICK v \in UsableInvitations(i, c) :
         LET deadline == IF clock + ReservationLifetime > v.expires
                         THEN v.expires ELSE clock + ReservationLifetime
         IN CommitLocked(ReplaceInvitation(mem,
                  IF v.until = None THEN [v EXCEPT !.client = c, !.until = deadline] ELSE v), ok)
  BY DEF ReserveInvitation
<1> DEFINE deadline == IF clock + ReservationLifetime > v.expires
                       THEN v.expires ELSE clock + ReservationLifetime
           r == IF v.until = None THEN [v EXCEPT !.client = c, !.until = deadline] ELSE v
<1>2. PICK j \in mem.invites :
         /\ j.digest = i /\ ~j.consumed /\ (Reserved(j) => j.client = c)
         /\ v = [j EXCEPT !.client = IF Reserved(j) THEN @ ELSE None,
                          !.until  = IF Reserved(j) THEN @ ELSE None]
  BY <1>1 DEF UsableInvitations
<1>3. mem \in State /\ validateState(mem) /\ clock \in Nat
  BY DEF Inv, TypeOK, Valid
<1>4. j \in Invitation /\ v \in Invitation /\ v.digest = i
  BY <1>1, <1>2, <1>3, UsableIsOpen DEF State
<1>5. \A k \in mem.invites : k.digest = i => k = j
  BY <1>2, <1>3 DEF validateState, Injective
<1>6. deadline \in Nat /\ None \notin Nat
  BY <1>3, <1>4, BoundsAreNaturals, NoneIsNoName DEF Invitation
<1>7. r \in Invitation /\ r.digest = i /\ r.client = c /\ r.until \in Nat
  <2> HIDE DEF deadline
  <2>1. CASE v.until = None
    BY <1>4, <1>6, <2>1 DEF Invitation
  <2>2. CASE v.until # None
    <3>1. Reserved(j) /\ v.client = c
      BY <1>2, <1>4, <2>2 DEF Invitation
    <3> QED BY <1>4, <2>2, <3>1 DEF Invitation
  <2> QED BY <2>1, <2>2
<1>8. Reserved(j) => j.client = c /\ j.until = r.until
  BY <1>2, <1>4 DEF Invitation, Reserved
<1>9. CommitLocked(ReplaceInvitation(mem, r), ok)
  BY <1>1
<1> HIDE DEF r
<1>10. /\ mem'.invites = IF ok THEN {k \in mem.invites : k.digest # i} \cup {r} ELSE mem.invites
       /\ minted \subseteq minted'
  <2>1. ReplaceInvitation(mem, r).invites = {k \in mem.invites : k.digest # i} \cup {r}
    BY <1>3, <1>7 DEF ReplaceInvitation, State
  <2> QED BY <1>9, <2>1 DEF CommitLocked
<1> QED BY <1>2, <1>5, <1>7, <1>8, <1>10

-----------------------------------------------------------------------------
(* A begin of a trust ceremony, on both sides of the gate.                 *)

\* What the pools and the reservation look like after BeginTrust.
LEMMA BeginTrustStep ==
    ASSUME CeremonyInv, NEW h \in Handlers, NEW c \in Clients, NEW i \in Invites, NEW ok \in BOOLEAN,
           BeginTrust(h, c, i, ok)
    PROVE  PoolsInv' /\ WindowsAreReservations' /\ TrustCeremoniesHoldReservations'
<1> DEFINE A == PrunedAttempts
           C == Without(PrunedCeremonies, OtherTrusts(PrunedCeremonies, c, i))
           key == TrustKey(i)
<1>1. /\ TrustFree(c, i) /\ Room(PrunedCeremonies, A, key, {}) /\ challenge < MaxBegins
      /\ ReserveInvitation(h, c, i, ok) /\ UNCHANGED <<finish, commits>>
      /\ ok => \E inv \in mem'.invites : inv.digest = i /\ Install(C, A, key, c, inv.until)
      /\ ~ok => ceremonies' = PrunedCeremonies /\ attempts' = A /\ challenge' = challenge
  BY DEF BeginTrust
<1>2. /\ PoolsInv /\ WindowsAreReservations /\ TrustCeremoniesHoldReservations
      /\ CeremonyTypeOK /\ WindowsCoverCeremonies /\ FinishesKeepTheirCeremony
      /\ clock \in Nat /\ clock' = clock /\ Inv
  BY <1>1 DEF CeremonyInv, PoolsInv, LinkInv, Inv, TypeOK, ReserveInvitation
<1>3. PICK r \in Invitation :
              /\ r.digest = i /\ r.client = c /\ r.until \in Nat
              /\ \E j \in mem.invites : j.digest = i
              /\ \A j \in mem.invites : j.digest = i =>
                    ~j.consumed /\ (Reserved(j) => j.client = c /\ j.until = r.until)
              /\ ok => mem'.invites = {j \in mem.invites : j.digest # i} \cup {r}
              /\ ~ok => mem'.invites = mem.invites
              /\ minted \subseteq minted'
  <2>1. ReserveInvitation(h, c, i, ok) /\ Inv
    BY <1>1, <1>2
  <2> QED BY <2>1, ReservationMade
<1>4. /\ Drops(PrunedCeremonies, A) /\ \A g \in Handlers : Keeps(PrunedCeremonies, g)
      /\ \A k \in CeremonyKeys : attempts[k] # None /\ clock < attempts[k].expires => A[k] = attempts[k]
  BY <1>2, PruningDrops
<1>5. key \in CeremonyKeys /\ Kind(key) = "trust" /\ i \in minted
  <2>1. Names(mem) \subseteq minted
    BY <1>2 DEF Inv, Minted
  <2> QED BY <1>3, <2>1, TrustKeysNameInvites DEF Names, DigestsOf
<1> HIDE DEF A
\* The attempt window that is still open ends with the reservation
<1>6. A[key] # None /\ clock < A[key].expires => A[key].expires = r.until
  <2> SUFFICES ASSUME A[key] # None, clock < A[key].expires
               PROVE  A[key].expires = r.until
    OBVIOUS
  <2>1. attempts[key] # None /\ A[key] = attempts[key] /\ A[key].expires \in Nat
    BY <1>2, <1>4, <1>5 DEF Drops, CeremonyTypeOK, Attempts
  <2>2. PICK j \in mem.invites : j.digest = i
    BY <1>3
  <2>3. j.until = A[key].expires
    BY <1>2, <1>3, <2>1, <2>2 DEF WindowsAreReservations
  <2>4. Reserved(j)
    BY <1>2, <2>1, <2>3, NoneIsNoName DEF Reserved
  <2> QED BY <1>3, <2>2, <2>3, <2>4
<1>7. CASE ok
  <2>1. Install(C, A, key, c, r.until)
    BY <1>1, <1>3, <1>7
  <2>2. /\ Drops(C, A)
        /\ \A k \in CeremonyKeys : C[k] # None => PrunedCeremonies[k] = C[k]
    BY <1>4 DEF Drops, Without
  <2>3. \A g \in Handlers : Keeps(C, g)
    <3> SUFFICES ASSUME NEW g \in Handlers, finish[g] # None
                 PROVE  C[finish[g].key] = ceremonies[finish[g].key]
      BY DEF Keeps
    <3>1. /\ finish[g].key \in CeremonyKeys /\ InFlight(finish[g].key)
          /\ PrunedCeremonies[finish[g].key] = ceremonies[finish[g].key]
      BY <1>2, <1>4, FinishTypes DEF FinishesKeepTheirCeremony, Own, Keeps
    <3>2. finish[g].key \notin OtherTrusts(PrunedCeremonies, c, i)
      BY <1>1, <3>1, TrustKeysNameInvites DEF OtherTrusts, TrustFree
    <3> QED BY <3>1, <3>2 DEF Without
  <2>4. \A j \in Invites : key # TrustKey(j) /\ C[TrustKey(j)] # None /\ Kind(key) = "trust" =>
                              C[TrustKey(j)].client # c
    BY TrustKeysNameInvites DEF Without, OtherTrusts
  <2>5. ~InFlight(key)
    BY <1>1 DEF TrustFree
  <2>6. Bounded(PrunedCeremonies) /\ Bounded(A)
    <3>1. Bounded(ceremonies) /\ Bounded(attempts)
      BY <1>2, PoolsInvParts
    <3> QED BY <1>4, <3>1, FewerAreBounded DEF Drops
  <2>7. /\ Cardinality(Pool(C, Kind(key)) \cup {key}) <= PoolLimit(Kind(key))
        /\ Cardinality(Pool(A, Kind(key)) \cup {key}) <= PoolLimit(Kind(key))
    <3> DEFINE none == {}
    <3>1. /\ PrunedCeremonies[key] # None
                \/ Cardinality(Pool(PrunedCeremonies, Kind(key)) \ none) < PoolLimit(Kind(key))
          /\ A[key] # None \/ Cardinality(Pool(A, Kind(key)) \ none) < PoolLimit(Kind(key))
      BY <1>1 DEF Room
    <3>2. \A k \in CeremonyKeys : C[k] # None => PrunedCeremonies[k] # None /\ k \notin none
      BY <2>2
    <3>3. \A k \in CeremonyKeys : A[k] # None => A[k] # None /\ k \notin none
      OBVIOUS
    <3> HIDE DEF C, key, none
    <3>4. Cardinality(Pool(C, Kind(key)) \cup {key}) <= PoolLimit(Kind(key))
      BY <1>5, <2>6, <3>1, <3>2, RoomForOne
    <3>5. Cardinality(Pool(A, Kind(key)) \cup {key}) <= PoolLimit(Kind(key))
      BY <1>5, <2>6, <3>1, <3>3, RoomForOne
    <3> QED BY <3>4, <3>5
  <2> HIDE DEF C
  <2>8. PoolsInv'
    <3> HIDE DEF key
    <3> QED BY <1>1, <1>2, <1>3, <1>5, <1>6, <2>1, <2>2, <2>3, <2>4, <2>5, <2>7, InstallStep
  <2>9. /\ ceremonies'[key] # None /\ ceremonies'[key].client = c /\ ceremonies'[key].expires = r.until
        /\ attempts'[key] # None /\ attempts'[key].expires = r.until
        /\ \A k \in CeremonyKeys \ {key} : ceremonies'[k] = C[k] /\ attempts'[k] = A[k]
    <3> HIDE DEF key
    <3> QED BY <1>1, <1>2, <1>3, <1>5, <1>6, <2>1, <2>2, InstallEffect
  <2>10. ASSUME NEW j \in Invites, j # i
         PROVE  /\ ceremonies'[TrustKey(j)] \in {None, ceremonies[TrustKey(j)]}
                /\ attempts'[TrustKey(j)] \in {None, attempts[TrustKey(j)]}
                /\ \A inv \in mem'.invites : inv.digest = j => inv \in mem.invites
    <3>1. TrustKey(j) \in CeremonyKeys \ {key}
      BY <2>10, TrustKeysNameInvites
    <3>2. \A inv \in mem'.invites : inv.digest = j => inv \in mem.invites
      BY <1>3, <1>7, <2>10
    <3> QED BY <2>2, <2>9, <3>1, <3>2 DEF Drops
  <2>11. \A inv \in mem'.invites : inv.digest = i => inv = r
    BY <1>3, <1>7
  <2>12. WindowsAreReservations'
    BY <1>2, <1>3, <1>5, <2>9, <2>10, <2>11 DEF WindowsAreReservations
  <2>13. TrustCeremoniesHoldReservations'
    BY <1>2, <1>3, <1>5, <2>9, <2>10, <2>11 DEF TrustCeremoniesHoldReservations
  <2> QED BY <2>8, <2>12, <2>13
<1>8. CASE ~ok
  <2>1. /\ ceremonies' = PrunedCeremonies /\ attempts' = PrunedAttempts
        /\ UNCHANGED <<finish, challenge, commits>>
    BY <1>1, <1>8 DEF A
  <2>2. PoolsInv'
    BY <1>2, <2>1, PruneOnlyPools
  <2>3. \A j \in Invites : /\ ceremonies'[TrustKey(j)] \in {None, ceremonies[TrustKey(j)]}
                           /\ attempts'[TrustKey(j)] \in {None, attempts[TrustKey(j)]}
    BY <1>4, <2>1, TrustKeysNameInvites DEF Drops, A
  <2>4. WindowsAreReservations' /\ TrustCeremoniesHoldReservations'
    BY <1>2, <1>3, <1>8, <2>3 DEF WindowsAreReservations, TrustCeremoniesHoldReservations
  <2> QED BY <2>2, <2>4
<1> QED BY <1>7, <1>8

-----------------------------------------------------------------------------
(* The other operations under the gate leave every reservation alone.      *)

\* No invitation comes but a consumed one or one that was never minted.
ReservationsStay ==
    /\ minted \subseteq minted' /\ clock' \in Nat /\ clock <= clock'
    /\ \A inv \in mem'.invites : inv \in mem.invites \/ inv.consumed \/ inv.digest \notin minted

\* Then open windows are still reservations, whatever records are dropped.
LEMMA LinkStays ==
    ASSUME CeremonyInv, ReservationsStay,
           \A key \in CeremonyKeys : /\ ceremonies'[key] \in {None, ceremonies[key]}
                                     /\ attempts'[key] \in {None, attempts[key]}
    PROVE  WindowsAreReservations' /\ TrustCeremoniesHoldReservations'
<1>1. /\ WindowsAreReservations /\ TrustCeremoniesHoldReservations /\ WindowsCoverCeremonies
      /\ CeremonyTypeOK /\ clock \in Nat /\ clock' \in Nat /\ clock <= clock'
  BY DEF CeremonyInv, PoolsInv, LinkInv, Inv, TypeOK, ReservationsStay
<1>2. ASSUME NEW i \in Invites
      PROVE  /\ ceremonies'[TrustKey(i)] \in {None, ceremonies[TrustKey(i)]}
             /\ attempts'[TrustKey(i)] \in {None, attempts[TrustKey(i)]}
             /\ ceremonies[TrustKey(i)] # None =>
                    attempts[TrustKey(i)] # None /\ ceremonies[TrustKey(i)].expires \in Nat
             /\ attempts[TrustKey(i)] # None =>
                    /\ attempts[TrustKey(i)].expires \in Nat
                    /\ \A inv \in mem'.invites : inv.digest = i => inv \in mem.invites \/ inv.consumed
  <2>1. TrustKey(i) \in CeremonyKeys
    BY TrustKeysNameInvites
  <2> QED BY <1>1, <2>1 DEF WindowsCoverCeremonies, WindowsAreReservations, ReservationsStay,
                            CeremonyTypeOK, Ceremony, Attempts
<1>3. WindowsAreReservations'
  BY <1>1, <1>2 DEF WindowsAreReservations, ReservationsStay
<1>4. TrustCeremoniesHoldReservations'
  BY <1>1, <1>2 DEF TrustCeremoniesHoldReservations, ReservationsStay
<1> QED BY <1>3, <1>4

\* A commit leaves them alone if the state it writes does.
LEMMA CommitStays ==
    ASSUME NEW u, NEW ok \in BOOLEAN, CommitLocked(u, ok), clock \in Nat, clock' = clock,
           \A inv \in u.invites : inv \in mem.invites \/ inv.consumed \/ inv.digest \notin minted
    PROVE  ReservationsStay
BY DEF CommitLocked, ReservationsStay

\* A session that is added changes no invitation.
LEMMA SessionStays ==
    ASSUME NEW h \in Handlers, NEW st \in State, NEW t, NEW d, NEW ok \in BOOLEAN,
           CommitSession(h, st, t, d, ok), clock \in Nat, clock' = clock,
           \A inv \in st.invites : inv \in mem.invites \/ inv.consumed
    PROVE  ReservationsStay
<1>1. PICK S : CommitLocked(WithSessions(st, S), ok)
  BY DEF CommitSession
<1>2. WithSessions(st, S).invites = st.invites
  BY DEF WithSessions, State
<1> HIDE DEF ReservationsStay
<1> QED BY <1>1, <1>2, CommitStays

\* Sign-out, revocation, invitation and the end of a request.
LEMMA OtherStepStays ==
    ASSUME Inv, NEW h \in Handlers, OtherStep(h)
    PROVE  ReservationsStay /\ mode' = mode /\ UNCHANGED ceremonyVars
<1>1. mem \in State /\ clock \in Nat /\ UNCHANGED ceremonyVars
  BY DEF Inv, TypeOK, OtherStep
<1>2. CASE \E id \in {[digest |-> s.digest, trust |-> s.trust] : s \in mem.sessions} \cup {None} :
              Admit(h, id)
  BY <1>1, <1>2 DEF Admit, storeVars, ReservationsStay
<1>3. CASE EndRequest(h) \/ Report(h)
  BY <1>1, <1>3 DEF EndRequest, Report, storeVars, ReservationsStay
<1>4. ASSUME NEW d \in Invites, CreateBrowserInvitation(h, d)
      PROVE  ReservationsStay /\ mode' = mode
  <2>1. PICK ok \in BOOLEAN : CommitLocked(AddInvitation(mem, d, ident[h].trust), ok)
    BY <1>4 DEF CreateBrowserInvitation
  <2>2. d \notin minted /\ mode' = mode /\ clock' = clock
    BY <1>4 DEF CreateBrowserInvitation
  <2>3. \A inv \in AddInvitation(mem, d, ident[h].trust).invites :
           inv \in mem.invites \/ inv.digest \notin minted
    BY <1>1, <2>2 DEF AddInvitation, newInvitation, pruneInvitations, State
  <2> HIDE DEF ReservationsStay
  <2> QED BY <1>1, <2>1, <2>2, <2>3, CommitStays
<1>5. ASSUME NEW t \in Trusts, RevokeBrowser(h, t)
      PROVE  ReservationsStay /\ mode' = mode
  <2>1. PICK ok \in BOOLEAN : CommitLocked(Revoked(mem, t), ok)
    BY <1>5 DEF RevokeBrowser
  <2>2. mode' = mode /\ clock' = clock
    BY <1>5 DEF RevokeBrowser
  <2>3. \A inv \in Revoked(mem, t).invites : inv \in mem.invites
    BY <1>1 DEF Revoked, State
  <2> QED BY <1>1, <2>1, <2>2, <2>3, CommitStays
<1>6. CASE SignOut(h)
  <2>1. PICK ok, S : ok \in BOOLEAN /\ CommitLocked(WithSessions(mem, S), ok)
    BY <1>6 DEF SignOut
  <2>2. mode' = mode /\ clock' = clock
    BY <1>6 DEF SignOut
  <2>3. WithSessions(mem, S).invites = mem.invites
    BY <1>1 DEF WithSessions, State
  <2> QED BY <1>1, <2>1, <2>2, <2>3, CommitStays
<1> QED BY <1>1, <1>2, <1>3, <1>4, <1>5, <1>6 DEF OtherStep, Admit, EndRequest, Report

\* Starting the service, the clock and the expiry loop.
LEMMA ManagerStepStays ==
    ASSUME Inv, ManagerStep, mode # "down"
    PROVE  ReservationsStay
<1>1. mem \in State /\ clock \in Nat
  BY DEF Inv, TypeOK
<1>2. CASE Tick \/ LoopWaited
  BY <1>1, <1>2 DEF Tick, LoopWaited, storeVars, ReservationsStay
<1>3. ASSUME NEW ok \in BOOLEAN, ExpireSessions(ok), clock' = clock
      PROVE  ReservationsStay
  <2>1. PICK S : CommitLocked(WithSessions(mem, S), ok)
    BY <1>3 DEF ExpireSessions
  <2>2. WithSessions(mem, S).invites = mem.invites
    BY <1>1 DEF WithSessions, State
  <2> QED BY <1>1, <1>3, <2>1, <2>2, CommitStays
<1>4. CASE expiryLoop
  <2>1. clock' = clock /\ \E ok \in BOOLEAN : ExpireSessions(ok)
    BY <1>4 DEF expiryLoop
  <2> QED BY <1>3, <2>1
<1>5. CASE NewManager
  <2>1. clock' = clock /\ (UNCHANGED storeVars \/ \E ok \in BOOLEAN : ExpireSessions(ok))
    BY <1>5 DEF NewManager
  <2>2. UNCHANGED storeVars => ReservationsStay
    BY <1>1, <2>1 DEF storeVars, ReservationsStay
  <2> QED BY <1>3, <2>1, <2>2
<1>6. ~\E life \in Lifetimes, d \in Invites : OpenProtected(FALSE, life, d)
  BY DEF OpenProtected
<1> QED BY <1>2, <1>4, <1>5, <1>6 DEF ManagerStep

\* Every commit of a registration or an assertion leaves the other reservations alone.
LEMMA FinishStays ==
    ASSUME CeremonyInv, NEW h \in Handlers,
           \/ \E d \in Digests, ok \in BOOLEAN : FinishAssertion(h, d, ok)
           \/ \E t \in Trusts, d \in Digests, ok \in BOOLEAN : FinishRegistration(h, t, d, ok)
    PROVE  /\ PoolsInv' /\ Next /\ WindowsAreReservations' /\ TrustCeremoniesHoldReservations'
           /\ finish[h] # None /\ mode' = mode
<1>1. /\ Inv /\ PoolsInv /\ CeremonyTypeOK /\ PasskeysVerified /\ mem \in State /\ clock \in Nat
  BY DEF CeremonyInv, PoolsInv, Inv, TypeOK
<1>2. ASSUME NEW d \in Digests, NEW ok \in BOOLEAN, FinishAssertion(h, d, ok)
      PROVE  /\ PoolsInv' /\ Next /\ ReservationsStay /\ UNCHANGED <<ceremonies, attempts>>
             /\ finish[h] # None /\ mode' = mode
  <2>1. At(h, "commit") /\ Committed(h, ok)
    BY <1>2 DEF FinishAssertion
  <2>2. PoolsInv' /\ Next
    BY <1>1, <1>2, <2>1, CommittedPools, FinishAssertionAccess
  <2>3. /\ CommitSession(h, mem, finish[h].trust, d, ok) /\ mode' = mode /\ clock' = clock
    BY <1>2 DEF FinishAssertion, CommitAssertion
  <2>4. ReservationsStay
    BY <1>1, <2>3, SessionStays
  <2> QED BY <2>1, <2>2, <2>3, <2>4 DEF Committed, At
<1>3. ASSUME NEW t \in Trusts, NEW d \in Digests, NEW ok \in BOOLEAN, FinishRegistration(h, t, d, ok)
      PROVE  /\ PoolsInv' /\ Next /\ ReservationsStay /\ UNCHANGED <<ceremonies, attempts>>
             /\ finish[h] # None /\ mode' = mode
  <2> DEFINE c == finish[h].client
             i == finish[h].key[2]
             k == finish[h].passkey
  <2>1. /\ At(h, "commit") /\ Committed(h, ok) /\ Kind(finish[h].key) = "trust"
        /\ CommitRegistration(h, c, i, k, t, d, ok)
    BY <1>3 DEF FinishRegistration
  <2>2. c \in Clients /\ i \in Invites /\ k \in Keys
    BY <1>1, <2>1, FinishTypes, TrustKeysNameInvites DEF PasskeysVerified, At
  <2>3. PoolsInv' /\ Next
    BY <1>1, <1>3, <2>1, <2>2, CommittedPools, FinishRegistrationAccess
  <2> HIDE DEF c, i, k
  <2>4. PICK v \in UsableInvitations(i, c) :
           CommitSession(h, Register(ReplaceInvitation(mem, Consume(v)), t, k), t, d, ok)
    BY <2>1 DEF CommitRegistration, Registrable
  <2>5. v \in Invitation /\ v.digest = i /\ ~v.consumed /\ i \in Open(mem)
    BY <1>1, <2>2, <2>4, UsableIsOpen
  <2>6. Consume(v) \in Invitation /\ Consume(v).consumed
    BY <2>5 DEF Consume, Invitation
  <2>7. ReplaceInvitation(mem, Consume(v)) \in State
    BY <1>1, <2>6, InvitationReplaced
  <2>8. /\ Register(ReplaceInvitation(mem, Consume(v)), t, k) \in State
        /\ \A inv \in Register(ReplaceInvitation(mem, Consume(v)), t, k).invites :
              inv \in mem.invites \/ inv.consumed
    <3>1. \A inv \in ReplaceInvitation(mem, Consume(v)).invites : inv \in mem.invites \/ inv.consumed
      BY <1>1, <2>6 DEF ReplaceInvitation, State
    <3> QED BY <2>2, <2>7, <3>1, TrustRegistered
  <2>9. mode' = mode /\ clock' = clock
    BY <2>1 DEF CommitRegistration
  <2>10. ReservationsStay
    BY <1>1, <2>4, <2>8, <2>9, SessionStays
  <2> QED BY <2>1, <2>3, <2>9, <2>10 DEF Committed, At
<1>4. /\ PoolsInv' /\ Next /\ ReservationsStay /\ UNCHANGED <<ceremonies, attempts>>
      /\ finish[h] # None /\ mode' = mode
  BY <1>2, <1>3
<1> QED BY <1>4, LinkStays

-----------------------------------------------------------------------------
(* The composition.                                                        *)

\* Steps that leave the ceremonies alone keep PoolsInv.
LEMMA SamePools ==
    ASSUME PoolsInv, UNCHANGED ceremonyVars
    PROVE  PoolsInv'
<1>1. UNCHANGED <<ceremonies, attempts, finish, challenge, commits>>
  BY DEF ceremonyVars
<1> QED BY <1>1 DEF PoolsInv, CeremonyTypeOK, FinitePools, PoolsAreBounded, Pool, WindowsCoverCeremonies,
     FinishesKeepTheirCeremony, Own, InFlight, FinishesDiffer, PasskeysVerified, At, ChallengesDiffer,
     CommitsAreFinal, ChallengesAreSingleUse

\* Every step of a ceremony is one of Access or leaves its state alone, happens
\* while the service is up, and keeps the pools and the reservations.
LEMMA CeremonyStepKeeps ==
    ASSUME CeremonyInv, NEW h \in Handlers, CeremonyStep(h)
    PROVE  /\ Next \/ UNCHANGED vars
           /\ PoolsInv' /\ WindowsAreReservations' /\ TrustCeremoniesHoldReservations'
           /\ mode = "up" /\ mode' = "up"
<1>1. /\ Inv /\ PoolsInv /\ clock \in Nat /\ OnlyWhileUp
      /\ ident[h] = None \/ ident[h].digest \in Digests
  BY DEF CeremonyInv, LinkInv, Inv, TypeOK, SessionIdentity
<1>2. Drops(PrunedCeremonies, PrunedAttempts)
  BY <1>1, PruningDrops
<1>up. /\ Calling(h) => mode = "up"
       /\ finish[h] # None => mode = "up"
  BY <1>1 DEF OnlyWhileUp, Calling, Serving
<1>same. ASSUME UNCHANGED vars PROVE minted \subseteq minted' /\ mem' = mem /\ clock' = clock /\ mode' = mode
  BY <1>same DEF vars, storeVars
<1>link. ASSUME UNCHANGED vars,
                \A key \in CeremonyKeys : /\ ceremonies'[key] \in {None, ceremonies[key]}
                                          /\ attempts'[key] \in {None, attempts[key]}
         PROVE  WindowsAreReservations' /\ TrustCeremoniesHoldReservations'
  <2>1. ReservationsStay
    BY <1>1, <1>link, <1>same DEF ReservationsStay
  <2> QED BY <1>link, <2>1, LinkStays
<1>3. ASSUME NEW c \in Clients, NEW i \in Invites, NEW ok \in BOOLEAN, BeginTrust(h, c, i, ok)
      PROVE  /\ PoolsInv' /\ WindowsAreReservations' /\ TrustCeremoniesHoldReservations'
             /\ Next /\ mode = "up" /\ mode' = "up"
  <2>1. ReserveInvitation(h, c, i, ok)
    BY <1>3 DEF BeginTrust
  <2>2. Calling(h) /\ mode' = mode
    BY <2>1 DEF ReserveInvitation
  <2>3. Next
    BY <2>1 DEF Next, BrowserStep
  <2> QED BY <1>3, <1>up, <2>2, <2>3, BeginTrustStep
<1>4. CASE PruneOnly(h)
  <2>1. /\ UNCHANGED vars /\ ceremonies' = PrunedCeremonies /\ attempts' = PrunedAttempts
        /\ UNCHANGED <<finish, challenge, commits>> /\ Calling(h)
    BY <1>4 DEF PruneOnly
  <2>2. PoolsInv'
    BY <1>1, <2>1, PruneOnlyPools
  <2> QED BY <1>2, <1>up, <1>same, <1>link, <2>1, <2>2 DEF Drops
<1>5. CASE \E t \in Trusts \cup {None}, k \in Keys : Verified(h, t, k)
  <2>1. UNCHANGED vars /\ UNCHANGED <<ceremonies, attempts>> /\ finish[h] # None
    BY <1>5 DEF Verified, At
  <2>2. PoolsInv'
    BY <1>1, <1>5, VerificationPools
  <2> QED BY <1>up, <1>same, <1>link, <2>1, <2>2
<1>6. CASE VerificationFailed(h) \/ ceremonyCanCommit(h) \/ CommitRefused(h)
  <2>1. UNCHANGED vars /\ UNCHANGED <<ceremonies, attempts>> /\ finish[h] # None
    BY <1>6 DEF VerificationFailed, ceremonyCanCommit, CommitRefused, At
  <2>2. PoolsInv'
    BY <1>1, <1>6, VerificationPools
  <2> QED BY <1>up, <1>same, <1>link, <2>1, <2>2
<1>7. CASE resolveCeremony(h)
  <2>1. UNCHANGED vars /\ finish[h] # None
    BY <1>7 DEF resolveCeremony, At
  <2>2. PoolsInv'
    BY <1>1, <1>7, ResolvePools
  <2>3. \A key \in CeremonyKeys : /\ ceremonies'[key] \in {None, ceremonies[key]}
                                  /\ attempts'[key] \in {None, attempts[key]}
    BY <1>1, <1>7 DEF resolveCeremony, PoolsInv, CeremonyTypeOK
  <2> QED BY <1>up, <1>same, <1>link, <2>1, <2>2, <2>3
<1>8. CASE \/ \E d \in Digests, ok \in BOOLEAN : FinishAssertion(h, d, ok)
           \/ \E t \in Trusts, d \in Digests, ok \in BOOLEAN : FinishRegistration(h, t, d, ok)
  BY <1>8, <1>up, FinishStays
<1>trusts. ASSUME UNCHANGED vars,
                  \A key \in CeremonyKeys :
                     /\ ceremonies'[key] # None =>
                           /\ Kind(key) = "trust" => ceremonies[key] # None
                           /\ Kind(key) = "trust" => ceremonies'[key].client = ceremonies[key].client
                           /\ Kind(key) = "trust" => ceremonies'[key].expires = ceremonies[key].expires
                     /\ attempts'[key] # None =>
                           /\ Kind(key) = "trust" => attempts[key] # None
                           /\ Kind(key) = "trust" => attempts'[key].expires = attempts[key].expires
           PROVE  WindowsAreReservations' /\ TrustCeremoniesHoldReservations'
  <2>1. WindowsAreReservations /\ TrustCeremoniesHoldReservations
    BY DEF CeremonyInv, LinkInv
  <2>2. WindowsAreReservations'
    BY <1>same, <1>trusts, <2>1, TrustKeysNameInvites DEF WindowsAreReservations
  <2>3. TrustCeremoniesHoldReservations'
    BY <1>same, <1>trusts, <2>1, TrustKeysNameInvites DEF TrustCeremoniesHoldReservations
  <2> QED BY <2>2, <2>3
<1>9. ASSUME NEW c \in Clients, NEW key \in CeremonyKeys, beginAssertion(h, key, c)
      PROVE  /\ PoolsInv' /\ WindowsAreReservations' /\ TrustCeremoniesHoldReservations'
             /\ UNCHANGED vars /\ mode = "up" /\ mode' = "up"
  <2>1. Calling(h) /\ UNCHANGED vars /\ Kind(key) # "trust"
    BY <1>9 DEF beginAssertion, SignInKey, ReauthKey, Kind
  <2>2. PoolsInv'
    BY <1>1, <1>9, BeginAssertionPools
  <2>3. PICK R \in Evictions(PrunedCeremonies, PrunedAttempts, key) :
           Install(Without(PrunedCeremonies, R), Without(PrunedAttempts, R), key, c,
                   BeginDeadline(Without(PrunedAttempts, R), key))
    BY <1>9 DEF beginAssertion
  <2>4. Drops(Without(PrunedCeremonies, R), Without(PrunedAttempts, R))
    BY <1>1, EvictionDrops
  <2>5. \A k \in CeremonyKeys \ {key} : /\ ceremonies'[k] \in {None, ceremonies[k]}
                                        /\ attempts'[k] \in {None, attempts[k]}
    BY <2>3, <2>4 DEF Install, Drops
  <2> QED BY <1>up, <1>same, <1>trusts, <2>1, <2>2, <2>5
<1>10. ASSUME NEW kind \in Kinds, NEW c \in Clients, NEW n \in 1..MaxBegins,
              startCeremonyVerification(h, kind, c, n)
       PROVE  /\ PoolsInv' /\ WindowsAreReservations' /\ TrustCeremoniesHoldReservations'
              /\ UNCHANGED vars /\ mode = "up" /\ mode' = "up"
  <2>1. Calling(h) /\ UNCHANGED vars
    BY <1>10 DEF startCeremonyVerification
  <2>2. PoolsInv'
    BY <1>1, <1>10, StartPools
  <2>3. PICK key \in FinishKeys(h, kind, c) :
         /\ PrunedCeremonies[key] # None
         /\ attempts' = [PrunedAttempts EXCEPT ![key].count = @ + 1]
         /\ ceremonies' = [PrunedCeremonies EXCEPT ![key].inFlight = TRUE]
    BY <1>10 DEF startCeremonyVerification
  <2>4. key \in CeremonyKeys
    BY <1>1 DEF FinishKeys, Kinds, CeremonyKeys
  <2>5. /\ ceremonies[key] # None /\ attempts[key] # None
        /\ ceremonies'[key].client = ceremonies[key].client
        /\ ceremonies'[key].expires = ceremonies[key].expires
        /\ attempts'[key].expires = attempts[key].expires
    BY <1>2, <2>3, <2>4 DEF Drops, Ceremony, Attempts
  <2>6. \A k \in CeremonyKeys \ {key} : /\ ceremonies'[k] \in {None, ceremonies[k]}
                                        /\ attempts'[k] \in {None, attempts[k]}
    BY <1>2, <2>3 DEF Drops
  <2> QED BY <1>up, <1>same, <1>trusts, <2>1, <2>2, <2>5, <2>6
<1> QED BY <1>3, <1>4, <1>5, <1>6, <1>7, <1>8, <1>9, <1>10 DEF CeremonyStep, Kinds

\* The ceremonies refine Access: every step is one of its own, or changes only ceremonies.
LEMMA StepsAreAccessSteps == CeremonyInv /\ [CeremonyNext]_allVars => [Next]_vars
<1> SUFFICES ASSUME CeremonyInv, [CeremonyNext]_allVars PROVE Next \/ UNCHANGED vars
  OBVIOUS
<1>1. ASSUME NEW h \in Handlers, CeremonyStep(h) PROVE Next \/ UNCHANGED vars
  BY <1>1, CeremonyStepKeeps
<1>2. ASSUME NEW h \in Handlers, OtherStep(h) PROVE Next
  BY <1>2 DEF OtherStep, Next, BrowserStep, RequestStep
<1>3. CASE ManagerStep
  BY <1>3 DEF ManagerStep, Next, ProcessStep
<1>4. CASE Restart
  BY <1>4 DEF Restart, Next, ProcessStep
<1>5. CASE UNCHANGED allVars
  BY <1>5 DEF allVars
<1> QED BY <1>1, <1>2, <1>3, <1>4, <1>5 DEF CeremonyNext

\* An installation starts without ceremonies.
LEMMA InitCeremonyInv == CeremonyInit => CeremonyInv
<1> SUFFICES ASSUME CeremonyInit PROVE CeremonyInv
  OBVIOUS
<1>1. /\ ceremonies = NoRecords /\ attempts = NoRecords /\ finish = [h \in Handlers |-> None]
      /\ challenge = 0 /\ commits = [n \in 1..MaxBegins |-> 0] /\ mode = "down" /\ Inv
  BY InitInv DEF CeremonyInit, Init
<1>2. /\ \A key \in CeremonyKeys : ceremonies[key] = None /\ attempts[key] = None
      /\ \A h \in Handlers : finish[h] = None
      /\ \A n \in 1..MaxBegins : commits[n] = 0
  BY <1>1 DEF NoRecords
<1>3. CeremonyTypeOK
  BY <1>1, CeremonyBounds DEF CeremonyTypeOK, NoRecords
<1>4. Bounded(ceremonies) /\ Bounded(attempts)
  <2>1. \A kind \in Kinds : Pool(ceremonies, kind) = {} /\ Pool(attempts, kind) = {}
    BY <1>2 DEF Pool
  <2> QED BY <2>1, FS_EmptySet, LimitsAreNaturals DEF Bounded
<1>5. /\ WindowsCoverCeremonies /\ FinishesKeepTheirCeremony /\ FinishesDiffer
      /\ PasskeysVerified /\ ChallengesDiffer /\ CommitsAreFinal /\ ChallengesAreSingleUse
  BY <1>2 DEF WindowsCoverCeremonies, FinishesKeepTheirCeremony, FinishesDiffer, At,
     PasskeysVerified, ChallengesDiffer, CommitsAreFinal, ChallengesAreSingleUse
<1>6. PoolsInv
  BY <1>2, <1>3, <1>4, <1>5, TrustKeysNameInvites, PoolsInvParts
<1>7. LinkInv
  BY <1>1, <1>2, TrustKeysNameInvites
  DEF LinkInv, OnlyWhileUp, WindowsAreReservations, TrustCeremoniesHoldReservations
<1> QED BY <1>1, <1>6, <1>7 DEF CeremonyInv

\* Every step of the composition keeps CeremonyInv.
LEMMA NextCeremonyInv == CeremonyInv /\ [CeremonyNext]_allVars => CeremonyInv'
<1> SUFFICES ASSUME CeremonyInv, [CeremonyNext]_allVars PROVE CeremonyInv'
  OBVIOUS
<1>1. Inv'
  BY StepsAreAccessSteps, NextInv DEF CeremonyInv
<1> SUFFICES PoolsInv' /\ LinkInv'
  BY <1>1 DEF CeremonyInv
<1>2. PoolsInv /\ OnlyWhileUp /\ WindowsAreReservations /\ TrustCeremoniesHoldReservations /\ Inv
  BY DEF CeremonyInv, LinkInv
<1>3. ASSUME NEW h \in Handlers, CeremonyStep(h) PROVE PoolsInv' /\ LinkInv'
  BY <1>3, CeremonyStepKeeps DEF LinkInv, OnlyWhileUp
<1>same. ASSUME UNCHANGED ceremonyVars
         PROVE  \A key \in CeremonyKeys : /\ ceremonies'[key] \in {None, ceremonies[key]}
                                          /\ attempts'[key] \in {None, attempts[key]}
  BY <1>same DEF ceremonyVars
<1>4. ASSUME NEW h \in Handlers, OtherStep(h) PROVE PoolsInv' /\ LinkInv'
  <2>1. ReservationsStay /\ mode' = mode /\ UNCHANGED ceremonyVars
    BY <1>2, <1>4, OtherStepStays
  <2>2. PoolsInv' /\ WindowsAreReservations' /\ TrustCeremoniesHoldReservations'
    BY <1>2, <1>same, <2>1, SamePools, LinkStays
  <2> QED BY <1>2, <2>1, <2>2 DEF LinkInv, OnlyWhileUp, ceremonyVars
\* Without a service there is no ceremony, and NewManager starts without any
<1>empty. ASSUME ceremonies' = NoRecords, attempts' = NoRecords
          PROVE  WindowsAreReservations' /\ TrustCeremoniesHoldReservations'
  BY <1>empty, TrustKeysNameInvites
  DEF WindowsAreReservations, TrustCeremoniesHoldReservations, NoRecords
<1>5. CASE ManagerStep
  <2>1. UNCHANGED ceremonyVars
    BY <1>5 DEF ManagerStep
  <2>2. PoolsInv'
    BY <1>2, <2>1, SamePools
  <2>3. WindowsAreReservations' /\ TrustCeremoniesHoldReservations'
    <3>1. CASE mode # "down"
      BY <1>2, <1>5, <1>same, <2>1, <3>1, ManagerStepStays, LinkStays
    <3>2. CASE mode = "down"
      BY <1>2, <1>empty, <2>1, <3>2 DEF OnlyWhileUp, ceremonyVars
    <3> QED BY <3>1, <3>2
  <2>4. OnlyWhileUp'
    <3>1. /\ mode' \in {"down", "opened", "up"}
          /\ mode' # "up" => mode # "up"
      BY <1>2, <1>5 DEF ManagerStep, OpenProtected, NewManager, Tick, expiryLoop, LoopWaited, OnlyWhileUp
    <3> QED BY <1>2, <2>1, <3>1 DEF OnlyWhileUp, ceremonyVars, NoRecords
  <2> QED BY <2>2, <2>3, <2>4 DEF LinkInv
<1>6. CASE Restart
  <2>1. /\ ceremonies' = NoRecords /\ attempts' = NoRecords /\ finish' = [h \in Handlers |-> None]
        /\ mode' = "down"
    BY <1>6 DEF Restart, Crash, Gone
  <2>2. PoolsInv'
    BY <1>2, <1>6, RestartPools
  <2> QED BY <1>empty, <2>1, <2>2 DEF LinkInv, OnlyWhileUp, NoRecords
<1>7. CASE UNCHANGED allVars
  <2>1. UNCHANGED vars /\ UNCHANGED ceremonyVars
    BY <1>7 DEF allVars
  <2>2. PoolsInv'
    BY <1>2, <2>1, SamePools
  <2>3. ReservationsStay
    BY <1>2, <2>1 DEF vars, storeVars, ReservationsStay, Inv, TypeOK
  <2>4. OnlyWhileUp'
    BY <1>2, <2>1 DEF vars, ceremonyVars, OnlyWhileUp
  <2> QED BY <1>same, <2>1, <2>2, <2>3, <2>4, LinkStays DEF LinkInv
<1>8. CASE CeremonyNext
  BY <1>3, <1>4, <1>5, <1>6, <1>8 DEF CeremonyNext
<1> QED BY <1>7, <1>8

-----------------------------------------------------------------------------
(* The theorems.                                                           *)

\* The inductive invariant of the composition.
THEOREM CeremonyInvariance == CeremonySpec => []CeremonyInv
<1> QED BY InitCeremonyInv, NextCeremonyInv, PTL DEF CeremonySpec

\* The manager with its ceremonies implements the access manager of module
\* Access, so every theorem of AccessProofs holds of it: a finish commits only
\* what commitAssertion and commitRegistration allow (ceremony.go:92-330).
THEOREM CeremoniesImplementAccess == CeremonySpec => Spec
<1>1. CeremonyInit => Init
  BY DEF CeremonyInit
<1>2. CeremonyInv /\ [CeremonyNext]_allVars => [Next]_vars
  BY StepsAreAccessSteps
<1> QED BY <1>1, <1>2, CeremonyInvariance, PTL DEF CeremonySpec, Spec

\* No begin, eviction, pruning or second tab replaces a ceremony that is being
\* verified outside the lock (ceremony.go:180-330).
THEOREM CeremoniesAreKept == CeremonySpec => []FinishesKeepTheirCeremony
<1>1. CeremonyInv => FinishesKeepTheirCeremony
  BY DEF CeremonyInv, PoolsInv
<1> QED BY <1>1, CeremonyInvariance, PTL

\* One challenge, one commit, however often and however concurrently its answer
\* is sent.
THEOREM ChallengesCommitOnce == CeremonySpec => []ChallengesAreSingleUse
<1>1. CeremonyInv => ChallengesAreSingleUse
  BY DEF CeremonyInv, PoolsInv
<1> QED BY <1>1, CeremonyInvariance, PTL

\* The pools keep their types and bounds, and a trust ceremony that can still be
\* finished has its invitation reserved up to its own deadline.
THEOREM CeremoniesStayInAgreement == CeremonySpec => []CeremoniesAgree
<1>1. CeremonyInv => CeremoniesAgree
  BY DEF CeremonyInv, PoolsInv, LinkInv, CeremoniesAgree
<1> QED BY <1>1, CeremonyInvariance, PTL

-----------------------------------------------------------------------------
(* Attempt windows.                                                        *)

\* The window of key has an attempt left when one is started there.
StartsWithinLimit(key) ==
    StartsAt(key) # {} =>
        attempts[key] # None /\ clock < attempts[key].expires /\ attempts[key].count < maxAttempts

\* Install leaves every window alone but an expired one under its own key.
LEMMA InstallKeepsWindows ==
    ASSUME NEW C, NEW A \in [CeremonyKeys -> Attempts \cup {None}], NEW k \in CeremonyKeys,
           NEW c, NEW expires, Install(C, A, k, c, expires), NEW key \in CeremonyKeys
    PROVE  attempts'[key] = A[key] \/ (k = key /\ (A[key] = None \/ clock >= A[key].expires))
<1> DEFINE att == [count |-> 0, expires |-> expires]
<1>1. attempts' = IF A[k] = None \/ clock >= A[k].expires THEN [A EXCEPT ![k] = att] ELSE A
  BY DEF Install
<1> HIDE DEF att
<1> QED BY <1>1

\* A step that starts no verification need only account for the record it drops.
LEMMA QuietWindow ==
    ASSUME CeremonyTypeOK, NEW key \in CeremonyKeys,
           \A h \in Handlers : finish[h] = None => finish'[h] = None,
           attempts[key] # None /\ clock < attempts[key].expires =>
              \/ attempts'[key] = attempts[key]
              \/ attempts'[key] = None /\ EndsVerified(key)
              \/ MakesRoom(key) \/ mode' = "down"
    PROVE  KeepsCount(key) /\ StartsWithinLimit(key)
<1>1. StartsAt(key) = {}
  BY DEF StartsAt
<1>2. Cardinality(StartsAt(key)) = 0
  BY <1>1, FS_EmptySet
<1>3. ASSUME attempts[key] # None
      PROVE  attempts[key] = [attempts[key] EXCEPT !.count = @ + Cardinality(StartsAt(key))]
  <2>1. attempts[key] \in Attempts /\ attempts[key].count + 0 = attempts[key].count
    BY <1>3 DEF CeremonyTypeOK, Attempts
  <2> QED BY <1>2, <2>1 DEF Attempts
<1> QED BY <1>1, <1>3 DEF KeepsCount, StartsWithinLimit

\* A verification is started inside a window with an attempt left, and is counted.
LEMMA StartCounts ==
    ASSUME PoolsInv, clock \in Nat, NEW h \in Handlers, NEW kind \in Kinds, NEW c \in Clients,
           NEW n \in 1..MaxBegins, startCeremonyVerification(h, kind, c, n),
           ident[h] = None \/ ident[h].digest \in Digests, NEW key \in CeremonyKeys
    PROVE  KeepsCount(key) /\ StartsWithinLimit(key)
<1> DEFINE C == PrunedCeremonies
           A == PrunedAttempts
<1>1. PICK k \in FinishKeys(h, kind, c) :
         /\ C[k] # None /\ clock < C[k].expires /\ ~Exhausted(A, k)
         /\ attempts' = [A EXCEPT ![k].count = @ + 1]
         /\ finish' = [finish EXCEPT ![h] =
                [key |-> k, client |-> c, challenge |-> C[k].challenge,
                 expires |-> C[k].expires, answer |-> n,
                 trust |-> None, passkey |-> None, step |-> "verify"]]
  BY DEF startCeremonyVerification
<1>2. k \in CeremonyKeys /\ finish[h] = None
  BY DEF FinishKeys, Kinds, CeremonyKeys, startCeremonyVerification
<1>3. /\ Drops(C, A) /\ CeremonyTypeOK /\ WindowsCoverCeremonies
      /\ \A j \in CeremonyKeys : attempts[j] # None /\ clock < attempts[j].expires => A[j] = attempts[j]
  BY PruningDrops DEF PoolsInv
<1> HIDE DEF C, A
<1>4. /\ C[k] = ceremonies[k] /\ C[k] \in Ceremony
      /\ A[k] = attempts[k] /\ A[k] # None /\ A[k] \in Attempts
      /\ A[k].expires = C[k].expires
  BY <1>1, <1>2, <1>3 DEF Drops, WindowsCoverCeremonies
<1>5. attempts[k] # None /\ clock < attempts[k].expires /\ attempts[k].count < maxAttempts
  <2>1. A[k].count \in Nat /\ maxAttempts \in Nat
    BY <1>4, CeremonyBounds DEF Attempts
  <2> QED BY <1>1, <1>4, <2>1 DEF Exhausted
<1>6. finish'[h] # None /\ finish'[h].key = k /\ \A g \in Handlers \ {h} : finish'[g] = finish[g]
  <2> DEFINE f == [key |-> k, client |-> c, challenge |-> C[k].challenge,
                   expires |-> C[k].expires, answer |-> n,
                   trust |-> None, passkey |-> None, step |-> "verify"]
  <2>1. f \in Finish
    BY <1>2, <1>4 DEF Finish, Ceremony
  <2>2. f # None /\ f.key = k
    BY <2>1, NoneIsNoRecord
  <2>3. finish' = [finish EXCEPT ![h] = f]
    BY <1>1
  <2> HIDE DEF f
  <2> QED BY <1>3, <2>2, <2>3 DEF CeremonyTypeOK
<1>7. CASE key = k
  <2>1. StartsAt(key) = {h}
    BY <1>2, <1>6, <1>7 DEF StartsAt
  <2>2. Cardinality(StartsAt(key)) = 1
    BY <2>1, FS_Singleton
  <2>3. attempts'[key] = [attempts[key] EXCEPT !.count = @ + 1]
    BY <1>1, <1>2, <1>3, <1>4, <1>7 DEF Drops
  <2> QED BY <1>5, <1>7, <2>2, <2>3 DEF KeepsCount, StartsWithinLimit
<1>8. CASE key # k
  <2>1. StartsAt(key) = {}
    BY <1>6, <1>8 DEF StartsAt
  <2>2. Cardinality(StartsAt(key)) = 0
    BY <2>1, FS_EmptySet
  <2>3. attempts'[key] = A[key]
    BY <1>1, <1>3, <1>8 DEF Drops
  <2>4. ASSUME attempts[key] # None, clock < attempts[key].expires
        PROVE  attempts'[key] = [attempts[key] EXCEPT !.count = @ + Cardinality(StartsAt(key))]
    <3>1. attempts[key] \in Attempts /\ attempts[key].count + 0 = attempts[key].count
      BY <1>3, <2>4 DEF CeremonyTypeOK, Attempts
    <3> QED BY <1>3, <2>2, <2>3, <2>4, <3>1 DEF Attempts
  <2> QED BY <2>1, <2>4 DEF KeepsCount, StartsWithinLimit
<1> QED BY <1>7, <1>8

\* A begin evicts from a full pool of sign-ins, and nothing that is being verified.
LEMMA BeginMakesRoom ==
    ASSUME PoolsInv, clock \in Nat, NEW h \in Handlers, NEW c \in Clients, NEW k \in CeremonyKeys,
           beginAssertion(h, k, c), NEW key \in CeremonyKeys,
           attempts[key] # None, clock < attempts[key].expires
    PROVE  attempts'[key] = attempts[key] \/ MakesRoom(key)
<1>1. PICK R \in Evictions(PrunedCeremonies, PrunedAttempts, k) :
         Install(Without(PrunedCeremonies, R), Without(PrunedAttempts, R), k, c,
                 BeginDeadline(Without(PrunedAttempts, R), k))
  BY DEF beginAssertion
<1>2. R # {} => Kind(k) = "signin" /\ ~Room(PrunedCeremonies, PrunedAttempts, k, {})
  BY EvictionDrops
<1>3. /\ PrunedAttempts[key] = attempts[key]
      /\ PrunedAttempts \in [CeremonyKeys -> Attempts \cup {None}]
      /\ PrunedCeremonies \in [CeremonyKeys -> Ceremony \cup {None}]
      /\ InFlight(key) => PrunedCeremonies[key] = ceremonies[key]
      /\ attempts[key].expires \in Nat /\ challenge \in Nat
  BY PruningDrops DEF PoolsInv, Drops, CeremonyTypeOK, Attempts
<1> DEFINE X == Without(PrunedCeremonies, R)
           Y == Without(PrunedAttempts, R)
           expires == BeginDeadline(Y, k)
<1>4. /\ X \in [CeremonyKeys -> Ceremony \cup {None}]
      /\ Y \in [CeremonyKeys -> Attempts \cup {None}]
      /\ key \notin R => Y[key] = attempts[key]
  BY <1>3 DEF Without
<1>5. Install(X, Y, k, c, expires)
  BY <1>1
<1> HIDE DEF X, Y, expires
<1>6. CASE key \notin R
  <2>1. attempts'[key] = Y[key] \/ (k = key /\ (Y[key] = None \/ clock >= Y[key].expires))
    BY <1>4, <1>5, InstallKeepsWindows
  <2> QED BY <1>3, <1>4, <1>6, <2>1
<1>7. CASE key \in R
  <2>1. R \subseteq Evictable(PrunedCeremonies, PrunedAttempts)
    BY <1>7 DEF Evictions
  <2>2. Kind(key) = "signin" /\ ~InFlight(key)
    BY <1>3, <1>7, <2>1 DEF Evictable, Pool, InFlight
  <2> DEFINE new == [client |-> c, expires |-> expires, challenge |-> challenge + 1, inFlight |-> FALSE]
  <2>3. ceremonies' = [X EXCEPT ![k] = new]
    BY <1>5 DEF Install
  <2>4. new.challenge > challenge /\ new # None
    <3>1. challenge + 1 \in 1..MaxBegins /\ expires \in Nat
      <4>1. challenge < MaxBegins
        BY DEF beginAssertion
      <4>2. \A j \in CeremonyKeys : Y[j] # None => Y[j].expires \in Nat
        BY <1>4 DEF Attempts
      <4> QED BY <1>3, <4>1, <4>2, CeremonyBounds, BoundsAreNaturals DEF expires, BeginDeadline
    <3>2. new \in Ceremony
      BY <3>1 DEF Ceremony
    <3>3. new.challenge = challenge + 1
      OBVIOUS
    <3>4. challenge + 1 > challenge
      BY <1>3
    <3> HIDE DEF new
    <3> QED BY <3>2, <3>3, <3>4, NoneIsNoRecord
  <2> HIDE DEF new
  <2>5. ceremonies'[k] # None /\ ceremonies'[k].challenge > challenge
    BY <1>4, <2>3, <2>4
  <2> QED BY <1>2, <1>7, <2>2, <2>5 DEF MakesRoom
<1> QED BY <1>6, <1>7

\* resolveCeremony drops an open record after a right answer only.
LEMMA ResolveKeepsCount ==
    ASSUME PoolsInv, NEW h \in Handlers, resolveCeremony(h), NEW key \in CeremonyKeys,
           attempts[key] # None, clock < attempts[key].expires
    PROVE  attempts'[key] = attempts[key] \/ (attempts'[key] = None /\ EndsVerified(key))
<1>1. /\ CeremonyTypeOK /\ PasskeysVerified /\ finish[h] # None /\ finish'[h] = None
      /\ finish[h].step \in {"failed", "terminal", "succeeded"}
  BY DEF PoolsInv, CeremonyTypeOK, resolveCeremony, At
<1>2. finish[h].key \in CeremonyKeys
  BY <1>1, FinishTypes
<1>3. \/ attempts' = attempts
      \/ /\ attempts' = [attempts EXCEPT ![finish[h].key] = None]
         /\ ~(At(h, "failed") /\ attempts[finish[h].key] # None /\ clock < attempts[finish[h].key].expires)
  BY DEF resolveCeremony
<1>4. CASE key # finish[h].key \/ At(h, "failed")
  BY <1>1, <1>3, <1>4 DEF CeremonyTypeOK
<1>5. CASE key = finish[h].key /\ ~At(h, "failed")
  <2>1. finish[h].step \notin {"verify", "failed"}
    BY <1>1, <1>5 DEF At
  <2>2. finish[h].passkey # None
    BY <1>1, <2>1, NoneIsNoName DEF PasskeysVerified
  <2>3. EndsVerified(key)
    BY <1>1, <1>5, <2>2 DEF EndsVerified
  <2> QED BY <1>1, <1>2, <1>3, <2>3 DEF CeremonyTypeOK
<1> QED BY <1>4, <1>5

\* Every step keeps the open windows.
LEMMA WindowStep ==
    ASSUME CeremonyInv, CeremonyNext, NEW key \in CeremonyKeys
    PROVE  KeepsCount(key) /\ StartsWithinLimit(key)
<1>1. /\ Inv /\ PoolsInv /\ clock \in Nat /\ CeremonyTypeOK
  BY DEF CeremonyInv, PoolsInv, Inv, TypeOK
<1>2. attempts[key] # None /\ clock < attempts[key].expires => PrunedAttempts[key] = attempts[key]
  BY <1>1, PruningDrops
<1>same. ASSUME UNCHANGED <<attempts, finish>>
         PROVE  KeepsCount(key) /\ StartsWithinLimit(key)
  BY <1>1, <1>same, QuietWindow
<1>3. CASE ManagerStep \/ \E h \in Handlers : OtherStep(h)
  BY <1>3, <1>same DEF ManagerStep, OtherStep, ceremonyVars
<1>4. CASE Restart
  <2>1. mode' = "down" /\ finish' = [h \in Handlers |-> None]
    BY <1>4 DEF Restart, Crash, Gone
  <2> QED BY <1>1, <2>1, QuietWindow
<1> SUFFICES ASSUME NEW h \in Handlers, CeremonyStep(h)
             PROVE  KeepsCount(key) /\ StartsWithinLimit(key)
  BY <1>3, <1>4 DEF CeremonyNext
<1>5. ASSUME NEW c \in Clients, NEW k \in CeremonyKeys, beginAssertion(h, k, c)
      PROVE  KeepsCount(key) /\ StartsWithinLimit(key)
  <2>1. finish' = finish
    BY <1>5 DEF beginAssertion
  <2>2. attempts[key] # None /\ clock < attempts[key].expires =>
           attempts'[key] = attempts[key] \/ MakesRoom(key)
    BY <1>1, <1>5, BeginMakesRoom
  <2> QED BY <1>1, <2>1, <2>2, QuietWindow
<1>6. ASSUME NEW c \in Clients, NEW i \in Invites, NEW ok \in BOOLEAN, BeginTrust(h, c, i, ok)
      PROVE  KeepsCount(key) /\ StartsWithinLimit(key)
  <2>1. /\ finish' = finish
        /\ \/ attempts' = PrunedAttempts
           \/ \E C, expires : Install(C, PrunedAttempts, TrustKey(i), c, expires)
    BY <1>6 DEF BeginTrust
  <2>2. PrunedAttempts \in [CeremonyKeys -> Attempts \cup {None}]
    BY <1>1, PruningDrops DEF Drops
  <2>3. attempts[key] # None /\ clock < attempts[key].expires => attempts'[key] = attempts[key]
    <3> SUFFICES ASSUME attempts[key] # None, clock < attempts[key].expires
                 PROVE  attempts'[key] = attempts[key]
      OBVIOUS
    <3>1. attempts[key].expires \in Nat
      BY <1>1 DEF CeremonyTypeOK, Attempts
    <3> QED BY <1>1, <1>2, <2>1, <2>2, <3>1, TrustKeysNameInvites, InstallKeepsWindows
  <2> QED BY <1>1, <2>1, <2>3, QuietWindow
<1>7. ASSUME NEW kind \in Kinds, NEW c \in Clients, NEW n \in 1..MaxBegins,
             startCeremonyVerification(h, kind, c, n)
      PROVE  KeepsCount(key) /\ StartsWithinLimit(key)
  <2>1. ident[h] = None \/ ident[h].digest \in Digests
    BY <1>1 DEF Inv, TypeOK, SessionIdentity
  <2> QED BY <1>1, <1>7, <2>1, StartCounts
<1>8. CASE PruneOnly(h)
  BY <1>1, <1>2, <1>8, QuietWindow DEF PruneOnly
<1>9. CASE resolveCeremony(h)
  <2>1. \A g \in Handlers : finish[g] = None => finish'[g] = None
    BY <1>1, <1>9 DEF resolveCeremony, CeremonyTypeOK
  <2>2. attempts[key] # None /\ clock < attempts[key].expires =>
           attempts'[key] = attempts[key] \/ (attempts'[key] = None /\ EndsVerified(key))
    BY <1>1, <1>9, ResolveKeepsCount
  <2> QED BY <1>1, <2>1, <2>2, QuietWindow
<1>moves. ASSUME finish[h] # None, UNCHANGED attempts, \A g \in Handlers \ {h} : finish'[g] = finish[g]
          PROVE  KeepsCount(key) /\ StartsWithinLimit(key)
  BY <1>1, <1>moves, QuietWindow
<1>10. CASE \/ VerificationFailed(h) \/ ceremonyCanCommit(h) \/ CommitRefused(h)
            \/ \E t \in Trusts \cup {None}, k \in Keys : Verified(h, t, k)
  <2>1. finish[h] # None /\ UNCHANGED attempts /\ \A g \in Handlers \ {h} : finish'[g] = finish[g]
    BY <1>1, <1>10
    DEF VerificationFailed, ceremonyCanCommit, CommitRefused, Verified, At, Goto, CeremonyTypeOK
  <2> QED BY <1>moves, <2>1
<1>11. CASE \/ \E d \in Digests, ok \in BOOLEAN : FinishAssertion(h, d, ok)
            \/ \E t \in Trusts, d \in Digests, ok \in BOOLEAN : FinishRegistration(h, t, d, ok)
  <2>1. finish[h] # None /\ UNCHANGED attempts /\ \A g \in Handlers \ {h} : finish'[g] = finish[g]
    BY <1>1, <1>11 DEF FinishAssertion, FinishRegistration, Committed, At, Goto, CeremonyTypeOK
  <2> QED BY <1>moves, <2>1
<1> QED BY <1>5, <1>6, <1>7, <1>8, <1>9, <1>10, <1>11 DEF CeremonyStep, Kinds

\* Wrong answers are limited: inside a window, started verifications only add
\* up, to at most maxAttempts, and a begin, a failed answer, pruning or a second
\* tab neither lowers the count nor moves the deadline; only a right answer's
\* commit or refused commit, an eviction from a full pool of sign-ins or the
\* process's end drops the record (ceremony.go:118-136, 361-372, 649-724).
THEOREM AttemptWindowsAreKept == CeremonySpec => AttemptWindowsHold
<1> DEFINE Kept == /\ \A key \in CeremonyKeys : KeepsCount(key)
                   /\ \A h \in Handlers : WithinLimit(h)
<1>1. ASSUME CeremonyInv, CeremonyNext PROVE Kept
  <2>1. \A key \in CeremonyKeys : KeepsCount(key) /\ StartsWithinLimit(key)
    BY <1>1, WindowStep
  <2>2. ASSUME NEW h \in Handlers, finish[h] = None, finish'[h] # None
        PROVE  WithinLimit(h)
    <3>1. CeremonyInv'
      BY <1>1, NextCeremonyInv
    <3>2. finish'[h].key \in CeremonyKeys
      BY <2>2, <3>1 DEF CeremonyInv, PoolsInv, CeremonyTypeOK, Finish
    <3>3. StartsWithinLimit(finish'[h].key) /\ h \in StartsAt(finish'[h].key)
      BY <2>1, <2>2, <3>2 DEF StartsAt
    <3> QED BY <3>3 DEF StartsWithinLimit, WithinLimit
  <2>3. \A h \in Handlers : WithinLimit(h)
    BY <2>2 DEF WithinLimit
  <2> QED BY <2>1, <2>3
<1>2. CeremonyInv /\ [CeremonyNext]_allVars => [Kept]_allVars
  BY <1>1
<1> QED BY <1>2, CeremonyInvariance, PTL DEF CeremonySpec, AttemptWindowsHold
=============================================================================
