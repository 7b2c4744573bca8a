----------------------------- MODULE Ceremonies -----------------------------
(***************************************************************************)
(* The WebAuthn ceremonies of internal/access/ceremony.go, on top of the   *)
(* access state of module Access.  A ceremony is begun by one request and  *)
(* finished by another; the finish is five critical sections, under        *)
(* ceremonyMu or under the gate, with the verification outside both, so    *)
(* begins, other finishes, evictions, expiry and revocations fall between. *)
(*                                                                         *)
(* A challenge is a number.  A browser may send the answer to any          *)
(* challenge it was ever given, any number of times; the WebAuthn library  *)
(* (external) accepts only the answer to the ceremony's own challenge.     *)
(***************************************************************************)
EXTENDS Access

CONSTANTS
    maxAttempts,
    maxSignInCeremonies, maxReauthCeremonies, maxTrustCeremonies,
    MaxBegins             \* bound on the challenges issued

ASSUME CeremonyBounds ==
    {maxAttempts, maxSignInCeremonies, maxReauthCeremonies, maxTrustCeremonies,
     MaxBegins} \subseteq Nat

VARIABLES
    ceremonies,  \* Manager.ceremonies, per key
    attempts,    \* Manager.attempts, per key
    finish,      \* per request: the finish it is carrying out, or None
    challenge,   \* challenges issued so far
    commits      \* history: how often each challenge led to a commit

ceremonyVars == <<ceremonies, attempts, finish, challenge, commits>>
allVars == <<vars, ceremonyVars>>

SignInKey(c) == <<"signin", c>>
ReauthKey(d) == <<"reauth", d>>
TrustKey(i)  == <<"trust", i>>
Kind(key)    == key[1]
CeremonyKeys == {SignInKey(c) : c \in Clients} \cup {ReauthKey(d) : d \in Digests}
                    \cup {TrustKey(i) : i \in Invites}

Ceremony == [client : Clients, expires : Nat, challenge : 1..MaxBegins, inFlight : BOOLEAN]
Attempts == [count : 0..maxAttempts, expires : Nat]
Finish   == [key : CeremonyKeys, client : Clients, challenge : 1..MaxBegins, expires : Nat,
             answer : 1..MaxBegins, trust : Trusts \cup {None}, passkey : Keys \cup {None},
             step : {"verify", "verified", "commit", "failed", "terminal", "succeeded"}]

ASSUME NoneIsNoRecord == None \notin Ceremony \cup Attempts \cup Finish

InFlight(key) == ceremonies[key] # None /\ ceremonies[key].inFlight

Exhausted(A, key) == A[key] # None /\ A[key].count >= maxAttempts /\ clock < A[key].expires

\* pruneCeremoniesLocked
PrunedCeremonies ==
    [key \in CeremonyKeys |->
        IF ceremonies[key] # None /\ ~InFlight(key) /\ clock >= ceremonies[key].expires
        THEN None ELSE ceremonies[key]]

PrunedAttempts ==
    [key \in CeremonyKeys |->
        IF attempts[key] # None /\ ~InFlight(key) /\ clock >= attempts[key].expires
        THEN None ELSE attempts[key]]

-----------------------------------------------------------------------------
(* makeCeremonyRoomLocked, over the maps C and A.                          *)

PoolLimit(kind) ==
    CASE kind = "signin" -> maxSignInCeremonies
      [] kind = "reauth" -> maxReauthCeremonies
      [] kind = "trust"  -> maxTrustCeremonies

Pool(F, kind) == {key \in CeremonyKeys : Kind(key) = kind /\ F[key] # None}

Room(C, A, key, evicted) ==
    /\ C[key] # None \/ Cardinality(Pool(C, Kind(key)) \ evicted) < PoolLimit(Kind(key))
    /\ A[key] # None \/ Cardinality(Pool(A, Kind(key)) \ evicted) < PoolLimit(Kind(key))

\* Mutant: a ceremony that is being verified is evicted like any other
EvictableAny(C, A) == {key \in Pool(C, "signin") \cup Pool(A, "signin") : TRUE}

Evictable(C, A) ==
    {key \in Pool(C, "signin") \cup Pool(A, "signin") : C[key] = None \/ ~C[key].inFlight}

Window(C, A, key) ==
    IF A[key] = None THEN C[key].expires
    ELSE IF C[key] = None \/ A[key].expires <= C[key].expires THEN A[key].expires
    ELSE C[key].expires

OldestFirst(C, A, R) ==
    \A r \in R, q \in Evictable(C, A) \ R : Window(C, A, r) <= Window(C, A, q)

\* The sets of sign-in keys that are evicted, oldest first, until key has room
Evictions(C, A, key) ==
    IF Room(C, A, key, {}) THEN {{}}
    ELSE IF Kind(key) # "signin" THEN {}
    ELSE {R \in SUBSET Evictable(C, A) :
             /\ OldestFirst(C, A, R) /\ Room(C, A, key, R)
             /\ \E r \in R : OldestFirst(C, A, R \ {r}) /\ ~Room(C, A, key, R \ {r})}

Without(F, R) == [key \in CeremonyKeys |-> IF key \in R THEN None ELSE F[key]]

-----------------------------------------------------------------------------
(* Begin.                                                                  *)

\* Mutant: the ceremony of a trust begin runs past the reservation it made
InstallFullWindow(C, A, key, c, expires) ==
    /\ challenge' = challenge + 1
    /\ ceremonies' = [C EXCEPT ![key] = [client |-> c, expires |-> clock + ReservationLifetime,
                                         challenge |-> challenge + 1, inFlight |-> FALSE]]
    /\ attempts' = [A EXCEPT ![key] = [count |-> 0, expires |-> clock + ReservationLifetime]]

\* Mutant: a begin hands out the last challenge again
InstallRepeating(C, A, key, c, expires) ==
    /\ challenge' = challenge + 1
    /\ ceremonies' = [C EXCEPT ![key] =
          [client |-> c, expires |-> expires, inFlight |-> FALSE,
           challenge |-> IF challenge = 0 THEN 1 ELSE challenge]]
    /\ attempts' = IF A[key] = None \/ clock >= A[key].expires
                   THEN [A EXCEPT ![key] = [count |-> 0, expires |-> expires]] ELSE A

\* The ceremony and the attempt window that a begin leaves under key
Install(C, A, key, c, expires) ==
    /\ challenge' = challenge + 1
    /\ ceremonies' = [C EXCEPT ![key] =
          [client |-> c, expires |-> expires, challenge |-> challenge + 1, inFlight |-> FALSE]]
    /\ attempts' = IF A[key] = None \/ clock >= A[key].expires
                   THEN [A EXCEPT ![key] = [count |-> 0, expires |-> expires]] ELSE A

\* A new challenge inside a window keeps the window's deadline
BeginDeadline(A, key) ==
    IF A[key] # None /\ clock < A[key].expires THEN A[key].expires ELSE clock + ReservationLifetime

beginAssertion(h, key, c) ==
    /\ Calling(h) /\ finish[h] = None /\ challenge < MaxBegins
    /\ \/ key = SignInKey(c)
       \/ /\ ident[h] # None /\ ActiveSessions(ident[h]) # {}
          /\ key = ReauthKey(ident[h].digest)
    /\ LET C == PrunedCeremonies
           A == PrunedAttempts
       IN /\ ~InFlight(key) /\ ~Exhausted(A, key)
          /\ \E R \in Evictions(C, A, key) :
                Install(Without(C, R), Without(A, R), key, c,
                        BeginDeadline(Without(A, R), key))
    /\ UNCHANGED <<vars, finish, commits>>

\* No trust ceremony of the cookie c, nor the one of invitation i, is being verified
TrustFree(c, i) ==
    /\ \A j \in Invites : InFlight(TrustKey(j)) => ceremonies[TrustKey(j)].client # c
    /\ ~InFlight(TrustKey(i))

\* The cookie's trust ceremonies for other invitations, which BeginTrust drops
OtherTrusts(C, c, i) ==
    {TrustKey(j) : j \in {j \in Invites \ {i} : C[TrustKey(j)] # None /\ C[TrustKey(j)].client = c}}

BeginTrust(h, c, i, ok) ==
    /\ finish[h] = None /\ challenge < MaxBegins
    /\ TrustFree(c, i)
    /\ LET C == PrunedCeremonies
           A == PrunedAttempts
           key == TrustKey(i)
       IN /\ ~Exhausted(A, key) /\ Room(C, A, key, {})
          /\ ReserveInvitation(h, c, i, ok)
          /\ IF ok
             THEN \E inv \in mem'.invites :
                     inv.digest = i /\ Install(Without(C, OtherTrusts(C, c, i)), A, key, c, inv.until)
             ELSE ceremonies' = C /\ attempts' = A /\ challenge' = challenge
    /\ UNCHANGED <<finish, commits>>

\* Any begin or finish that is turned away has pruned all the same
PruneOnly(h) ==
    /\ Calling(h) /\ finish[h] = None
    /\ <<PrunedCeremonies, PrunedAttempts>> # <<ceremonies, attempts>>
    /\ ceremonies' = PrunedCeremonies
    /\ attempts' = PrunedAttempts
    /\ UNCHANGED <<vars, finish, challenge, commits>>

-----------------------------------------------------------------------------
(* Finish.                                                                 *)

\* The keys at which a finish of this kind by the cookie c looks
FinishKeys(h, kind, c) ==
    CASE kind = "signin" -> {SignInKey(c)}
      [] kind = "reauth" -> IF ident[h] = None THEN {} ELSE {ReauthKey(ident[h].digest)}
      [] kind = "trust"  -> {TrustKey(i) : i \in Invites}

startCeremonyVerification(h, kind, c, answer) ==
    /\ Calling(h) /\ finish[h] = None /\ answer <= challenge
    /\ \E key \in FinishKeys(h, kind, c) :
          /\ PrunedCeremonies[key] # None /\ ~InFlight(key)
          /\ PrunedCeremonies[key].client = c /\ clock < PrunedCeremonies[key].expires
          /\ ~Exhausted(PrunedAttempts, key)
          /\ attempts' = [PrunedAttempts EXCEPT ![key].count = @ + 1]
          /\ ceremonies' = [PrunedCeremonies EXCEPT ![key].inFlight = TRUE]
          /\ finish' = [finish EXCEPT ![h] =
                [key |-> key, client |-> c, challenge |-> PrunedCeremonies[key].challenge,
                 expires |-> PrunedCeremonies[key].expires, answer |-> answer,
                 trust |-> None, passkey |-> None, step |-> "verify"]]
    /\ UNCHANGED <<vars, challenge, commits>>

At(h, step) == finish[h] # None /\ finish[h].step = step
Goto(h, step) == finish' = [finish EXCEPT ![h].step = step]

\* verifyAssertion looks the passkey up under gate.RLock; a registration
\* answers with a passkey of the browser's choice
Verified(h, t, k) ==
    /\ At(h, "verify") /\ finish[h].answer = finish[h].challenge
    /\ IF Kind(finish[h].key) = "trust" THEN t = None
       ELSE \E c \in Active(mem) : c.trust = t /\ c.key = k
    /\ finish' = [finish EXCEPT ![h].trust = t, ![h].passkey = k, ![h].step = "verified"]
    /\ UNCHANGED <<vars, ceremonies, attempts, challenge, commits>>

VerificationFailed(h) ==
    /\ At(h, "verify")
    /\ Goto(h, "failed")
    /\ UNCHANGED <<vars, ceremonies, attempts, challenge, commits>>

\* The ceremony the finish started on is still the one under its key
Own(h) ==
    LET key == finish[h].key
    IN InFlight(key) /\ ceremonies[key].challenge = finish[h].challenge

ceremonyCanCommit(h) ==
    /\ At(h, "verified")
    /\ LET count == IF attempts[finish[h].key] = None THEN 0 ELSE attempts[finish[h].key].count
       IN Goto(h, IF Own(h) /\ count \in 1..maxAttempts /\ clock < finish[h].expires
                  THEN "commit" ELSE "terminal")
    /\ UNCHANGED <<vars, ceremonies, attempts, challenge, commits>>

\* The commit of a verified finish, or its refusal under the gate
Committed(h, ok) ==
    /\ Goto(h, IF ok THEN "succeeded" ELSE "terminal")
    /\ commits' = [commits EXCEPT ![finish[h].challenge] = IF ok THEN @ + 1 ELSE @]
    /\ UNCHANGED <<ceremonies, attempts, challenge>>

AssertionDue(h) ==
    /\ clock < finish[h].expires
    /\ AssertionHolds(h, finish[h].trust, finish[h].passkey, Kind(finish[h].key) = "reauth")

FinishAssertion(h, d, ok) ==
    /\ At(h, "commit") /\ Kind(finish[h].key) # "trust" /\ AssertionDue(h)
    /\ CommitAssertion(h, finish[h].trust, finish[h].passkey, d, Kind(finish[h].key) = "reauth", ok)
    /\ Committed(h, ok)

FinishRegistration(h, t, d, ok) ==
    /\ At(h, "commit") /\ Kind(finish[h].key) = "trust"
    /\ CommitRegistration(h, finish[h].client, finish[h].key[2], finish[h].passkey, t, d, ok)
    /\ Committed(h, ok)

CommitRefused(h) ==
    /\ At(h, "commit") /\ GateFree
    /\ IF Kind(finish[h].key) = "trust"
       THEN Registrable(finish[h].client, finish[h].key[2], finish[h].passkey) = {}
       ELSE ~AssertionDue(h)
    /\ Goto(h, "terminal")
    /\ UNCHANGED <<vars, ceremonies, attempts, challenge, commits>>

\* Mutant: a failed verification takes the record of its attempts with it
resolveCeremonyForgetting(h) ==
    /\ \E step \in {"failed", "terminal", "succeeded"} : At(h, step)
    /\ LET key == finish[h].key
       IN /\ ceremonies' = IF Own(h) THEN [ceremonies EXCEPT ![key] = None] ELSE ceremonies
          /\ attempts' = IF Own(h) THEN [attempts EXCEPT ![key] = None] ELSE attempts
    /\ finish' = [finish EXCEPT ![h] = None]
    /\ UNCHANGED <<vars, challenge, commits>>

resolveCeremony(h) ==
    /\ \E step \in {"failed", "terminal", "succeeded"} : At(h, step)
    /\ LET key == finish[h].key
           keep == At(h, "failed") /\ attempts[key] # None /\ clock < attempts[key].expires
       IN /\ ceremonies' = IF Own(h) THEN [ceremonies EXCEPT ![key] = None] ELSE ceremonies
          /\ attempts' = IF Own(h) /\ ~keep THEN [attempts EXCEPT ![key] = None] ELSE attempts
    /\ finish' = [finish EXCEPT ![h] = None]
    /\ UNCHANGED <<vars, challenge, commits>>

-----------------------------------------------------------------------------
(* The rest of the manager, with the ceremonies left alone; a process that *)
(* ends takes its ceremonies with it.                                      *)

NoRecords == [key \in CeremonyKeys |-> None]

CeremonyInit ==
    /\ Init
    /\ ceremonies = NoRecords /\ attempts = NoRecords /\ finish = [h \in Handlers |-> None]
    /\ challenge = 0
    /\ commits = [n \in 1..MaxBegins |-> 0]

CeremonyStep(h) ==
    \/ \E c \in Clients, key \in CeremonyKeys : beginAssertion(h, key, c)
    \/ \E c \in Clients, i \in Invites, ok \in BOOLEAN : BeginTrust(h, c, i, ok)
    \/ PruneOnly(h)
    \/ \E kind \in {"signin", "reauth", "trust"}, c \in Clients, n \in 1..MaxBegins :
          startCeremonyVerification(h, kind, c, n)
    \/ \E t \in Trusts \cup {None}, k \in Keys : Verified(h, t, k)
    \/ VerificationFailed(h) \/ ceremonyCanCommit(h)
    \/ \E d \in Digests, ok \in BOOLEAN : FinishAssertion(h, d, ok)
    \/ \E t \in Trusts, d \in Digests, ok \in BOOLEAN : FinishRegistration(h, t, d, ok)
    \/ CommitRefused(h) \/ resolveCeremony(h)

\* A request that is not in a finish: sign-out, revocation, invitation, its end
OtherStep(h) ==
    /\ finish[h] = None
    /\ \/ \E id \in {[digest |-> s.digest, trust |-> s.trust] : s \in mem.sessions} \cup {None} :
             Admit(h, id)
       \/ \E d \in Invites : CreateBrowserInvitation(h, d)
       \/ \E t \in Trusts : RevokeBrowser(h, t)
       \/ SignOut(h) \/ EndRequest(h) \/ Report(h)
    /\ UNCHANGED ceremonyVars

ManagerStep ==
    /\ \/ \E life \in Lifetimes, d \in Invites : OpenProtected(FALSE, life, d)
       \/ NewManager \/ Tick \/ expiryLoop \/ LoopWaited
    /\ UNCHANGED ceremonyVars

Restart ==
    /\ Crash
    /\ ceremonies' = NoRecords /\ attempts' = NoRecords /\ finish' = [h \in Handlers |-> None]
    /\ UNCHANGED <<challenge, commits>>

CeremonyNext == (\E h \in Handlers : CeremonyStep(h) \/ OtherStep(h)) \/ ManagerStep \/ Restart

CeremonySpec == CeremonyInit /\ [][CeremonyNext]_allVars

-----------------------------------------------------------------------------
(* Properties.                                                             *)

CeremonyTypeOK ==
    /\ ceremonies \in [CeremonyKeys -> Ceremony \cup {None}]
    /\ attempts \in [CeremonyKeys -> Attempts \cup {None}]
    /\ finish \in [Handlers -> Finish \cup {None}]
    /\ challenge \in 0..MaxBegins
    /\ commits \in [1..MaxBegins -> Nat]

\* While a finish is under way, the ceremony it took stays under its key,
\* in flight: no begin in another tab, no eviction from a full pool, no
\* pruning and no trust ceremony for another invitation replaces it.
FinishesKeepTheirCeremony == \A h \in Handlers : finish[h] # None => Own(h)

\* A challenge leads to at most one session or trusted sign-in, however often
\* its answer is sent.
ChallengesAreSingleUse == \A n \in 1..MaxBegins : commits[n] <= 1

\* A trust ceremony that can still be finished has its invitation reserved for
\* its cookie up to its own deadline, unless the invitation was withdrawn:
\* what ceremonyMu guards and what the gate guards agree.
TrustCeremoniesHoldReservations ==
    \A i \in Invites : LET cer == ceremonies[TrustKey(i)] IN
        cer # None /\ clock < cer.expires =>
            \A inv \in mem.invites : inv.digest = i =>
                inv.consumed \/ (inv.client = cer.client /\ inv.until = cer.expires)

\* A cookie has at most one trust ceremony, so its finish finds the right one,
\* and every pool keeps within its bound.
PoolsAreBounded ==
    /\ \A i, j \in Invites :
          LET a == ceremonies[TrustKey(i)] b == ceremonies[TrustKey(j)]
          IN a # None /\ b # None /\ a.client = b.client => i = j
    /\ \A kind \in {"signin", "reauth", "trust"} :
          /\ Cardinality(Pool(ceremonies, kind)) <= PoolLimit(kind)
          /\ Cardinality(Pool(attempts, kind)) <= PoolLimit(kind)

\* The verifications that a step starts at key
StartsAt(key) ==
    {h \in Handlers : finish[h] = None /\ finish'[h] # None /\ finish'[h].key = key}

\* A finish whose answer was right ends, after its commit or the refusal of it
EndsVerified(key) ==
    \E h \in Handlers : /\ finish[h] # None /\ finish[h].key = key /\ finish[h].passkey # None
                        /\ finish'[h] = None

\* A sign-in is begun for which the pruned pool has no room, and key is not
\* being verified
MakesRoom(key) ==
    /\ Kind(key) = "signin" /\ ~InFlight(key)
    /\ \E new \in CeremonyKeys :
          /\ ceremonies'[new] # None /\ ceremonies'[new].challenge > challenge
          /\ Kind(new) = "signin" /\ ~Room(PrunedCeremonies, PrunedAttempts, new, {})

\* Inside its window, the record of key counts every verification that is
\* started and nothing else, and keeps its deadline
KeepsCount(key) ==
    attempts[key] # None /\ clock < attempts[key].expires =>
       \/ attempts'[key] = [attempts[key] EXCEPT !.count = @ + Cardinality(StartsAt(key))]
       \/ attempts'[key] = None /\ EndsVerified(key)
       \/ MakesRoom(key)
       \/ mode' = "down"

\* A verification is started inside a window only, with an attempt left
WithinLimit(h) ==
    finish[h] = None /\ finish'[h] # None =>
        LET record == attempts[finish'[h].key]
        IN record # None /\ clock < record.expires /\ record.count < maxAttempts

\* Wrong answers are limited: a window has at most maxAttempts verifications.
\* Neither a failed one, a new challenge, a second tab, pruning nor an eviction for
\* another kind of ceremony gives attempts back or moves the deadline; only a right
\* answer, the eviction of a sign-in that is not being verified from a full pool, or
\* the end of the process does (ceremony.go:118-136, 180-183, 228-229, 361-372, 649-724).
AttemptWindowsHold ==
    [][/\ \A key \in CeremonyKeys : KeepsCount(key)
       /\ \A h \in Handlers : WithinLimit(h)]_allVars

\* The pools under ceremonyMu agree with the invitations under the gate, and
\* keep within their bounds (ceremony.go:60-330).
CeremoniesAgree == CeremonyTypeOK /\ PoolsAreBounded /\ TrustCeremoniesHoldReservations

=============================================================================
