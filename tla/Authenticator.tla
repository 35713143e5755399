---------------------------- MODULE Authenticator ----------------------------
(***************************************************************************)
(* security/auth/identity.go: the challenge-response authenticator and its *)
(* table of sessions.  One Authenticator is shared by all the connections  *)
(* of a server; every method holds a.mu throughout, so each is one step.   *)
(*                                                                         *)
(* rand.Read yields values nobody has seen before, so a nonce is named by  *)
(* its place in the order of drawing and a session token likewise.  The    *)
(* response HMAC-SHA256(sharedSecret, nonce) is named by the nonce it      *)
(* authenticates; BadMac stands for every other string of bytes.           *)
(***************************************************************************)
EXTENDS Integers, Sequences

CONSTANTS
    Known,          \* the keys of knownServices
    Unknown,        \* a service id that is not a key of knownServices
    TTLs,           \* the durations SetSessionTTL may be given
    DefaultTTL,     \* the duration set by NewAuthenticator
    RandMayFail,    \* whether rand.Read can return an error
    MaxChallenges,  \* bound on the number of challenges drawn
    MaxSessions,    \* bound on the number of tokens drawn
    MaxTime         \* bound on the clock

ASSUME AuthAssumption ==
    /\ Unknown \notin Known
    /\ TTLs \subseteq Nat
    /\ DefaultTTL \in TTLs
    /\ RandMayFail \in BOOLEAN
    /\ MaxChallenges \in Nat
    /\ MaxSessions \in Nat
    /\ MaxTime \in Nat

VARIABLES
    pendingChallenges,  \* service -> nonce of its pending challenge, or NoNonce
    activeSessions,     \* the keys of a.activeSessions
    sessionTTL,         \* a.sessionTTL
    now,                \* the wall clock
    challenges,         \* history: challenges[n] is the service nonce n was drawn for
    grants,             \* grants[t] is the PeerIdentity created with token t
                        \* and, as history, the nonce that earned it
    tried               \* history: how often a response was compared with nonce n

authVars == <<pendingChallenges, activeSessions, sessionTTL, now,
              challenges, grants, tried>>

NoNonce == 0
BadMac == -1
Nonces == 1 .. MaxChallenges
Tokens == 1 .. MaxSessions
Responses == Nonces \cup {BadMac}

PeerIdentity == [service : Known, created : Nat, ttl : Nat,
                 nonce : Nonces \cup {NoNonce}]

AuthTypeOK ==
    /\ pendingChallenges \in [Known -> Nonces \cup {NoNonce}]
    /\ activeSessions \subseteq DOMAIN grants
    /\ sessionTTL \in TTLs
    /\ now \in Nat
    /\ challenges \in Seq(Known) /\ Len(challenges) <= MaxChallenges
    /\ grants \in Seq(PeerIdentity)
    /\ tried \in [Nonces -> Nat]

NewAuthenticator ==
    /\ pendingChallenges = [s \in Known |-> NoNonce]
    /\ activeSessions = {}
    /\ sessionTTL = DefaultTTL

AuthInit ==
    /\ NewAuthenticator
    /\ now = 0
    /\ challenges = <<>>
    /\ grants = <<>>
    /\ tried = [n \in Nonces |-> 0]
-----------------------------------------------------------------------------
(* Mutations of the definitions below, one per property. *)
Consume_on_success(s, r) ==
    /\ pendingChallenges' = IF r = pendingChallenges[s]
                            THEN [pendingChallenges EXCEPT ![s] = NoNonce]
                            ELSE pendingChallenges
    /\ tried' = [tried EXCEPT ![pendingChallenges[s]] = @ + 1]

Answers_any_issued(s, r) == r \in DOMAIN challenges

StoreChallenge_keeps_first(s, n) ==
    pendingChallenges' = [pendingChallenges EXCEPT
                            ![s] = IF @ = NoNonce THEN n ELSE @]

IsExpired_by_current_ttl(t) ==
    /\ sessionTTL > 0
    /\ now - grants[t].created > sessionTTL
-----------------------------------------------------------------------------
(* p.IsExpired *)
IsExpired(t) ==
    /\ grants[t].ttl > 0
    /\ now - grants[t].created > grants[t].ttl

SetSessionTTL(ttl) ==
    /\ sessionTTL' = ttl
    /\ UNCHANGED <<pendingChallenges, activeSessions, now, challenges, grants, tried>>

(* The assignment at the end of CreateChallenge: a challenge already       *)
(* pending for the service is overwritten.                                 *)
StoreChallenge(s, n) ==
    pendingChallenges' = [pendingChallenges EXCEPT ![s] = n]

(* CreateChallenge for a known service returns the nonce n. *)
CreateChallenge(s, n) ==
    /\ s \in Known
    /\ Len(challenges) < MaxChallenges
    /\ n = Len(challenges) + 1
    /\ challenges' = Append(challenges, s)
    /\ StoreChallenge(s, n)
    /\ UNCHANGED <<activeSessions, sessionTTL, now, grants, tried>>

(* CreateChallenge returns an error and changes nothing. *)
CreateChallengeFails(s) ==
    /\ s \notin Known \/ RandMayFail
    /\ UNCHANGED authVars

(* The pending challenge is deleted before the response is compared. *)
Consume(s, r) ==
    /\ pendingChallenges' = [pendingChallenges EXCEPT ![s] = NoNonce]
    /\ tried' = [tried EXCEPT ![pendingChallenges[s]] = @ + 1]

Answers(s, r) == r = pendingChallenges[s]

HasPending(s) == IF s \in Known THEN pendingChallenges[s] # NoNonce ELSE FALSE

(* generateToken succeeds and the new identity enters the table. *)
NewSession(s, nonce) ==
    /\ Len(grants) < MaxSessions
    /\ grants' = Append(grants, [service |-> s, created |-> now,
                                 ttl |-> sessionTTL, nonce |-> nonce])
    /\ activeSessions' = activeSessions \cup {Len(grants) + 1}

(* VerifyResponse returns an identity. *)
VerifyResponse(s, r) ==
    /\ HasPending(s)
    /\ Answers(s, r)
    /\ Consume(s, r)
    /\ NewSession(s, pendingChallenges[s])
    /\ UNCHANGED <<sessionTTL, now, challenges>>

(* VerifyResponse returns an error: no challenge is pending, or the        *)
(* response is wrong, or there is no randomness for a token.  In the last  *)
(* two cases the challenge is gone.                                        *)
VerifyResponseFails(s, r) ==
    \/ /\ ~HasPending(s)
       /\ UNCHANGED authVars
    \/ /\ HasPending(s)
       /\ ~Answers(s, r) \/ RandMayFail
       /\ Consume(s, r)
       /\ UNCHANGED <<activeSessions, sessionTTL, now, challenges, grants>>

(* Authenticate, the legacy path without a challenge. *)
Authenticate(s) ==
    /\ s \in Known
    /\ NewSession(s, NoNonce)
    /\ UNCHANGED <<pendingChallenges, sessionTTL, now, challenges, tried>>

(* ValidateSession reads only: does it return the identity? *)
ValidateSession(t) == t \in activeSessions /\ ~IsExpired(t)

RevokeSession(t) ==
    /\ activeSessions' = activeSessions \ {t}
    /\ UNCHANGED <<pendingChallenges, sessionTTL, now, challenges, grants, tried>>

CleanupExpired ==
    /\ activeSessions' = {t \in activeSessions : ~IsExpired(t)}
    /\ UNCHANGED <<pendingChallenges, sessionTTL, now, challenges, grants, tried>>

(* The clock is not the authenticator's: time passes around it. *)
Tick ==
    /\ now < MaxTime
    /\ now' = now + 1
    /\ UNCHANGED <<pendingChallenges, activeSessions, sessionTTL,
                   challenges, grants, tried>>

AuthNext ==
    \/ \E ttl \in TTLs : SetSessionTTL(ttl)
    \/ \E s \in Known \cup {Unknown} :
        \/ \E n \in Nonces : CreateChallenge(s, n)
        \/ CreateChallengeFails(s)
        \/ \E r \in Responses : VerifyResponse(s, r) \/ VerifyResponseFails(s, r)
        \/ Authenticate(s)
    \/ \E t \in Tokens : RevokeSession(t)
    \/ CleanupExpired
    \/ Tick

AuthSpec == AuthInit /\ [][AuthNext]_authVars

(* The server's cleanup goroutine runs for ever on a ticker, and time goes *)
(* on; nothing obliges a peer to do anything.                              *)
AuthFairSpec == AuthSpec /\ WF_authVars(Tick) /\ WF_authVars(CleanupExpired)
-----------------------------------------------------------------------------
(* A nonce is compared with at most one response, right or wrong: a second *)
(* guess at the same challenge is impossible.                              *)
NonceTriedOnce == \A n \in Nonces : tried[n] <= 1

(* A session that was earned by a response was earned with a nonce drawn   *)
(* for that very service, and no nonce ever earns two sessions.            *)
GrantMatchesChallenge ==
    \A t \in DOMAIN grants : grants[t].nonce # NoNonce =>
        /\ grants[t].nonce \in DOMAIN challenges
        /\ challenges[grants[t].nonce] = grants[t].service
        /\ \A u \in DOMAIN grants : grants[u].nonce = grants[t].nonce => u = t

(* A pending challenge is the last one drawn for its service: once a newer *)
(* handshake has started, the older nonce can earn nothing any more.       *)
PendingIsNewest ==
    \A s \in Known : pendingChallenges[s] # NoNonce =>
        \A n \in DOMAIN challenges :
            challenges[n] = s => n <= pendingChallenges[s]

(* A session leaves the table only by RevokeSession or because the TTL it  *)
(* was created with has passed: SetSessionTTL is for new sessions.         *)
OnlyRevokedOrOverdueRemoved ==
    [][\A t \in activeSessions \ activeSessions' :
         \/ RevokeSession(t)
         \/ grants[t].ttl > 0 /\ now > grants[t].created + grants[t].ttl]_authVars

(* Every session with a positive TTL is eventually dropped from the table, *)
(* although no connection ever revokes one (sessions the bounded clock     *)
(* cannot outlive are left out).                                           *)
ExpiredEventuallyDropped ==
    \A t \in Tokens :
        (/\ t \in activeSessions
         /\ grants[t].ttl > 0
         /\ grants[t].created + grants[t].ttl < MaxTime)
        ~> (t \notin activeSessions)
=============================================================================
