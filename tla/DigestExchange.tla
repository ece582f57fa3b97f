--------------------------- MODULE DigestExchange ---------------------------
(***************************************************************************)
(* One RPC exchange of internal/shelly/client.go while its call holds the  *)
(* device slot: the retry loops of doUnauthenticatedGET and                *)
(* doAuthenticatedGETLocked, and the digest session (digest.go) they keep  *)
(* next to the gate from one exchange to the next.  The device answers     *)
(* arbitrarily.                                                            *)
(***************************************************************************)
EXTENDS Naturals

CONSTANTS MaxAuthAttempts, \* maxAuthenticationAttempts
          MaxNonceUses,   \* maxDigestNonceCount
          MaxNonces,      \* bound on the challenges the device issues
          NoSession

Session == [nonce : Nat, uses : Nat, auth : BOOLEAN, old : BOOLEAN, aged : BOOLEAN]

ASSUME DigestAssumption ==
  /\ MaxAuthAttempts \in Nat /\ MaxAuthAttempts >= 4
  /\ MaxNonceUses \in Nat /\ MaxNonceUses >= 2
  /\ MaxNonces \in Nat
  /\ NoSession \notin Session

VARIABLES
  session,       \* nonce (with the cnonce drawn for it) and use count;
                 \* auth: qop=auth, the header carries the count; old: from an
                 \* earlier exchange; aged: digestSessionMaxAge has passed
  phase,         \* "idle", "top" of the loop, "sent", "throttled" wait
  authAttempt, authFailures, throttleRetried,
  authorized,    \* the request in flight carries an Authorization header
  hasPassword,   \* the tool has credentials: the authenticated loop runs
  result,        \* how the last exchange ended
  issued,        \* number of nonces the device issued (a nonce is a number)
  lastSent       \* nonce, nonce count and qop of the last Authorization header

digestVars == <<session, phase, authAttempt, authFailures, throttleRetried,
                authorized, hasPassword, result, issued, lastSent>>
loop == <<authAttempt, authFailures, throttleRetried, hasPassword>>

Results == {"none", "answered", "unauthorized", "throttled", "error",
            "limitExceeded"}

DigestInit ==
  /\ session = NoSession
  /\ phase = "idle"
  /\ authAttempt = 0 /\ authFailures = 0 /\ throttleRetried = FALSE
  /\ authorized = FALSE /\ hasPassword = FALSE
  /\ result = "none"
  /\ issued = 0
  /\ lastSent = [nonce |-> 0, uses |-> 0, auth |-> FALSE]

Expired(s) == s.aged \/ s.uses >= MaxNonceUses

\* The attempts the loop in use allows.
Limit == IF hasPassword THEN MaxAuthAttempts ELSE 2

End(r) == phase' = "idle" /\ result' = r

-----------------------------------------------------------------------------
BeginExchange(withPassword) ==
  /\ phase = "idle"
  /\ phase' = "top"
  /\ authAttempt' = 0 /\ authFailures' = 0 /\ throttleRetried' = FALSE
  /\ authorized' = FALSE
  /\ hasPassword' = withPassword
  /\ session' = IF session = NoSession THEN NoSession
                ELSE [session EXCEPT !.old = TRUE]
  /\ result' = "none"
  /\ UNCHANGED <<issued, lastSent>>

\* Time passes.  An exchange is far shorter than digestSessionMaxAge, so only
\* a session an earlier exchange created can age.
SessionAges ==
  /\ session # NoSession
  /\ session.old \/ phase = "idle"
  /\ ~session.aged
  /\ session' = [session EXCEPT !.aged = TRUE]
  /\ UNCHANGED <<phase, loop, authorized, result, issued, lastSent>>

\* The session of this round: an expired one is dropped first.
Usable == IF session # NoSession /\ Expired(session) THEN NoSession ELSE session

SendPlain ==
  /\ session' = IF hasPassword THEN NoSession ELSE session
  /\ authorized' = FALSE
  /\ phase' = "sent"
  /\ UNCHANGED <<result, lastSent>>

\* Mutant: the nonce count of the session stays what it was.
SendAuthorizedUncounted ==
  /\ lastSent' = [nonce |-> session.nonce, uses |-> session.uses + 1,
                  auth |-> session.auth]
  /\ authorized' = TRUE
  /\ phase' = "sent"
  /\ UNCHANGED <<session, result>>

SendAuthorized ==
  /\ session' = [session EXCEPT !.uses = @ + 1]
  /\ lastSent' = [nonce |-> session.nonce, uses |-> session.uses + 1,
                  auth |-> session.auth]
  /\ authorized' = TRUE
  /\ phase' = "sent"
  /\ UNCHANGED result

\* The loop is left by its limit.
LoopEnds ==
  /\ End("limitExceeded")
  /\ UNCHANGED <<session, authorized, lastSent>>

\* The head of the loop, up to the request that leaves.  The refusal of
\* nextAuthorizationHeader (digest.go:90) tests again what expired has just
\* tested in the same goroutine: no step is needed for it.
LoopTop ==
  /\ phase = "top"
  /\ IF authAttempt >= Limit THEN LoopEnds
     ELSE IF ~hasPassword \/ Usable = NoSession THEN SendPlain
     ELSE SendAuthorized
  /\ UNCHANGED <<loop, issued>>

\* The second rejected Authorization header ends the exchange.
Final(failures) == failures > 1

\* 401 with a challenge: the counted failures of authorized requests end the
\* exchange at the second one.  Without a password a 401 is an answer.
Unauthorized(challenge) ==
  /\ phase = "sent"
  /\ IF ~hasPassword
     THEN /\ End("unauthorized")
          /\ UNCHANGED <<session, authAttempt, authFailures, issued>>
     ELSE /\ authFailures' = IF authorized THEN authFailures + 1 ELSE authFailures
          /\ \/ /\ Final(authFailures')
                /\ session' = NoSession
                /\ End("unauthorized")
                /\ UNCHANGED <<authAttempt, issued>>
             \/ /\ ~Final(authFailures')
                /\ challenge = "unusable"    \* missing or unsupported
                /\ session' = NoSession
                /\ End("error")
                /\ UNCHANGED <<authAttempt, issued>>
             \/ /\ ~Final(authFailures')
                /\ challenge # "unusable"
                /\ issued < MaxNonces
                /\ issued' = issued + 1
                /\ session' = [nonce |-> issued + 1, uses |-> 0,
                               auth |-> challenge = "auth",
                               old |-> FALSE, aged |-> FALSE]
                /\ authAttempt' = authAttempt + 1
                /\ phase' = "top"
                /\ UNCHANGED result
  /\ UNCHANGED <<throttleRetried, authorized, hasPassword, lastSent>>

\* 429: wait once and retry; the second one is returned to the caller.
TooManyRequests ==
  /\ phase = "sent"
  /\ IF throttleRetried
     THEN End("throttled")
     ELSE phase' = "throttled" /\ UNCHANGED result
  /\ UNCHANGED <<session, loop, authorized, issued, lastSent>>

\* Mutant: the wait is not remembered, so every 429 is waited for again.
ThrottleWaitForgotten ==
  /\ phase = "throttled"
  /\ authAttempt' = authAttempt + 1
  /\ phase' = "top"
  /\ UNCHANGED <<session, authFailures, throttleRetried, authorized, hasPassword,
                 result, issued, lastSent>>

ThrottleWaitOver ==
  /\ phase = "throttled"
  /\ throttleRetried' = TRUE
  /\ authAttempt' = authAttempt + 1
  /\ phase' = "top"
  /\ UNCHANGED <<session, authFailures, authorized, hasPassword, result, issued,
                 lastSent>>

\* The request fails or its context ends, in the exchange or in the wait.
ExchangeFails ==
  /\ phase \in {"sent", "throttled"}
  /\ End("error")
  /\ UNCHANGED <<session, loop, authorized, issued, lastSent>>

\* Any other status goes back to the caller with the session kept.
Answer ==
  /\ phase = "sent"
  /\ End("answered")
  /\ UNCHANGED <<session, loop, authorized, issued, lastSent>>

DigestNext ==
  \/ \E p \in BOOLEAN : BeginExchange(p)
  \/ SessionAges
  \/ LoopTop
  \/ \E challenge \in {"auth", "legacy", "unusable"} : Unauthorized(challenge)
  \/ TooManyRequests \/ ThrottleWaitOver
  \/ ExchangeFails \/ Answer

DigestSpec == DigestInit /\ [][DigestNext]_digestVars

-----------------------------------------------------------------------------
DigestTypeOK ==
  /\ session \in Session \cup {NoSession}
  /\ phase \in {"idle", "top", "sent", "throttled"}
  /\ authAttempt \in Nat /\ authFailures \in 0..2
  /\ throttleRetried \in BOOLEAN /\ authorized \in BOOLEAN /\ hasPassword \in BOOLEAN
  /\ result \in Results
  /\ issued \in 0..MaxNonces
  /\ lastSent \in [nonce : Nat, uses : Nat, auth : BOOLEAN]

\* 401 and 429 spend attempts of one counter.  However the device mixes them,
\* with a session of an earlier exchange or without, an exchange sends at most
\* four requests (the attempts 0 to 3): a fetched challenge, one rejected header
\* and one wait are all that can lie behind a request.  So the loops are left by
\* a return, and the status that sends a device to recovery (a second 429) is
\* never replaced by the error "retry limit exceeded" of lines 586 and 678.
AtMostFourSends == authAttempt <= 3 /\ result # "limitExceeded"

\* No two Authorization headers with qop=auth carry the same nonce and count,
\* through retries, failures, replaced sessions and exchanges given up half way.
\* (Without qop the header has no count, and each one repeats the last.)
NoReplayedHeader ==
  [][ phase = "top" /\ phase' = "sent" /\ authorized' /\ lastSent'.auth =>
        \/ lastSent'.nonce > lastSent.nonce
        \/ lastSent'.nonce = lastSent.nonce /\ lastSent'.uses > lastSent.uses ]_digestVars
=============================================================================
