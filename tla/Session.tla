------------------------------ MODULE Session ------------------------------
(***************************************************************************)
(* The session of a browser (frontend/src/app/services/session.service.ts) *)
(* as functions on its state: what each method makes of a session.  The    *)
(* requests in flight are part of that state, since the service neither    *)
(* cancels one nor tells whether an answer belongs to the current token.   *)
(* Frontend composes them with the application that calls the service.     *)
(*                                                                         *)
(* The engine is initialized and not in local mode, and its information    *)
(* has been loaded: a bootstrap session is a guest session.                *)
(***************************************************************************)
EXTENDS FiniteSets

CONSTANTS
    Token,   \* session tokens
    Guest,   \* the token of a guest session, issued again after it expires
    None     \* no token, no document, no text

ASSUME SessionAssumption == Guest \in Token /\ None \notin Token

----------------------------------------------------------------------------
\* token, valid, ready and stored as in the service, stored being JWT in
\* localStorage; timer: expirationTimer is running; verifying: the tokens that
\* checkIfTokenIsValid waits for; boot: what bootstrapSessionRequest waits for,
\* the token it verifies, and whether its failure navigates to /authenticate.
NoRequest == [at |-> "none", token |-> None, navigates |-> FALSE]

SessionState ==
    [token : Token \cup {None}, valid : BOOLEAN, ready : BOOLEAN, timer : BOOLEAN,
     stored : Token \cup {None}, verifying : SUBSET Token,
     boot : [at : {"none", "jwt", "verify"}, token : Token \cup {None}, navigates : BOOLEAN]]

\* The service as it is constructed, before it has looked at the stored token.
NewSession(stored) ==
    [token |-> None, valid |-> FALSE, ready |-> FALSE, timer |-> FALSE, stored |-> stored,
     verifying |-> {}, boot |-> NoRequest]

hasToken(s) == s.token # None

\* No answer is awaited.
Quiet(s) == s.verifying = {} /\ s.boot.at = "none"

\* A faulty destruction, which leaves the session valid.
DestroyedTokenOnly(s) ==
    [s EXCEPT !.ready = TRUE, !.token = None, !.timer = FALSE, !.stored = None]

\* destroySessionAndRemoveTokenFromLocalStorage: requests in flight stay.
Destroyed(s) ==
    [s EXCEPT !.ready = TRUE, !.valid = FALSE, !.token = None, !.timer = FALSE, !.stored = None]

\* ensureBootstrapSessionIfNeeded: a valid session needs none, and a request in
\* flight is shared.
EnsureBootstrap(s) ==
    IF s.valid \/ s.boot.at # "none" THEN s
    ELSE [s EXCEPT !.ready = FALSE, !.boot = [NoRequest EXCEPT !.at = "jwt"]]

\* checkIfTokenIsExpired.
ExpirationChecked(s, expired) ==
    IF s.token \in expired
    THEN [EnsureBootstrap(Destroyed(s)) EXCEPT !.boot.navigates = TRUE]
    ELSE [s EXCEPT !.ready = TRUE]

\* applyTokenState, with scheduleExpirationCheck.
Applied(s, token, expired) ==
    LET loaded == [s EXCEPT !.token = token, !.timer = token \notin expired]
    IN  IF token \in expired THEN ExpirationChecked(loaded, expired) ELSE loaded

\* checkIfTokenIsValid.
ValidityChecked(s) ==
    IF hasToken(s) THEN [s EXCEPT !.ready = FALSE, !.verifying = @ \cup {s.token}]
    ELSE EnsureBootstrap([s EXCEPT !.ready = FALSE])

\* The constructor and the microtask it queues.
Started(stored, expired) ==
    ValidityChecked(IF stored = None THEN NewSession(stored)
                    ELSE Applied(NewSession(stored), stored, expired))

\* setNewTokenAndCheckIfIsValid, for the token of a login.
LoggedIn(s, token, expired) ==
    ValidityChecked([Applied(s, token, expired) EXCEPT !.stored = token])

----------------------------------------------------------------------------
(* The answers to the requests of the service.                             *)

\* The verification started by checkIfTokenIsValid, whatever the token is now.
VerifySucceeded(s, token) ==
    [s EXCEPT !.verifying = @ \ {token}, !.valid = TRUE, !.ready = TRUE]

VerifyFailed(s, token) ==
    EnsureBootstrap(Destroyed([s EXCEPT !.verifying = @ \ {token}]))

\* The bootstrap request has got its token and goes on to verify it.
BootTokenArrived(s) ==
    [Applied(s, Guest, {}) EXCEPT !.stored = Guest,
                                  !.boot.at = "verify", !.boot.token = Guest]

BootSucceeded(s) == [s EXCEPT !.valid = TRUE, !.ready = TRUE, !.boot = NoRequest]

BootFailed(s) == [Destroyed(s) EXCEPT !.boot = NoRequest]

\* The timer of the expiration check.
TimerFired(s, expired) == ExpirationChecked([s EXCEPT !.timer = FALSE], expired)

============================================================================
