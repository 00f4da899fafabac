-------------------------- MODULE FrontendProofs ---------------------------
(***************************************************************************)
(* Proofs about the application in a browser with its session, for any     *)
(* documents, tokens' authorizations and bounds.                           *)
(*                                                                         *)
(* The handlers are functions on x = [s |-> session, a |-> app], as router *)
(* and session call back into the application.  The proof first says what  *)
(* each function makes of any such x (the lemmas named Effect), from the   *)
(* session outwards, then what navigation and viewing leave of the         *)
(* invariants (Keeps), and then shows one lemma per action (Step).         *)
(***************************************************************************)
EXTENDS Frontend, FiniteSetTheorems, TLAPS

----------------------------------------------------------------------------
(* The inductive invariants.  Those of the session and the application are *)
(* predicates on x = [s |-> session, a |-> app], like the handlers.        *)

\* Tokens that may not write.
Humble(token) == token \in {None, Guest}

\* Types, and what dialogs, writes and navigations hold.
TypeInv ==
    /\ TypeOK
    /\ app.uploads <= sent.edits
    /\ app.dialog.kind = "delete" => app.dialog.path \in Page
    /\ app.nav.to = None => app.nav = NoNavigation
    /\ \A w \in writes : w.kind = "move" => w.to \in Document

\* The dialogs that a write closes, and those that lead to one without looking again,
\* are not open while a write is in flight.
SavingInv ==
    /\ app.saving <=> writes # {}
    /\ \A v, w \in writes : v = w
    /\ app.dialog.kind \in {"delete", "image", "versions"} => ~app.saving

\* Only a token that may not write is on its way to a document or at the login.
TokenInv(x) ==
    /\ x.s.ready /\ ~x.s.valid => Humble(x.s.token)
    /\ x.a.nav.to # None => Humble(x.s.token)
    /\ x.s.boot.at = "verify" => x.s.boot.token = Guest
    /\ x.a.page = "/authenticate" => Humble(x.s.token)

Viewed(x) == Humble(x.a.shown) /\ x.a.mode = "view"

ViewInv(x) ==
    /\ x.a.page = "/authenticate" => Viewed(x)
    /\ x.a.uploads > 0 => x.a.mode = "edit" /\ x.a.page \in Document

\* A login is in flight, and no other one has been sent before its answer.
LoneLogin == login > 0 /\ ~overlap

LoginInv ==
    LoneLogin => login = 1 /\ Humble(session.token) /\ Viewed(x0) /\ app.dialog = NoDialog

\* Whose text is shown and edited.
TextInv(x) ==
    /\ x.a.doc.of \in {None, x.a.page}
    /\ x.a.mode = "edit" => x.a.raw.of = x.a.page

\* The dialog with a text behind it.
DialogInv ==
    app.dialog.kind = "image" =>
        \/ crossed
        \/ /\ app.page # "/wait"
           /\ ~Humble(session.token) => app.raw.of = app.page

\* What the session is while it has not been disturbed.
SessionInv(x) ==
    /\ Quiet(x.s) =>
          /\ x.s.ready
          /\ x.s.valid <=> hasToken(x.s)
          /\ x.a.shown = x.s.token
    /\ x.s.verifying # {} =>
          /\ x.s.boot.at = "none" /\ x.s.verifying = {x.s.token} /\ x.s.token # None
          /\ ~x.s.valid /\ ~x.s.ready /\ x.a.shown = None
    /\ x.s.boot.at # "none" =>
          /\ x.s.verifying = {} /\ ~x.s.valid /\ ~x.s.ready
          /\ x.a.shown = None \/ (x.s.boot.navigates /\ x.a.page # "/authenticate")
          /\ x.s.boot.at = "jwt" => x.s.token = None
    /\ x.a.page = "/authenticate" =>
          /\ x.s.token = None \/ x.s.boot.at = "verify"
          /\ x.s.boot.at # "none" => x.a.nav.to # None

----------------------------------------------------------------------------
(* What the methods of the session make of a session.                      *)

Boot == [at : {"none", "jwt", "verify"}, token : Token \cup {None}, navigates : BOOLEAN]

LEMMA DestroyedEffect ==
    ASSUME NEW s \in SessionState
    PROVE  /\ Destroyed(s) \in SessionState
           /\ Destroyed(s).ready = TRUE /\ Destroyed(s).valid = FALSE
           /\ Destroyed(s).token = None
           /\ Destroyed(s).verifying = s.verifying /\ Destroyed(s).boot = s.boot
  BY DEF Destroyed, SessionState

\* Nothing changes where a bootstrap is under way or not needed.
LEMMA EnsureBootstrapEffect ==
    ASSUME NEW s \in SessionState
    PROVE  /\ EnsureBootstrap(s) \in SessionState
           /\ EnsureBootstrap(s).token = s.token /\ EnsureBootstrap(s).valid = s.valid
           /\ EnsureBootstrap(s).verifying = s.verifying
           /\ s.valid \/ s.boot.at # "none" =>
                 EnsureBootstrap(s).ready = s.ready /\ EnsureBootstrap(s).boot = s.boot
           /\ ~(s.valid \/ s.boot.at # "none") =>
                 /\ EnsureBootstrap(s).ready = FALSE
                 /\ EnsureBootstrap(s).boot.at = "jwt"
                 /\ EnsureBootstrap(s).boot.navigates = FALSE
<1> DEFINE boot == [NoRequest EXCEPT !.at = "jwt"]
<1>1. boot \in Boot /\ boot.at = "jwt" /\ boot.navigates = FALSE
  BY DEF NoRequest, Boot
<1>2. EnsureBootstrap(s) = IF s.valid \/ s.boot.at # "none" THEN s
                           ELSE [s EXCEPT !.ready = FALSE, !.boot = boot]
  BY DEF EnsureBootstrap
<1> HIDE DEF boot
<1> QED
  BY <1>1, <1>2 DEF SessionState, Boot

\* A token that has expired is given up for a bootstrap, whose failure navigates.
LEMMA ExpirationCheckedEffect ==
    ASSUME NEW s \in SessionState, s.token \in expired
    PROVE  LET y == ExpirationChecked(s, expired)
           IN  /\ y \in SessionState
               /\ y.token = None /\ y.valid = FALSE /\ y.verifying = s.verifying
               /\ y.boot.navigates = TRUE /\ y.boot.token \in {s.boot.token, None}
               /\ y.boot.at # "none"
               /\ s.boot.at # "none" => y.boot.at = s.boot.at /\ y.boot.token = s.boot.token
               /\ s.boot.at = "none" => y.boot.at = "jwt" /\ y.ready = FALSE
<1> DEFINE d == Destroyed(s)
           e == EnsureBootstrap(d)
<1>1. d \in SessionState /\ d.valid = FALSE /\ d.token = None
      /\ d.verifying = s.verifying /\ d.boot = s.boot
  BY DestroyedEffect
<1> HIDE DEF d
<1>2. /\ e \in SessionState /\ e.token = None /\ e.valid = FALSE /\ e.verifying = s.verifying
      /\ s.boot.at # "none" => e.boot = s.boot
      /\ s.boot.at = "none" => e.ready = FALSE /\ e.boot.at = "jwt"
  BY <1>1, EnsureBootstrapEffect
<1>3. s.boot.at = "none" => e.boot.token = None
  BY <1>1 DEF e, EnsureBootstrap, NoRequest, SessionState
<1>4. ExpirationChecked(s, expired) = [e EXCEPT !.boot.navigates = TRUE]
  BY DEF ExpirationChecked, d
<1> HIDE DEF e
<1> DEFINE y == [e EXCEPT !.boot.navigates = TRUE]
<1>5. /\ y \in SessionState
      /\ y.token = e.token /\ y.valid = e.valid /\ y.ready = e.ready
      /\ y.verifying = e.verifying
      /\ y.boot.at = e.boot.at /\ y.boot.token = e.boot.token /\ y.boot.navigates = TRUE
  BY <1>2 DEF SessionState
<1> HIDE DEF y
<1>6. ExpirationChecked(s, expired) = y
  BY <1>4 DEF y
<1> QED
  BY <1>2, <1>3, <1>5, <1>6

\* The token of a login, or the stored one.
LEMMA LoggedInEffect ==
    ASSUME NEW s \in SessionState, NEW token \in Token, token \notin expired
    PROVE  LET y == LoggedIn(s, token, expired)
           IN  /\ y \in SessionState
               /\ y.token = token /\ y.valid = s.valid /\ y.ready = FALSE
               /\ y.verifying = s.verifying \cup {token} /\ y.boot = s.boot
<1> DEFINE l == [s EXCEPT !.token = token, !.timer = token \notin expired]
           a == [l EXCEPT !.stored = token]
<1>1. Applied(s, token, expired) = l
  BY DEF Applied
<1>2. /\ l \in SessionState
      /\ l.token = token /\ l.valid = s.valid /\ l.ready = s.ready
      /\ l.verifying = s.verifying /\ l.boot = s.boot
  BY DEF SessionState
<1> HIDE DEF l
<1>3. /\ a \in SessionState
      /\ a.token = token /\ a.valid = s.valid /\ a.ready = s.ready
      /\ a.verifying = s.verifying /\ a.boot = s.boot
  BY <1>2 DEF SessionState
<1>4. LoggedIn(s, token, expired) = ValidityChecked(a)
  BY <1>1 DEF LoggedIn
<1> HIDE DEF a
<1> DEFINE y == [a EXCEPT !.ready = FALSE, !.verifying = @ \cup {token}]
<1>5. ValidityChecked(a) = y
  BY <1>3, SessionAssumption DEF ValidityChecked, hasToken
<1>6. /\ y \in SessionState
      /\ y.token = a.token /\ y.valid = a.valid /\ y.ready = FALSE
      /\ y.verifying = a.verifying \cup {token} /\ y.boot = a.boot
  BY <1>3 DEF SessionState
<1> HIDE DEF y
<1> QED
  BY <1>3, <1>4, <1>5, <1>6

LEMMA VerifySucceededEffect ==
    ASSUME NEW s \in SessionState, NEW token
    PROVE  /\ VerifySucceeded(s, token) \in SessionState
           /\ VerifySucceeded(s, token).token = s.token
           /\ VerifySucceeded(s, token).valid = TRUE /\ VerifySucceeded(s, token).ready = TRUE
           /\ VerifySucceeded(s, token).verifying = s.verifying \ {token}
           /\ VerifySucceeded(s, token).boot = s.boot
  BY DEF VerifySucceeded, SessionState

LEMMA VerifyFailedEffect ==
    ASSUME NEW s \in SessionState, NEW token
    PROVE  LET y == VerifyFailed(s, token)
           IN  /\ y \in SessionState
               /\ y.token = None /\ y.valid = FALSE /\ y.verifying = s.verifying \ {token}
               /\ s.boot.at # "none" => y.boot = s.boot
               /\ s.boot.at = "none" =>
                     y.boot.at = "jwt" /\ y.boot.navigates = FALSE /\ y.ready = FALSE
<1> DEFINE v == [s EXCEPT !.verifying = @ \ {token}]
           d == Destroyed(v)
<1>1. v \in SessionState /\ v.verifying = s.verifying \ {token} /\ v.boot = s.boot
  BY DEF SessionState
<1>2. VerifyFailed(s, token) = EnsureBootstrap(d)
  BY DEF VerifyFailed
<1> HIDE DEF v
<1>3. d \in SessionState /\ d.valid = FALSE /\ d.token = None
      /\ d.verifying = s.verifying \ {token} /\ d.boot = s.boot
  BY <1>1, DestroyedEffect
<1> HIDE DEF d
<1> QED
  BY <1>2, <1>3, EnsureBootstrapEffect

LEMMA BootTokenArrivedEffect ==
    ASSUME NEW s \in SessionState
    PROVE  LET y == BootTokenArrived(s)
           IN  /\ y \in SessionState
               /\ y.token = Guest /\ y.valid = s.valid /\ y.ready = s.ready
               /\ y.verifying = s.verifying
               /\ y.boot.at = "verify" /\ y.boot.token = Guest
               /\ y.boot.navigates = s.boot.navigates
<1> DEFINE l == [s EXCEPT !.token = Guest, !.timer = Guest \notin {}]
<1>1. Applied(s, Guest, {}) = l
  BY DEF Applied
<1>2. /\ l \in SessionState
      /\ l.token = Guest /\ l.valid = s.valid /\ l.ready = s.ready
      /\ l.verifying = s.verifying /\ l.boot = s.boot
  BY SessionAssumption DEF SessionState
<1>3. BootTokenArrived(s) = [l EXCEPT !.stored = Guest, !.boot.at = "verify", !.boot.token = Guest]
  BY <1>1 DEF BootTokenArrived
<1> HIDE DEF l
<1> DEFINE y == [l EXCEPT !.stored = Guest, !.boot.at = "verify", !.boot.token = Guest]
<1>4. /\ y \in SessionState
      /\ y.token = l.token /\ y.valid = l.valid /\ y.ready = l.ready
      /\ y.verifying = l.verifying
      /\ y.boot.at = "verify" /\ y.boot.token = Guest
      /\ y.boot.navigates = l.boot.navigates
  BY <1>2, SessionAssumption DEF SessionState
<1> HIDE DEF y
<1>5. BootTokenArrived(s) = y
  BY <1>3 DEF y
<1> QED
  BY <1>2, <1>4, <1>5

LEMMA BootEndedEffect ==
    ASSUME NEW s \in SessionState
    PROVE  /\ BootSucceeded(s) \in SessionState
           /\ BootSucceeded(s).token = s.token
           /\ BootSucceeded(s).valid = TRUE /\ BootSucceeded(s).ready = TRUE
           /\ BootSucceeded(s).verifying = s.verifying /\ BootSucceeded(s).boot.at = "none"
           /\ BootFailed(s) \in SessionState
           /\ BootFailed(s).token = None
           /\ BootFailed(s).valid = FALSE /\ BootFailed(s).ready = TRUE
           /\ BootFailed(s).verifying = s.verifying /\ BootFailed(s).boot.at = "none"
<1>1. NoRequest \in Boot /\ NoRequest.at = "none"
  BY DEF NoRequest, Boot
<1>2. /\ BootSucceeded(s) \in SessionState
      /\ BootSucceeded(s).token = s.token
      /\ BootSucceeded(s).valid = TRUE /\ BootSucceeded(s).ready = TRUE
      /\ BootSucceeded(s).verifying = s.verifying /\ BootSucceeded(s).boot = NoRequest
  BY <1>1 DEF BootSucceeded, SessionState, Boot
<1> DEFINE d == Destroyed(s)
<1>3. /\ d \in SessionState
      /\ d.ready = TRUE /\ d.valid = FALSE /\ d.token = None
      /\ d.verifying = s.verifying
  BY DestroyedEffect
<1>4. BootFailed(s) = [d EXCEPT !.boot = NoRequest]
  BY DEF BootFailed
<1> HIDE DEF d
<1> QED
  BY <1>1, <1>2, <1>3, <1>4 DEF SessionState, Boot

LEMMA TimerFiredEffect ==
    ASSUME NEW s \in SessionState, s.token \in expired
    PROVE  LET y == TimerFired(s, expired)
           IN  /\ y \in SessionState
               /\ y.token = None /\ y.valid = FALSE /\ y.verifying = s.verifying
               /\ y.boot.navigates = TRUE
               /\ y.boot.at # "none"
               /\ s.boot.at # "none" => y.boot.at = s.boot.at /\ y.boot.token = s.boot.token
               /\ s.boot.at = "none" => y.boot.at = "jwt" /\ y.ready = FALSE
<1> DEFINE t == [s EXCEPT !.timer = FALSE]
<1>1. t \in SessionState /\ t.token = s.token /\ t.verifying = s.verifying /\ t.boot = s.boot
  BY DEF SessionState
<1>2. TimerFired(s, expired) = ExpirationChecked(t, expired)
  BY DEF TimerFired
<1> HIDE DEF t
<1>3. ExpirationChecked(t, expired) \in SessionState
  BY <1>1, ExpirationCheckedEffect
<1> QED
  BY <1>1, <1>2, ExpirationCheckedEffect

\* The constructor finds no token, one that has expired, or one to verify.
LEMMA StartedEffect ==
    ASSUME NEW stored \in Token \cup {None}, expired \subseteq Token
    PROVE  LET y == Started(stored, expired)
           IN  /\ y \in SessionState
               /\ y.valid = FALSE /\ y.ready = FALSE
               /\ \/ /\ y.token = None /\ y.verifying = {} /\ y.boot.at = "jwt"
                  \/ /\ y.token # None /\ y.verifying = {y.token} /\ y.boot.at = "none"
<1> DEFINE n == NewSession(stored)
<1>1. /\ n \in SessionState /\ n.token = None /\ n.valid = FALSE /\ n.ready = FALSE
      /\ n.verifying = {} /\ n.boot.at = "none"
  BY DEF NewSession, SessionState, NoRequest
<1>2. ASSUME NEW s \in SessionState, s.token = None, s.valid = FALSE, s.verifying = {},
             s.boot.at # "none" => s.boot.at = "jwt"
      PROVE  LET y == ValidityChecked(s)
             IN  /\ y \in SessionState
                 /\ y.valid = FALSE /\ y.ready = FALSE
                 /\ y.token = None /\ y.verifying = {} /\ y.boot.at = "jwt"
  <2> DEFINE r == [s EXCEPT !.ready = FALSE]
  <2>1. /\ r \in SessionState /\ r.token = None /\ r.valid = FALSE /\ r.ready = FALSE
        /\ r.verifying = {} /\ r.boot = s.boot
    BY <1>2 DEF SessionState
  <2>2. ValidityChecked(s) = EnsureBootstrap(r)
    BY <1>2 DEF ValidityChecked, hasToken
  <2> HIDE DEF r
  <2> QED
    BY <1>2, <2>1, <2>2, EnsureBootstrapEffect
<1>3. CASE stored = None
  <2>1. Started(stored, expired) = ValidityChecked(n)
    BY <1>3 DEF Started
  <2> HIDE DEF n
  <2> QED
    BY <1>1, <1>2, <2>1
<1>4. CASE stored # None
  <2> DEFINE l == [n EXCEPT !.token = stored, !.timer = stored \notin expired]
             e == ExpirationChecked(l, expired)
  <2>1. /\ l \in SessionState /\ l.token = stored /\ l.valid = FALSE
        /\ l.verifying = {} /\ l.boot.at = "none"
    <3> HIDE DEF n
    <3> QED
      BY <1>1, <1>4 DEF SessionState
  <2>2. Started(stored, expired)
          = ValidityChecked(IF stored \in expired THEN e ELSE l)
    BY <1>4 DEF Started, Applied
  <2> HIDE DEF n, l
  <2>3. CASE stored \in expired
    <3>1. /\ e \in SessionState /\ e.token = None /\ e.valid = FALSE /\ e.verifying = {}
          /\ e.boot.at = "jwt"
      BY <2>1, <2>3, ExpirationCheckedEffect
    <3>2. Started(stored, expired) = ValidityChecked(e)
      BY <2>2, <2>3
    <3> HIDE DEF e
    <3> QED
      BY <1>2, <3>1, <3>2
  <2>4. CASE stored \notin expired
    <3>1. ValidityChecked(l) = [l EXCEPT !.ready = FALSE, !.verifying = @ \cup {l.token}]
      BY <1>4, <2>1 DEF ValidityChecked, hasToken
    <3>2. Started(stored, expired) = ValidityChecked(l)
      BY <2>2, <2>4
    <3> DEFINE y == [l EXCEPT !.ready = FALSE, !.verifying = @ \cup {l.token}]
    <3>3. /\ y \in SessionState
          /\ y.token = stored /\ y.valid = FALSE /\ y.ready = FALSE
          /\ y.verifying = {stored} /\ y.boot.at = "none"
      BY <1>4, <2>1 DEF SessionState
    <3> HIDE DEF y
    <3>4. Started(stored, expired) = y
      BY <3>1, <3>2 DEF y
    <3> QED
      BY <1>4, <3>3, <3>4
  <2> QED
    BY <2>3, <2>4
<1> QED
  BY <1>3, <1>4

----------------------------------------------------------------------------
(* The application: what the functions of Frontend make of x.              *)

XState == [s : SessionState, a : AppState]

\* What no function on x alters.
Frame(x, y) == y.a.saving = x.a.saving /\ y.a.dialog = x.a.dialog

\* The text and the mode are those of x.
SameText(x, y) ==
    /\ y.a.mode = x.a.mode /\ y.a.uploads = x.a.uploads
    /\ y.a.doc = x.a.doc /\ y.a.raw = x.a.raw /\ y.a.initial = x.a.initial

\* The document is requested, or there is none: nothing is edited.
Emptied(x, y) ==
    /\ y.a.mode = "view" /\ y.a.uploads = 0 /\ y.a.doc = NoText
    /\ \/ y.a.raw = x.a.raw /\ y.a.initial = x.a.initial
       \/ y.a.page \notin Document
       \/ y.a.page # x.a.page

LEMMA NoneTexts == NoText \in Text /\ Document \subseteq Page /\ NoText.of = None
<1>1. 0 \in 0 .. MaxEdits + 1
  BY FrontendAssumption
<1>. QED  BY <1>1 DEF NoText, Text, Page

LEMMA AuthenticationUpdatedEffect ==
    ASSUME NEW x \in XState
    PROVE  LET y == AuthenticationUpdated(x) IN
           /\ y \in XState /\ Frame(x, y) /\ SameText(x, y)
           /\ y.s = x.s /\ y.a.page = x.a.page /\ y.a.nav = x.a.nav
           /\ y.a.shown = IF x.s.valid THEN x.s.token ELSE None
<1>1. x.s.token \in Token \cup {None}
  BY DEF XState, SessionState
<1>. QED  BY <1>1 DEF AuthenticationUpdated, XState, AppState, Frame, SameText

LEMMA ViewingEffect ==
    ASSUME NEW x \in XState
    PROVE  LET y == Viewing(x) IN
           /\ y \in XState /\ Frame(x, y)
           /\ y.s = x.s /\ y.a.page = x.a.page /\ y.a.nav = x.a.nav
           /\ y.a.shown = x.a.shown /\ y.a.mode = "view" /\ y.a.uploads = 0
           /\ y.a.doc = x.a.doc /\ y.a.raw = x.a.raw /\ y.a.initial = x.a.initial
<1>1. 0 \in 0 .. MaxEdits
  BY FrontendAssumption
<1>. QED  BY <1>1 DEF Viewing, XState, AppState, Frame

LEMMA DocumentRequestedEffect ==
    ASSUME NEW x \in XState
    PROVE  LET y == DocumentRequested(x) IN
           /\ y \in XState /\ Frame(x, y) /\ Emptied(x, y)
           /\ y.s = x.s /\ y.a.page = x.a.page /\ y.a.nav = x.a.nav
           /\ y.a.shown = x.a.shown
           /\ y.a.page \notin Document => y.a.raw = NoText /\ y.a.initial = NoText
<1>1. /\ Viewing(x) \in XState /\ Frame(x, Viewing(x))
      /\ Viewing(x).s = x.s /\ Viewing(x).a.page = x.a.page /\ Viewing(x).a.nav = x.a.nav
      /\ Viewing(x).a.shown = x.a.shown /\ Viewing(x).a.mode = "view" /\ Viewing(x).a.uploads = 0
      /\ Viewing(x).a.doc = x.a.doc /\ Viewing(x).a.raw = x.a.raw
      /\ Viewing(x).a.initial = x.a.initial
  BY ViewingEffect
<1>2. x.a.page \in Document =>
        Viewing(x).a.loads[x.a.page] + 1 \in Nat
  BY <1>1 DEF XState, AppState
<1>3. NoText \in Text
  BY NoneTexts
<1>4. CASE x.a.page \in Document
  <2> DEFINE v == Viewing(x)
             y == [v EXCEPT !.a.doc = NoText, !.a.pending = {}, !.a.loads[x.a.page] = @ + 1]
  <2>1. DocumentRequested(x) = y
    BY <1>4 DEF DocumentRequested
  <2>5. v \in XState
    BY <1>1
  <2> HIDE DEF v
  <2>2. y.s = v.s /\ y.a \in AppState
    <3> DEFINE loads == [v.a.loads EXCEPT ![x.a.page] = @ + 1]
               b == [v.a EXCEPT !.doc = NoText, !.pending = {}, !.loads = loads]
    <3>1. v.a \in AppState /\ v.a.loads \in [Document -> Nat]
      BY <2>5 DEF XState, AppState
    <3>2. loads \in [Document -> Nat]
      BY <1>4, <3>1
    <3>3. y.s = v.s /\ y.a = b
      BY <2>5 DEF XState, AppState
    <3> HIDE DEF loads
    <3>4. b \in AppState
      BY <1>3, <3>1, <3>2 DEF AppState
    <3> HIDE DEF y, b
    <3>. QED  BY <3>3, <3>4
  <2>3. y \in XState
    BY <2>2, <2>5 DEF XState
  <2>4. /\ y.a.page = v.a.page /\ y.a.nav = v.a.nav /\ y.a.shown = v.a.shown
        /\ y.a.mode = v.a.mode /\ y.a.uploads = v.a.uploads /\ y.a.doc = NoText
        /\ y.a.raw = v.a.raw /\ y.a.initial = v.a.initial
        /\ y.a.saving = v.a.saving /\ y.a.dialog = v.a.dialog
    BY <2>5 DEF XState, AppState
  <2> HIDE DEF y
  <2>. QED  BY <1>1, <1>4, <2>1, <2>2, <2>3, <2>4 DEF v, Frame, Emptied
<1>5. CASE x.a.page \notin Document
  <2> DEFINE v == Viewing(x)
             y == [v EXCEPT !.a.doc = NoText, !.a.pending = {}, !.a.pendingEdit = None,
                            !.a.raw = NoText, !.a.initial = NoText]
  <2>1. DocumentRequested(x) = y
    BY <1>5 DEF DocumentRequested
  <2>5. v \in XState
    BY <1>1
  <2> HIDE DEF v
  <2>2. y.s = v.s /\ y.a \in AppState
    <3> DEFINE b == [v.a EXCEPT !.doc = NoText, !.pending = {}, !.pendingEdit = None,
                                !.raw = NoText, !.initial = NoText]
    <3>1. v.a \in AppState
      BY <2>5 DEF XState
    <3>2. y.s = v.s /\ y.a = b
      BY <2>5 DEF XState, AppState
    <3>3. b \in AppState
      BY <1>3, <3>1 DEF AppState
    <3> HIDE DEF y, b
    <3>. QED  BY <3>2, <3>3
  <2>3. y \in XState
    BY <2>2, <2>5 DEF XState
  <2>4. /\ y.a.page = v.a.page /\ y.a.nav = v.a.nav /\ y.a.shown = v.a.shown
        /\ y.a.mode = v.a.mode /\ y.a.uploads = v.a.uploads /\ y.a.doc = NoText
        /\ y.a.raw = NoText /\ y.a.initial = NoText
        /\ y.a.saving = v.a.saving /\ y.a.dialog = v.a.dialog
    BY <2>5 DEF XState, AppState
  <2> HIDE DEF y
  <2>. QED  BY <1>1, <1>5, <2>1, <2>2, <2>3, <2>4 DEF v, Frame, Emptied
<1>. QED  BY <1>4, <1>5

LEMMA LoggedOutEffect ==
    ASSUME NEW x \in XState
    PROVE  LET y == LoggedOut(x) IN
           /\ y \in XState /\ Frame(x, y) /\ SameText(x, y)
           /\ y.s = Destroyed(x.s) /\ y.a.page = x.a.page /\ y.a.nav = x.a.nav
<1> DEFINE d == [x EXCEPT !.s = Destroyed(@)]
<1>1. x.s \in SessionState
  BY DEF XState
<1>2. Destroyed(x.s) \in SessionState
  BY <1>1, DestroyedEffect
<1>3. d \in XState /\ d.s = Destroyed(x.s) /\ d.a = x.a
  BY <1>2 DEF XState
<1> HIDE DEF d
<1> DEFINE u == AuthenticationUpdated(d)
<1>4. /\ u \in XState /\ Frame(d, u) /\ SameText(d, u)
      /\ u.s = d.s /\ u.a.page = d.a.page /\ u.a.nav = d.a.nav
  BY <1>3, AuthenticationUpdatedEffect
<1> HIDE DEF u
<1>5. LoggedOut(x) = IF hasToken(x.s) THEN u ELSE d
  BY DEF LoggedOut, u, d
<1>. QED  BY <1>3, <1>4, <1>5 DEF Frame, SameText

\* What a function on x does to the session, the page and the authorizations.
Stays(x, y) == y.s = x.s /\ y.a.page = x.a.page /\ y.a.shown = x.a.shown

Enters(x, y) ==
    /\ y.s = x.s /\ y.a.page \notin {x.a.page, "/authenticate"}
    /\ y.a.shown = IF x.s.valid THEN x.s.token ELSE None

SignsOut(x, y) ==
    /\ y.s = Destroyed(x.s) /\ y.a.page = "/authenticate" /\ x.a.page # "/authenticate"
    /\ y.a.shown = None

LEMMA ArrivedEffect ==
    ASSUME NEW x \in XState, NEW page \in Page
    PROVE  LET y == Arrived(x, page) IN
           /\ y \in XState /\ Frame(x, y) /\ y.a.page = page /\ y.a.nav = x.a.nav
           /\ page = x.a.page => y = x
           /\ page # x.a.page => Emptied(x, y)
           /\ page # x.a.page /\ page # "/authenticate" => Enters(x, y)
           /\ page # x.a.page /\ page = "/authenticate" => SignsOut(x, y)
<1> DEFINE y == [x EXCEPT !.a.page = page, !.a.loading = FALSE]
<1>1. /\ y \in XState /\ Frame(x, y) /\ SameText(x, y)
      /\ y.s = x.s /\ y.a.page = page /\ y.a.nav = x.a.nav
  BY DEF XState, AppState, Frame, SameText
<1> HIDE DEF y
<1> DEFINE z == IF page = "/authenticate" THEN LoggedOut(y) ELSE y
<1>2. /\ LoggedOut(y) \in XState /\ Frame(y, LoggedOut(y)) /\ SameText(y, LoggedOut(y))
      /\ LoggedOut(y).s = Destroyed(y.s)
      /\ LoggedOut(y).a.page = y.a.page /\ LoggedOut(y).a.nav = y.a.nav
  BY <1>1, LoggedOutEffect
<1>3. /\ z \in XState /\ Frame(x, z) /\ SameText(x, z)
      /\ z.s = IF page = "/authenticate" THEN Destroyed(x.s) ELSE x.s
      /\ z.a.page = page /\ z.a.nav = x.a.nav
  BY <1>1, <1>2 DEF Frame, SameText
<1> HIDE DEF z
<1> DEFINE u == AuthenticationUpdated(z)
<1>4. /\ u \in XState /\ Frame(z, u) /\ SameText(z, u)
      /\ u.s = z.s /\ u.a.page = z.a.page /\ u.a.nav = z.a.nav
      /\ u.a.shown = IF z.s.valid THEN z.s.token ELSE None
  BY <1>3, AuthenticationUpdatedEffect
<1> HIDE DEF u
<1> DEFINE r == DocumentRequested(u)
<1>5. /\ r \in XState /\ Frame(u, r) /\ Emptied(u, r)
      /\ r.s = u.s /\ r.a.page = u.a.page /\ r.a.nav = u.a.nav /\ r.a.shown = u.a.shown
  BY <1>4, DocumentRequestedEffect
<1> HIDE DEF r
<1>6. Arrived(x, page) = IF page = x.a.page THEN x ELSE r
  BY DEF Arrived, r, u, z, y
<1>7. x.s \in SessionState
  BY DEF XState
<1>8. Destroyed(x.s).valid = FALSE
  BY <1>7, DestroyedEffect
<1>9. CASE page = x.a.page
  BY <1>6, <1>9 DEF Frame
<1>10. CASE page # x.a.page
  <2>1. r \in XState /\ Frame(x, r) /\ Emptied(x, r) /\ r.a.page = page /\ r.a.nav = x.a.nav
    BY <1>3, <1>4, <1>5 DEF Frame, SameText, Emptied
  <2>2. page # "/authenticate" => Enters(x, r)
    BY <1>3, <1>4, <1>5, <1>10 DEF Enters
  <2>3. page = "/authenticate" => SignsOut(x, r)
    BY <1>3, <1>4, <1>5, <1>8, <1>10 DEF SignsOut
  <2>. QED  BY <1>6, <1>10, <2>1, <2>2, <2>3
<1>. QED  BY <1>9, <1>10

\* The text is that of x on the page of x, or nothing is edited.
Moved(x, y) ==
    /\ Frame(x, y)
    /\ \/ SameText(x, y) /\ y.a.page = x.a.page
       \/ Emptied(x, y)

\* A document is entered by a valid session that may read.
LEMMA AccessResolvedEffect ==
    ASSUME NEW x \in XState, NEW d \in Document
    PROVE  LET y == AccessResolved(x, d) IN
           /\ y \in XState /\ Moved(x, y) /\ y.a.nav = x.a.nav
           /\ \/ Stays(x, y) /\ (y.a.page = "/authenticate" \/ x.s.valid)
              \/ Enters(x, y) /\ x.s.valid /\ y.a.page = d
              \/ SignsOut(x, y)
           /\ ~x.s.valid => y.a.page = "/authenticate"
           /\ x.s.valid /\ "read" \in Allowed(x.s.token) => y.a.page = d
<1>1. d \in Page /\ "/authenticate" \in Page /\ d # "/authenticate"
  BY FrontendAssumption DEF Page
<1>2. CASE x.s.valid /\ "read" \in Allowed(x.s.token)
  <2>1. AccessResolved(x, d) = Arrived(x, d)
    BY <1>2 DEF AccessResolved
  <2>2. Moved(x, Arrived(x, d))
    BY <1>1, ArrivedEffect DEF Moved, Frame, SameText
  <2>. QED  BY <1>1, <1>2, <2>1, <2>2, ArrivedEffect DEF Stays
<1>3. CASE ~(x.s.valid /\ "read" \in Allowed(x.s.token))
  <2> DEFINE z == [x EXCEPT !.a.waitUrl = d]
  <2>1. AccessResolved(x, d) = Arrived(z, "/authenticate")
    BY <1>3 DEF AccessResolved
  <2>2. /\ z \in XState /\ Frame(x, z) /\ SameText(x, z) /\ z.s = x.s
        /\ z.a.page = x.a.page /\ z.a.nav = x.a.nav /\ z.a.shown = x.a.shown
    BY DEF XState, AppState, Frame, SameText
  <2> HIDE DEF z
  <2> DEFINE y == Arrived(z, "/authenticate")
  <2>3. /\ y \in XState /\ Frame(z, y) /\ y.a.page = "/authenticate" /\ y.a.nav = z.a.nav
        /\ z.a.page = "/authenticate" => y = z
        /\ z.a.page # "/authenticate" => Emptied(z, y) /\ SignsOut(z, y)
    BY <1>1, <2>2, ArrivedEffect
  <2> HIDE DEF y
  <2>4. Moved(x, y)
    BY <2>2, <2>3 DEF Moved, Frame, SameText, Emptied
  <2>5. Stays(x, y) \/ SignsOut(x, y)
    BY <2>2, <2>3 DEF Stays, SignsOut
  <2>. QED  BY <1>3, <2>1, <2>2, <2>3, <2>4, <2>5 DEF y
<1>. QED  BY <1>2, <1>3

LEMMA MovedTwice ==
    ASSUME NEW x, NEW y, NEW z, Moved(x, y), Moved(y, z),
           y.a.page = x.a.page \/ z.a.page = y.a.page \/ z.a.page \notin Document
    PROVE  Moved(x, z)
  BY DEF Moved, Frame, SameText, Emptied

By == {"link", "new", "write"}

LEMMA FollowedEffect ==
    ASSUME NEW x \in XState, NEW by \in By, NEW done \in BOOLEAN
    PROVE  LET y == Followed(x, by, done) IN
           /\ y \in XState /\ Moved(x, y) /\ Stays(x, y) /\ y.a.nav = x.a.nav
<1>1. CASE by = "link"
  BY <1>1 DEF Followed, Moved, Frame, SameText, Stays
<1>2. CASE by = "new"
  <2> DEFINE y == [x EXCEPT !.a.pendingEdit = IF done THEN @ ELSE None]
  <2>1. y \in XState /\ y.a.nav = x.a.nav
    BY DEF XState, AppState
  <2>2. Frame(x, y) /\ SameText(x, y) /\ Stays(x, y)
    BY DEF XState, AppState, Frame, SameText, Stays
  <2> HIDE DEF y
  <2>3. Followed(x, by, done) = y
    BY <1>2 DEF Followed, y
  <2>. QED  BY <2>1, <2>2, <2>3 DEF Moved, Stays
<1>3. CASE by = "write"
  BY <1>3, DocumentRequestedEffect DEF Followed, Moved, Stays
<1>. QED  BY <1>1, <1>2, <1>3 DEF By

LEMMA NavTypes ==
    ASSUME NEW x \in XState
    PROVE  /\ x.a.nav.by \in By /\ x.a.nav.to \in Document \cup {None}
           /\ NoNavigation \in [to : Document \cup {None}, by : By] /\ NoNavigation.to = None
           /\ x.s \in SessionState /\ x.a.page \in Page
  BY DEF XState, AppState, NoNavigation, By

LEMMA NavGivenUp ==
    ASSUME NEW x \in XState
    PROVE  LET y == [x EXCEPT !.a.nav = NoNavigation] IN
           /\ y \in XState /\ Moved(x, y) /\ Stays(x, y) /\ y.a.nav = NoNavigation
<1> DEFINE y == [x EXCEPT !.a.nav = NoNavigation]
<1>1. y \in XState /\ y.a.nav = NoNavigation
  BY NavTypes DEF XState, AppState, By
<1>2. Frame(x, y) /\ SameText(x, y) /\ Stays(x, y)
  BY DEF XState, AppState, Frame, SameText, Stays
<1> HIDE DEF y
<1>3. Moved(x, y)
  BY <1>2 DEF Moved, Stays
<1>. QED  BY <1>1, <1>2, <1>3 DEF y

LEMMA GivenUpEffect ==
    ASSUME NEW x \in XState
    PROVE  LET y == GivenUp(x) IN
           /\ y \in XState /\ Moved(x, y) /\ Stays(x, y) /\ y.a.nav = NoNavigation
<1> DEFINE z == [x EXCEPT !.a.nav = NoNavigation]
<1>1. z \in XState /\ Moved(x, z) /\ Stays(x, z) /\ z.a.nav = NoNavigation
  BY NavGivenUp
<1> HIDE DEF z
<1>2. x.a.nav.by \in By
  BY NavTypes
<1> DEFINE y == Followed(z, x.a.nav.by, FALSE)
<1>3. y \in XState /\ Moved(z, y) /\ Stays(z, y) /\ y.a.nav = z.a.nav
  BY <1>1, <1>2, FollowedEffect
<1> HIDE DEF y
<1>4. Moved(x, y) /\ Stays(x, y)
  BY <1>1, <1>3, MovedTwice DEF Stays
<1>. QED  BY <1>1, <1>3, <1>4 DEF GivenUp, y, z

\* The navigation waits for a bootstrap session.
Waits(x, y) ==
    /\ y.s = EnsureBootstrap(x.s) /\ x.s.ready /\ ~x.s.valid
    /\ y.a.page = x.a.page /\ y.a.shown = x.a.shown /\ y.a.nav.to # None

LEMMA NavigatedEffect ==
    ASSUME NEW x \in XState, NEW d \in Document, NEW by \in By
    PROVE  LET y == Navigated(x, d, by) IN
           /\ y \in XState /\ Moved(x, y)
           /\ \/ y.a.nav = NoNavigation /\ Stays(x, y)
                 /\ (y.a.page = "/authenticate" => x.s.valid)
              \/ y.a.nav = NoNavigation /\ Enters(x, y) /\ (x.s.ready => x.s.valid)
              \/ y.a.nav = NoNavigation /\ SignsOut(x, y) /\ x.s.valid
              \/ Waits(x, y)
           /\ ~x.s.ready => y.a.page # "/authenticate" /\ y.a.nav = NoNavigation
<1> DEFINE y == GivenUp(x)
<1>1. y \in XState /\ Moved(x, y) /\ Stays(x, y) /\ y.a.nav = NoNavigation
  BY GivenUpEffect
<1> HIDE DEF y
<1>2. d \in Page /\ "/wait" \in Page /\ d # None /\ d # "/authenticate" /\ "/wait" # "/authenticate"
  BY FrontendAssumption DEF Page
<1> DEFINE w == [y EXCEPT !.a.waitUrl = d]
           n == [y EXCEPT !.s = EnsureBootstrap(@), !.a.nav = [to |-> d, by |-> by]]
           z == IF d = y.a.page THEN y
                ELSE IF ~y.s.ready THEN Arrived(w, "/wait")
                ELSE IF y.s.valid THEN AccessResolved(y, d)
                ELSE n
<1>3. w \in XState /\ Frame(y, w) /\ SameText(y, w) /\ Stays(y, w) /\ w.a.nav = y.a.nav
  BY <1>1 DEF XState, AppState, Frame, SameText, Stays
<1>4. EnsureBootstrap(y.s) \in SessionState
  BY <1>1, EnsureBootstrapEffect DEF XState
<1>5. /\ n \in XState /\ Frame(y, n) /\ SameText(y, n) /\ n.s = EnsureBootstrap(y.s)
      /\ n.a.page = y.a.page /\ n.a.shown = y.a.shown /\ n.a.nav.to = d
  BY <1>1, <1>2, <1>4 DEF XState, AppState, Frame, SameText, By
<1> HIDE DEF w, n
<1> DEFINE v == Arrived(w, "/wait")
           r == AccessResolved(y, d)
<1>6. /\ v \in XState /\ Frame(w, v) /\ v.a.page = "/wait" /\ v.a.nav = w.a.nav
      /\ "/wait" = w.a.page => v = w
      /\ "/wait" # w.a.page => Emptied(w, v) /\ Enters(w, v)
  BY <1>2, <1>3, ArrivedEffect
<1>7. /\ r \in XState /\ Moved(y, r) /\ r.a.nav = y.a.nav
      /\ \/ Stays(y, r) /\ (r.a.page = "/authenticate" \/ y.s.valid)
         \/ Enters(y, r) /\ y.s.valid
         \/ SignsOut(y, r)
  BY <1>1, AccessResolvedEffect
<1> HIDE DEF v, r
<1> DEFINE Result(u) ==
             \/ u.a.nav = NoNavigation /\ Stays(x, u)
                /\ (u.a.page = "/authenticate" => x.s.valid)
             \/ u.a.nav = NoNavigation /\ Enters(x, u) /\ (x.s.ready => x.s.valid)
             \/ u.a.nav = NoNavigation /\ SignsOut(x, u) /\ x.s.valid
             \/ Waits(x, u)
           Leaves(u) == ~x.s.ready => u.a.page # "/authenticate" /\ u.a.nav = NoNavigation
<1>8. z \in XState /\ Moved(x, z) /\ Result(z) /\ Leaves(z)
  <2>1. CASE d = y.a.page
    BY <1>1, <1>2, <2>1 DEF Stays
  <2>2. CASE d # y.a.page /\ ~y.s.ready
    <3>1. Moved(y, v)
      BY <1>3, <1>6 DEF Moved, Frame, SameText, Emptied, Stays
    <3>2. Moved(x, v)
      BY <1>1, <3>1, MovedTwice DEF Stays
    <3>3. Stays(x, v) \/ Enters(x, v)
      BY <1>1, <1>3, <1>6 DEF Stays, Enters
    <3>4. v.a.nav = NoNavigation /\ v.a.page # "/authenticate" /\ ~x.s.ready
      BY <1>1, <1>2, <1>3, <1>6, <2>2 DEF Stays
    <3>5. z = v
      BY <2>2 DEF v
    <3> HIDE DEF z
    <3>. QED  BY <1>6, <3>2, <3>3, <3>4, <3>5
  <2>3. CASE d # y.a.page /\ y.s.ready /\ y.s.valid
    <3>1. Moved(x, r)
      BY <1>1, <1>7, MovedTwice DEF Stays
    <3>2. Stays(x, r) \/ Enters(x, r) \/ SignsOut(x, r)
      BY <1>1, <1>7 DEF Stays, Enters, SignsOut
    <3>3. r.a.nav = NoNavigation /\ x.s.ready /\ x.s.valid
      BY <1>1, <1>7, <2>3 DEF Stays
    <3>4. z = r
      BY <2>3 DEF r
    <3> HIDE DEF z
    <3>. QED  BY <1>7, <3>1, <3>2, <3>3, <3>4
  <2>4. CASE d # y.a.page /\ y.s.ready /\ ~y.s.valid
    <3>1. Moved(y, n)
      BY <1>5 DEF Moved
    <3>2. Moved(x, n)
      BY <1>1, <3>1, MovedTwice DEF Stays
    <3>3. Waits(x, n) /\ x.s.ready
      BY <1>1, <1>2, <1>5, <2>4 DEF Stays, Waits
    <3>4. z = n
      BY <2>4
    <3> HIDE DEF z
    <3>. QED  BY <1>5, <3>2, <3>3, <3>4
  <2>. QED  BY <2>1, <2>2, <2>3, <2>4
<1>9. Navigated(x, d, by) = IF z.a.nav = NoNavigation THEN Followed(z, by, TRUE) ELSE z
  BY DEF Navigated, y, w, n, v, r
<1> HIDE DEF z
<1> DEFINE f == Followed(z, by, TRUE)
<1>10. f \in XState /\ Moved(z, f) /\ Stays(z, f) /\ f.a.nav = z.a.nav
  BY <1>8, FollowedEffect
<1> HIDE DEF f
<1>11. Moved(x, f)
  BY <1>8, <1>10, MovedTwice DEF Stays
<1>12. Result(f) /\ Leaves(f)
  BY <1>8, <1>10 DEF Stays, Enters, SignsOut, Waits
<1>. QED  BY <1>8, <1>9, <1>10, <1>11, <1>12 DEF f

LEMMA SentToAuthenticateEffect ==
    ASSUME NEW x \in XState
    PROVE  LET y == SentToAuthenticate(x) IN
           /\ y \in XState /\ Moved(x, y) /\ y.a.nav = NoNavigation
           /\ y.a.page = "/authenticate"
           /\ Stays(x, y) \/ SignsOut(x, y)
<1> DEFINE y == GivenUp(x)
<1>1. y \in XState /\ Moved(x, y) /\ Stays(x, y) /\ y.a.nav = NoNavigation
  BY GivenUpEffect
<1> HIDE DEF y
<1>2. "/authenticate" \in Page
  BY DEF Page
<1> DEFINE z == Arrived(y, "/authenticate")
<1>3. /\ z \in XState /\ Frame(y, z) /\ z.a.page = "/authenticate" /\ z.a.nav = y.a.nav
      /\ "/authenticate" = y.a.page => z = y
      /\ "/authenticate" # y.a.page => Emptied(y, z) /\ SignsOut(y, z)
  BY <1>1, <1>2, ArrivedEffect
<1> HIDE DEF z
<1>4. Moved(y, z)
  BY <1>3 DEF Moved, Frame, SameText
<1>5. Moved(x, z)
  BY <1>1, <1>4, MovedTwice DEF Stays
<1>6. Stays(x, z) \/ SignsOut(x, z)
  BY <1>1, <1>3 DEF Stays, SignsOut
<1>. QED  BY <1>1, <1>3, <1>5, <1>6 DEF SentToAuthenticate, y, z

\* Every navigation that waited has gone on, or has been given up.
LEMMA BootAwaitedEffect ==
    ASSUME NEW x \in XState, NEW navigates \in BOOLEAN,
           x.a.nav.to = None => x.a.nav = NoNavigation
    PROVE  LET y == BootAwaited(x, navigates) IN
           /\ y \in XState /\ Moved(x, y) /\ y.a.nav = NoNavigation
           /\ Stays(x, y) \/ (Enters(x, y) /\ x.s.valid /\ y.a.page \in Document) \/ SignsOut(x, y)
           /\ x.a.nav.to = None /\ ~(navigates /\ ~x.s.valid) => y = x
           /\ navigates /\ ~x.s.valid => y.a.page = "/authenticate"
           /\ x.s.valid /\ "read" \in Allowed(x.s.token) /\ x.a.nav.to # None
                 => y.a.page = x.a.nav.to
<1> DEFINE nav == x.a.nav
           n == [x EXCEPT !.a.nav = NoNavigation]
           r == AccessResolved(n, nav.to)
           f == Followed(r, nav.by, TRUE)
           y == IF nav.to = None THEN x ELSE f
<1>1. nav.by \in By /\ nav.to \in Document \cup {None} /\ TRUE \in BOOLEAN
      /\ "/authenticate" \notin Document
  BY NavTypes, FrontendAssumption
<1>2. n \in XState /\ Moved(x, n) /\ Stays(x, n) /\ n.a.nav = NoNavigation
  BY NavGivenUp
<1> HIDE DEF n
<1>3. /\ y \in XState /\ Moved(x, y) /\ y.a.nav = NoNavigation
      /\ Stays(x, y) \/ (Enters(x, y) /\ x.s.valid /\ y.a.page \in Document) \/ SignsOut(x, y)
      /\ nav.to = None => y = x
      /\ nav.to # None /\ ~x.s.valid => y.a.page = "/authenticate"
      /\ x.s.valid /\ "read" \in Allowed(x.s.token) /\ nav.to # None => y.a.page = nav.to
  <2>1. CASE nav.to = None
    BY <2>1 DEF Moved, Frame, SameText, Stays
  <2>2. CASE nav.to # None
    <3>1. nav.to \in Document
      BY <1>1, <2>2
    <3>2. /\ r \in XState /\ Moved(n, r) /\ r.a.nav = n.a.nav
          /\ \/ Stays(n, r) /\ (r.a.page = "/authenticate" \/ n.s.valid)
             \/ Enters(n, r) /\ n.s.valid /\ r.a.page = nav.to
             \/ SignsOut(n, r)
          /\ ~n.s.valid => r.a.page = "/authenticate"
          /\ n.s.valid /\ "read" \in Allowed(n.s.token) => r.a.page = nav.to
      BY <1>2, <3>1, AccessResolvedEffect
    <3> HIDE DEF r
    <3>3. f \in XState /\ Moved(r, f) /\ Stays(r, f) /\ f.a.nav = r.a.nav
      BY <1>1, <3>2, FollowedEffect
    <3>4. y = f
      BY <2>2
    <3> HIDE DEF f, y
    <3>5. Moved(x, r)
      BY <1>2, <3>2, MovedTwice DEF Stays
    <3>6. Moved(x, f)
      BY <3>3, <3>5, MovedTwice DEF Stays
    <3>7. /\ Stays(x, f) \/ (Enters(x, f) /\ x.s.valid /\ f.a.page \in Document) \/ SignsOut(x, f)
          /\ ~x.s.valid => f.a.page = "/authenticate"
          /\ x.s.valid /\ "read" \in Allowed(x.s.token) => f.a.page = nav.to
      BY <1>2, <3>1, <3>2, <3>3 DEF Stays, Enters, SignsOut
    <3>. QED  BY <1>2, <2>2, <3>2, <3>3, <3>4, <3>6, <3>7
  <2>. QED  BY <2>1, <2>2
<1>4. BootAwaited(x, navigates) =
        IF navigates /\ ~x.s.valid THEN SentToAuthenticate(y) ELSE y
  BY DEF BootAwaited, n
<1> HIDE DEF y, nav
<1>5. CASE ~(navigates /\ ~x.s.valid)
  BY <1>3, <1>4, <1>5 DEF nav
<1>6. CASE navigates /\ ~x.s.valid
  <2> DEFINE z == SentToAuthenticate(y)
  <2>1. /\ z \in XState /\ Moved(y, z) /\ z.a.nav = NoNavigation
        /\ z.a.page = "/authenticate"
        /\ Stays(y, z) \/ SignsOut(y, z)
    BY <1>3, SentToAuthenticateEffect
  <2> HIDE DEF z
  <2>2. Moved(x, z)
    BY <1>1, <1>3, <2>1, MovedTwice
  <2>3. Stays(x, z) \/ SignsOut(x, z)
    BY <1>3, <1>6, <2>1 DEF Stays, Enters, SignsOut
  <2>. QED  BY <1>4, <1>6, <2>1, <2>2, <2>3 DEF z
<1>. QED  BY <1>5, <1>6

LEMMA EditingStartedEffect ==
    ASSUME NEW x \in XState
    PROVE  LET y == EditingStarted(x) IN
           /\ y \in XState /\ Frame(x, y) /\ Stays(x, y)
           /\ y.a.nav = x.a.nav /\ y.a.uploads = x.a.uploads /\ y.a.doc = x.a.doc
           /\ \/ SameText(x, y)
              \/ /\ x.a.doc.of # None /\ "write" \in Allowed(x.a.shown)
                 /\ y.a.mode = "edit" /\ y.a.raw = x.a.doc /\ y.a.initial = x.a.doc
<1> DEFINE y == [x EXCEPT !.a.initial = x.a.doc, !.a.raw = x.a.doc, !.a.mode = "edit"]
<1>1. /\ y \in XState /\ Frame(x, y) /\ Stays(x, y)
      /\ y.a.nav = x.a.nav /\ y.a.uploads = x.a.uploads /\ y.a.doc = x.a.doc
      /\ y.a.mode = "edit" /\ y.a.raw = x.a.doc /\ y.a.initial = x.a.doc
  BY DEF XState, AppState, Frame, Stays
<1>2. EditingStarted(x) = IF x.a.doc.of = None \/ "write" \notin Allowed(x.a.shown) THEN x ELSE y
  BY DEF EditingStarted
<1> HIDE DEF y
<1>. QED  BY <1>1, <1>2 DEF Frame, Stays, SameText
----------------------------------------------------------------------------
(* What navigation leaves of the invariants.                               *)

LEMMA HumbleMayNotWrite ==
    ASSUME NEW token, Humble(token)
    PROVE  "write" \notin Allowed(token) /\ "delete" \notin Allowed(token)
<1>1. "write" \notin {"read"} /\ "delete" \notin {"read"}
  OBVIOUS
<1>. QED  BY <1>1, FrontendAssumption, SessionAssumption DEF Humble, Allowed

LEMMA MovedView ==
    ASSUME NEW x \in XState, NEW y \in XState, Moved(x, y),
           Stays(x, y) \/ Enters(x, y) \/ SignsOut(x, y) \/ Waits(x, y)
    PROVE  /\ ViewInv(x) => ViewInv(y)
           /\ TextInv(x) => TextInv(y)
           /\ Viewed(x) /\ Humble(x.s.token) => Viewed(y) /\ Humble(y.s.token)
<1>1. x.s \in SessionState
  BY DEF XState
<1>2. Destroyed(x.s).token = None /\ EnsureBootstrap(x.s).token = x.s.token
  BY <1>1, DestroyedEffect, EnsureBootstrapEffect
<1>3. Humble(None)
  BY DEF Humble
<1>4. ViewInv(x) => ViewInv(y)
  <2>1. ~(y.a.uploads > 0) \/ SameText(x, y)
    BY DEF Moved, Emptied
  <2>2. Viewed(x) /\ y.a.page = x.a.page /\ y.a.shown = x.a.shown => Viewed(y)
    BY DEF Viewed, Moved, SameText, Emptied
  <2>3. SignsOut(x, y) => Viewed(y)
    BY <1>3 DEF Viewed, Moved, SameText, Emptied, SignsOut
  <2>. QED  BY <2>1, <2>2, <2>3
            DEF ViewInv, Moved, SameText, Emptied, Stays, Enters, SignsOut, Waits
<1>5. TextInv(x) => TextInv(y)
  <2>1. NoText.of = None
    BY NoneTexts
  <2>. QED  BY <2>1 DEF TextInv, Moved, SameText, Emptied
<1>6. Viewed(x) /\ Humble(x.s.token) => Viewed(y) /\ Humble(y.s.token)
  BY <1>2, <1>3 DEF Viewed, Moved, SameText, Emptied, Stays, Enters, SignsOut, Waits
<1>. QED  BY <1>4, <1>5, <1>6

LEMMA MovedToken ==
    ASSUME NEW x \in XState, NEW y \in XState, TokenInv(x),
           \/ /\ y.a.nav.to = None
              /\ Stays(x, y) \/ Enters(x, y) \/ SignsOut(x, y)
           \/ Waits(x, y)
    PROVE  TokenInv(y)
<1>1. x.s \in SessionState
  BY DEF XState
<1>2. Destroyed(x.s).token = None /\ Destroyed(x.s).boot = x.s.boot
  BY <1>1, DestroyedEffect
<1>3. Humble(None)
  BY DEF Humble
<1>4. CASE Stays(x, y) /\ y.a.nav.to = None
  BY <1>4 DEF TokenInv, Stays
<1>5. CASE Enters(x, y) /\ y.a.nav.to = None
  BY <1>5 DEF TokenInv, Enters
<1>6. CASE SignsOut(x, y) /\ y.a.nav.to = None
  BY <1>2, <1>3, <1>6 DEF TokenInv, SignsOut
<1>7. CASE Waits(x, y)
  <2>1. /\ y.s.token = x.s.token /\ y.s.valid = x.s.valid
        /\ x.s.boot.at # "none" => y.s.boot = x.s.boot
        /\ x.s.boot.at = "none" => y.s.boot.at = "jwt"
    BY <1>1, <1>7, EnsureBootstrapEffect DEF Waits
  <2>2. Humble(x.s.token)
    BY <1>7 DEF TokenInv, Waits
  <2>. QED  BY <1>7, <2>1, <2>2 DEF TokenInv, Waits
<1>. QED  BY <1>4, <1>5, <1>6, <1>7

\* A session that is signed out while nothing is awaited has settled.
LEMMA SignedOutSession ==
    ASSUME NEW x \in XState, NEW y \in XState, SignsOut(x, y), Quiet(x.s)
    PROVE  SessionInv(y)
<1>1. x.s \in SessionState
  BY DEF XState
<1>2. /\ y.s.ready = TRUE /\ y.s.valid = FALSE /\ y.s.token = None
      /\ y.s.verifying = x.s.verifying /\ y.s.boot = x.s.boot /\ y.a.shown = None
  BY <1>1, DestroyedEffect DEF SignsOut
<1>. QED  BY <1>2 DEF SessionInv, Quiet, hasToken

LEMMA MovedSession ==
    ASSUME NEW x \in XState, NEW y \in XState, SessionInv(x),
           \/ y.a.nav.to = None /\ Stays(x, y) /\ (y.a.page = "/authenticate" => x.s.valid)
           \/ Enters(x, y)
           \/ SignsOut(x, y) /\ x.s.valid
           \/ Waits(x, y)
    PROVE  SessionInv(y)
<1>1. x.s \in SessionState
  BY DEF XState
<1>2. x.s.valid \/ x.s.ready => Quiet(x.s)
  BY DEF SessionInv, Quiet
<1>3. CASE Stays(x, y) /\ (y.a.page = "/authenticate" => x.s.valid)
  BY <1>2, <1>3 DEF SessionInv, Stays, Quiet
<1>4. CASE Enters(x, y)
  BY <1>4 DEF SessionInv, Enters, Quiet, hasToken
<1>5. CASE SignsOut(x, y) /\ x.s.valid
  BY <1>2, <1>5, SignedOutSession
<1>6. CASE Waits(x, y)
  <2>1. Quiet(x.s) /\ ~x.s.valid /\ x.s.token = None /\ x.a.shown = None
    BY <1>2, <1>6 DEF SessionInv, Waits, hasToken
  <2>2. /\ y.s.token = None /\ y.s.valid = x.s.valid /\ y.s.verifying = {}
        /\ y.s.ready = FALSE /\ y.s.boot.at = "jwt"
    BY <1>1, <1>6, <2>1, EnsureBootstrapEffect DEF Waits, Quiet
  <2>. QED  BY <1>6, <2>1, <2>2 DEF SessionInv, Waits, Quiet
<1>. QED  BY <1>3, <1>4, <1>5, <1>6
----------------------------------------------------------------------------
(* The invariant, and what leaves a part of it as it is.                   *)

IInv ==
    /\ TypeInv /\ SavingInv /\ LoginInv /\ DialogInv /\ SavedTextBelongs
    /\ TokenInv(x0) /\ ViewInv(x0)
    /\ crossed \/ TextInv(x0)
    /\ overlap \/ SessionInv(x0)

LEMMA Now ==
    ASSUME TypeOK
    PROVE  x0 \in XState /\ x0.s = session /\ x0.a = app
  BY DEF TypeOK, XState, x0

LEMMA Becomes ==
    ASSUME NEW y \in XState, Become(y)
    PROVE  /\ session' = y.s /\ app' = y.a
           /\ session' \in SessionState /\ app' \in AppState
           /\ TokenInv(y) => TokenInv(x0)'
           /\ ViewInv(y) => ViewInv(x0)'
           /\ TextInv(y) => TextInv(x0)'
           /\ SessionInv(y) => SessionInv(x0)'
           /\ Viewed(y) => Viewed(x0)'
<1>1. session' = y.s /\ app' = y.a /\ session' \in SessionState /\ app' \in AppState
  BY DEF Become, XState
<1>2. TokenInv(y) => TokenInv(x0)'
  BY <1>1 DEF TokenInv, x0
<1>3. Viewed(y) => Viewed(x0)'
  BY <1>1 DEF Viewed, x0
<1>4. ViewInv(y) => ViewInv(x0)'
  BY <1>1 DEF ViewInv, Viewed, x0
<1>5. TextInv(y) => TextInv(x0)'
  BY <1>1 DEF TextInv, x0
<1>6. SessionInv(y) => SessionInv(x0)'
  BY <1>1 DEF SessionInv, x0
<1>. QED  BY <1>1, <1>2, <1>3, <1>4, <1>5, <1>6

LEMMA CountedEffect ==
    ASSUME sent \in [Bounds -> Nat], NEW event \in Bounds, NEW max \in Nat, Counted(event, max)
    PROVE  /\ sent' \in [Bounds -> Nat] /\ sent'.edits >= sent.edits
           /\ event = "edits" => sent.edits < max /\ sent'.edits = sent.edits + 1
  BY DEF Counted, Bounds

LEMMA TypeKept ==
    ASSUME TypeInv, NEW y \in XState, Become(y), UNCHANGED <<writes, content>>,
           login' \in Nat, crossed' \in BOOLEAN, overlap' \in BOOLEAN,
           expired' \subseteq Token, sent' \in [Bounds -> Nat], sent'.edits >= sent.edits,
           y.a.uploads \in {0, app.uploads}, y.a.dialog \in {NoDialog, app.dialog},
           y.a.nav.to = None => y.a.nav = NoNavigation
    PROVE  TypeInv'
<1>1. session' = y.s /\ app' = y.a /\ session' \in SessionState /\ app' \in AppState
  BY Becomes
<1>2. TypeOK'
  BY <1>1 DEF TypeInv, TypeOK
<1>3. app'.uploads <= sent'.edits
  <2>1. app.uploads \in Nat /\ sent.edits \in Nat /\ sent'.edits \in Nat
    BY FrontendAssumption DEF TypeInv, TypeOK, AppState, Bounds
  <2>. QED  BY <1>1, <2>1 DEF TypeInv
<1>4. app'.dialog.kind = "delete" => app'.dialog.path \in Page
  BY <1>1 DEF TypeInv, NoDialog
<1>. QED  BY <1>1, <1>2, <1>3, <1>4 DEF TypeInv

LEMMA WritesKept ==
    ASSUME SavingInv, SavedTextBelongs, UNCHANGED writes, crossed => crossed',
           app'.saving = app.saving, app'.dialog \in {NoDialog, app.dialog}
    PROVE  SavingInv' /\ SavedTextBelongs'
  BY DEF SavingInv, SavedTextBelongs, NoDialog

LEMMA DialogKept ==
    ASSUME DialogInv,
           \/ app'.dialog = NoDialog
           \/ /\ app'.dialog = app.dialog
              /\ app'.page = app.page \/ app'.page # "/wait"
              /\ crossed => crossed'
              /\ \/ Humble(session'.token)
                 \/ /\ session'.token = session.token
                    /\ app'.raw.of = app.raw.of /\ app'.page = app.page
    PROVE  DialogInv'
  BY DEF DialogInv, NoDialog

\* The same session on the same page with the same text.
Like(x, y) ==
    /\ y \in XState /\ y.s = x.s /\ SameText(x, y) /\ y.a.page = x.a.page
    /\ y.a.nav = x.a.nav /\ y.a.shown = x.a.shown

LEMMA LikeInv ==
    ASSUME NEW x \in XState, NEW y, Like(x, y)
    PROVE  /\ TokenInv(x) => TokenInv(y)
           /\ ViewInv(x) => ViewInv(y)
           /\ TextInv(x) => TextInv(y)
           /\ SessionInv(x) => SessionInv(y)
           /\ Viewed(x) => Viewed(y)
  BY DEF Like, SameText, TokenInv, ViewInv, Viewed, TextInv, SessionInv

LEMMA NavigatedKeeps ==
    ASSUME NEW x \in XState, NEW d \in Document, NEW by \in By
    PROVE  LET y == Navigated(x, d, by) IN
           /\ y \in XState /\ Frame(x, y) /\ y.a.uploads \in {0, x.a.uploads}
           /\ y.a.nav.to = None => y.a.nav = NoNavigation
           /\ TokenInv(x) => TokenInv(y)
           /\ ViewInv(x) => ViewInv(y)
           /\ TextInv(x) => TextInv(y)
           /\ SessionInv(x) => SessionInv(y)
           /\ Viewed(x) /\ Humble(x.s.token) => Viewed(y) /\ Humble(y.s.token)
<1> DEFINE y == Navigated(x, d, by)
<1>1. /\ y \in XState /\ Moved(x, y)
      /\ \/ y.a.nav = NoNavigation /\ Stays(x, y)
            /\ (y.a.page = "/authenticate" => x.s.valid)
         \/ y.a.nav = NoNavigation /\ Enters(x, y) /\ (x.s.ready => x.s.valid)
         \/ y.a.nav = NoNavigation /\ SignsOut(x, y) /\ x.s.valid
         \/ Waits(x, y)
  BY NavigatedEffect
<1> HIDE DEF y
<1>2. NoNavigation.to = None
  BY DEF NoNavigation
<1>3. Frame(x, y) /\ y.a.uploads \in {0, x.a.uploads}
  BY <1>1 DEF Moved, SameText, Emptied
<1>4. y.a.nav.to = None => y.a.nav = NoNavigation
  BY <1>1 DEF Waits
<1>5. TokenInv(x) => TokenInv(y)
  BY <1>1, <1>2, MovedToken
<1>6. SessionInv(x) => SessionInv(y)
  BY <1>1, <1>2, MovedSession
<1>7. /\ ViewInv(x) => ViewInv(y)
      /\ TextInv(x) => TextInv(y)
      /\ Viewed(x) /\ Humble(x.s.token) => Viewed(y) /\ Humble(y.s.token)
  BY <1>1, MovedView
<1>. QED  BY <1>1, <1>3, <1>4, <1>5, <1>6, <1>7 DEF y


\* A step that neither sends nor answers a write, and types nothing.
LEMMA CrossingStep ==
    ASSUME IInv, NEW y \in XState, Become(y), UNCHANGED <<writes, content>>,
           crossed' \in BOOLEAN, crossed => crossed',
           login' \in Nat, overlap' \in BOOLEAN, expired' \subseteq Token,
           sent' \in [Bounds -> Nat], sent'.edits >= sent.edits,
           Frame(x0, y) \/ (y.a.saving = app.saving /\ y.a.dialog = NoDialog),
           y.a.uploads \in {0, app.uploads},
           y.a.nav.to = None => y.a.nav = NoNavigation,
           DialogInv', LoginInv', TokenInv(y), ViewInv(y),
           crossed' \/ (TextInv(x0) => TextInv(y)),
           overlap' \/ SessionInv(y)
    PROVE  IInv'
<1>1. x0 \in XState /\ x0.s = session /\ x0.a = app
  BY Now DEF IInv, TypeInv
<1>2. y.a.saving = app.saving /\ y.a.dialog \in {NoDialog, app.dialog}
  BY <1>1 DEF Frame
<1>4. TypeInv'
  BY <1>2, TypeKept DEF IInv
<1>5. SavingInv' /\ SavedTextBelongs'
  BY <1>2, Becomes, WritesKept DEF IInv
<1>6. TokenInv(x0)' /\ ViewInv(x0)'
  BY Becomes
<1>7. crossed' \/ TextInv(x0)'
  BY Becomes DEF IInv
<1>8. overlap' \/ SessionInv(x0)'
  BY Becomes
<1>9. (crossed \/ TextInv(x0))' /\ (overlap \/ SessionInv(x0))'
  BY <1>7, <1>8
<1>. QED  BY <1>4, <1>5, <1>6, <1>9 DEF IInv

\* The same, where no answer arrives out of place.
LEMMA Step ==
    ASSUME IInv, NEW y \in XState, Become(y), UNCHANGED <<writes, content, crossed>>,
           login' \in Nat, overlap' \in BOOLEAN, expired' \subseteq Token,
           sent' \in [Bounds -> Nat], sent'.edits >= sent.edits,
           Frame(x0, y) \/ (y.a.saving = app.saving /\ y.a.dialog = NoDialog),
           y.a.uploads \in {0, app.uploads},
           y.a.nav.to = None => y.a.nav = NoNavigation,
           DialogInv', LoginInv', TokenInv(y), ViewInv(y),
           TextInv(x0) => TextInv(y),
           overlap' \/ SessionInv(y)
    PROVE  IInv'
<1>1. crossed' \in BOOLEAN /\ (crossed => crossed')
  BY DEF IInv, TypeInv, TypeOK
<1>. QED  BY <1>1, CrossingStep

\* What does not change, or is only counted.
LEMMA Unchanging ==
    ASSUME IInv
    PROVE  /\ UNCHANGED sent => sent' \in [Bounds -> Nat] /\ sent'.edits >= sent.edits
           /\ UNCHANGED expired => expired' \subseteq Token
           /\ UNCHANGED login => login' \in Nat
           /\ UNCHANGED overlap => overlap' \in BOOLEAN
           /\ Disturbed => overlap' \in BOOLEAN
<1>1. sent.edits \in Nat
  BY DEF IInv, TypeInv, TypeOK, Bounds
<1>2. Disturbed => overlap' \in BOOLEAN
  BY DEF Disturbed
<1>. QED  BY <1>1, <1>2 DEF IInv, TypeInv, TypeOK

----------------------------------------------------------------------------
(* The steps: navigation and session.                                      *)

LEMMA NavigateStep ==
    ASSUME IInv, NEW d \in Document, Navigate(d)
    PROVE  IInv'
<1> DEFINE x == [x0 EXCEPT !.a.dialog = NoDialog]
           y == Navigated(x, d, "link")
<1>1. x0 \in XState /\ x0.s = session /\ x0.a = app
  BY Now DEF IInv, TypeInv
<1>2. NoDialog \in [kind : Dialog, path : Page \cup {None}]
  BY DEF NoDialog, Dialog
<1>3. Like(x0, x) /\ x.a.saving = app.saving /\ x.a.dialog = NoDialog
  BY <1>1, <1>2 DEF Like, XState, AppState, SameText
<1>4. x \in XState /\ "link" \in By
  BY <1>3 DEF Like, By
<1>5. Become(y)
  BY DEF Navigate
<1> HIDE DEF x
<1>6. /\ y \in XState /\ Frame(x, y) /\ y.a.uploads \in {0, x.a.uploads}
      /\ y.a.nav.to = None => y.a.nav = NoNavigation
      /\ TokenInv(x) => TokenInv(y)
      /\ ViewInv(x) => ViewInv(y)
      /\ TextInv(x) => TextInv(y)
      /\ SessionInv(x) => SessionInv(y)
      /\ Viewed(x) /\ Humble(x.s.token) => Viewed(y) /\ Humble(y.s.token)
  BY <1>4, NavigatedKeeps
<1> HIDE DEF y
<1>7. /\ sent' \in [Bounds -> Nat] /\ sent'.edits >= sent.edits
      /\ UNCHANGED <<writes, login, content, expired, crossed>>
      /\ overlap' = (overlap \/ (login > 0 /\ ~session.valid))
  BY CountedEffect, FrontendAssumption DEF Navigate, Bounds, IInv, TypeInv, TypeOK
<1>8. overlap' \in BOOLEAN /\ login' \in Nat /\ expired' \subseteq Token
  BY <1>7, Unchanging
<1>9. y.a.saving = app.saving /\ y.a.dialog = NoDialog /\ y.a.uploads \in {0, app.uploads}
  BY <1>1, <1>3, <1>6 DEF Frame, Like, SameText
<1>10. DialogInv'
  BY <1>5, <1>6, <1>9, Becomes, DialogKept DEF IInv
<1>11. LoginInv'
  BY <1>1, <1>3, <1>5, <1>6, <1>7, <1>9, LikeInv, Becomes DEF IInv, LoginInv, Like, LoneLogin
<1>12. TokenInv(y) /\ ViewInv(y) /\ (TextInv(x0) => TextInv(y))
       /\ (overlap' \/ SessionInv(y))
  BY <1>1, <1>3, <1>6, <1>7, LikeInv DEF IInv
<1>. QED  BY <1>5, <1>6, <1>7, <1>8, <1>9, <1>10, <1>11, <1>12, Step

LEMMA LogoutStep ==
    ASSUME IInv, Logout
    PROVE  IInv'
<1> DEFINE l == LoggedOut(x0)
           u == AuthenticationUpdated(l)
           x == IF Clicked("logout") /\ Become(SentToAuthenticate(u)) THEN u ELSE x0
           y == SentToAuthenticate(x)
<1>1. x0 \in XState /\ x0.s = session /\ x0.a = app
  BY Now DEF IInv, TypeInv
<1>2. /\ l \in XState /\ Frame(x0, l) /\ SameText(x0, l)
      /\ l.s = Destroyed(x0.s) /\ l.a.page = x0.a.page /\ l.a.nav = x0.a.nav
  BY <1>1, LoggedOutEffect
<1> HIDE DEF l
<1>3. /\ u \in XState /\ Frame(l, u) /\ SameText(l, u)
      /\ u.s = l.s /\ u.a.page = l.a.page /\ u.a.nav = l.a.nav
  BY <1>2, AuthenticationUpdatedEffect
<1> HIDE DEF u
<1>4. Become(y)
  BY DEF Logout, u, l
<1>5. /\ x \in XState /\ Frame(x0, x) /\ SameText(x0, x)
      /\ x.s \in {session, Destroyed(session)} /\ x.a.page = app.page
  BY <1>1, <1>2, <1>3 DEF Frame, SameText
<1> HIDE DEF x
<1>6. /\ y \in XState /\ Moved(x, y) /\ y.a.nav = NoNavigation
      /\ y.a.page = "/authenticate"
      /\ Stays(x, y) \/ SignsOut(x, y)
  BY <1>5, SentToAuthenticateEffect
<1> HIDE DEF y
<1>7. app.page # "/authenticate" /\ app.dialog = NoDialog /\ Disturbed
      /\ UNCHANGED <<writes, login, content, expired, crossed>>
  BY DEF Logout, Clicked
<1>8. SignsOut(x, y) /\ Emptied(x, y)
  BY <1>5, <1>6, <1>7 DEF Stays, Moved
<1>9. /\ session \in SessionState
      /\ Destroyed(session) \in SessionState /\ Destroyed(session).boot = session.boot
      /\ Destroyed(session).verifying = session.verifying
  BY DestroyedEffect DEF IInv, TypeInv, TypeOK
<1>10. /\ y.s.token = None /\ y.s.boot = session.boot /\ y.a.shown = None
       /\ x.s.boot = session.boot /\ x.s.verifying = session.verifying
  <2>1. x.s \in SessionState /\ x.s.boot = session.boot /\ x.s.verifying = session.verifying
    BY <1>5, <1>9
  <2>2. Destroyed(x.s).token = None /\ Destroyed(x.s).boot = x.s.boot
    BY <2>1, DestroyedEffect
  <2>. QED  BY <1>8, <2>1, <2>2 DEF SignsOut
<1>11. NoNavigation.to = None /\ Humble(None)
  BY DEF NoNavigation, Humble
<1>12. sent' \in [Bounds -> Nat] /\ sent'.edits >= sent.edits
  BY CountedEffect, FrontendAssumption DEF Logout, Bounds, IInv, TypeInv, TypeOK
<1>13. overlap' \in BOOLEAN /\ login' \in Nat /\ expired' \subseteq Token
  BY <1>7, Unchanging
<1>14. y.a.saving = app.saving /\ y.a.dialog = NoDialog /\ y.a.uploads = 0
  BY <1>1, <1>5, <1>6, <1>7, <1>8 DEF Frame, Moved, Emptied
<1>15. DialogInv'
  BY <1>4, <1>6, <1>14, Becomes, DialogKept DEF IInv
<1>16. Viewed(y)
  BY <1>8, <1>10, <1>11 DEF Viewed, Emptied
<1>17. LoginInv'
  BY DEF Logout, Disturbed, LoginInv, LoneLogin
<1>18. TokenInv(y)
  BY <1>1, <1>6, <1>10, <1>11 DEF IInv, TokenInv
<1>19. ViewInv(y) /\ TextInv(y)
  BY <1>8, <1>14, <1>16, NoneTexts DEF ViewInv, Viewed, TextInv, Emptied
<1>20. overlap' \/ SessionInv(y)
  <2>1. CASE overlap \/ ~Quiet(session) \/ login > 0
    BY <1>7, <2>1 DEF Disturbed
  <2>2. CASE Quiet(session)
    BY <1>5, <1>6, <1>8, <1>10, <2>2, SignedOutSession DEF Quiet
  <2>. QED  BY <2>1, <2>2
<1>. QED  BY <1>4, <1>6, <1>7, <1>12, <1>13, <1>14, <1>15, <1>17, <1>18, <1>19, <1>20, Step

LEMMA LeaveWaitStep ==
    ASSUME IInv, LeaveWait
    PROVE  IInv'
<1> DEFINE w == [x0 EXCEPT !.a.waitUrl = None]
           d == IF app.waitUrl = None THEN Home ELSE app.waitUrl
           n == Navigated(w, d, "link")
           o == SentToAuthenticate(x0)
<1>1. x0 \in XState /\ x0.s = session /\ x0.a = app
  BY Now DEF IInv, TypeInv
<1>2. Like(x0, w) /\ Frame(x0, w)
  BY <1>1 DEF Like, XState, AppState, SameText, Frame
<1>3. d \in Document /\ "link" \in By /\ w \in XState
  BY <1>1, <1>2, FrontendAssumption DEF XState, AppState, By, Like
<1>4. app.page = "/wait" /\ session.ready
      /\ UNCHANGED <<writes, login, content, expired, sent, crossed, overlap>>
  BY DEF LeaveWait, history
<1>5. IF session.valid THEN Become(n) ELSE Become(o)
  BY DEF LeaveWait
<1> HIDE DEF w, d
<1> DEFINE Good(y) ==
             /\ y \in XState /\ Frame(x0, y) /\ y.a.uploads \in {0, app.uploads}
             /\ y.a.nav.to = None => y.a.nav = NoNavigation
             /\ TokenInv(x0) => TokenInv(y)
             /\ ViewInv(x0) => ViewInv(y)
             /\ TextInv(x0) => TextInv(y)
             /\ SessionInv(x0) => SessionInv(y)
             /\ Viewed(x0) /\ Humble(session.token) => Viewed(y) /\ Humble(y.s.token)
<1>6. Good(n)
  <2>1. /\ n \in XState /\ Frame(w, n) /\ n.a.uploads \in {0, w.a.uploads}
        /\ n.a.nav.to = None => n.a.nav = NoNavigation
        /\ TokenInv(w) => TokenInv(n)
        /\ ViewInv(w) => ViewInv(n)
        /\ TextInv(w) => TextInv(n)
        /\ SessionInv(w) => SessionInv(n)
        /\ Viewed(w) /\ Humble(w.s.token) => Viewed(n) /\ Humble(n.s.token)
    BY <1>3, NavigatedKeeps
  <2> HIDE DEF n
  <2>. QED  BY <1>1, <1>2, <2>1, LikeInv DEF Frame, Like, SameText
<1>7. ~session.valid => Good(o)
  <2> SUFFICES ASSUME ~session.valid
               PROVE  Good(o)
    OBVIOUS
  <2>1. /\ o \in XState /\ Moved(x0, o) /\ o.a.nav = NoNavigation
        /\ o.a.page = "/authenticate"
        /\ Stays(x0, o) \/ SignsOut(x0, o)
    BY <1>1, SentToAuthenticateEffect
  <2> HIDE DEF o
  <2>2. SignsOut(x0, o) /\ NoNavigation.to = None
    BY <1>1, <1>4, <2>1 DEF Stays, NoNavigation
  <2>3. SessionInv(x0) => Quiet(session)
    BY <1>1, <1>4 DEF SessionInv, Quiet
  <2>4. SessionInv(x0) => SessionInv(o)
    BY <1>1, <2>1, <2>2, <2>3, SignedOutSession
  <2>5. Frame(x0, o) /\ o.a.uploads \in {0, app.uploads}
    BY <1>1, <2>1 DEF Moved, SameText, Emptied
  <2>. QED  BY <1>1, <2>1, <2>2, <2>4, <2>5, MovedView, MovedToken
<1> DEFINE y == IF session.valid THEN n ELSE o
<1>8. Good(y) /\ Become(y)
  BY <1>5, <1>6, <1>7
<1> HIDE DEF y
<1>9. y.a.saving = app.saving /\ y.a.dialog = app.dialog /\ app' = y.a /\ session' = y.s
  BY <1>1, <1>8, Becomes DEF Frame
<1>10. DialogInv'
  BY <1>4, <1>9 DEF IInv, DialogInv
<1>11. LoginInv'
  BY <1>1, <1>4, <1>8, <1>9, Becomes DEF IInv, LoginInv, LoneLogin
<1>12. TokenInv(y) /\ ViewInv(y) /\ (TextInv(x0) => TextInv(y))
       /\ (overlap' \/ SessionInv(y))
  BY <1>4, <1>8 DEF IInv
<1>13. /\ overlap' \in BOOLEAN /\ login' \in Nat /\ expired' \subseteq Token
       /\ sent' \in [Bounds -> Nat] /\ sent'.edits >= sent.edits
  BY <1>4, Unchanging
<1>. QED  BY <1>4, <1>8, <1>10, <1>11, <1>12, <1>13, Step

LEMMA SubmitLoginStep ==
    ASSUME IInv, SubmitLogin
    PROVE  IInv'
<1> DEFINE y == [x0 EXCEPT !.s = Destroyed(@), !.a.loading = TRUE]
<1>1. x0 \in XState /\ x0.s = session /\ x0.a = app
  BY Now DEF IInv, TypeInv
<1>2. /\ Destroyed(session) \in SessionState /\ Destroyed(session).boot = session.boot
      /\ Destroyed(session).verifying = session.verifying
      /\ Destroyed(session).token = None /\ Destroyed(session).valid = FALSE
      /\ Destroyed(session).ready = TRUE
  BY DestroyedEffect DEF IInv, TypeInv, TypeOK
<1>3. /\ y \in XState /\ y.s = Destroyed(session)
      /\ Frame(x0, y) /\ SameText(x0, y)
      /\ y.a.page = app.page /\ y.a.nav = app.nav /\ y.a.shown = app.shown
  <2>1. y.s = Destroyed(session) /\ y.a \in AppState
    BY <1>1 DEF XState, AppState
  <2>2. y \in XState
    BY <1>1, <1>2, <2>1 DEF XState
  <2>3. /\ y.a.page = app.page /\ y.a.nav = app.nav /\ y.a.shown = app.shown
        /\ y.a.mode = app.mode /\ y.a.uploads = app.uploads /\ y.a.doc = app.doc
        /\ y.a.raw = app.raw /\ y.a.initial = app.initial
        /\ y.a.saving = app.saving /\ y.a.dialog = app.dialog
    BY <1>1 DEF XState, AppState
  <2> HIDE DEF y
  <2>. QED  BY <1>1, <2>1, <2>2, <2>3 DEF Frame, SameText
<1>4. /\ Become(y) /\ app.page = "/authenticate" /\ app.dialog = NoDialog /\ Disturbed
      /\ login' = login + 1 /\ UNCHANGED <<writes, content, expired, crossed>>
  BY DEF SubmitLogin
<1> HIDE DEF y
<1>5. sent' \in [Bounds -> Nat] /\ sent'.edits >= sent.edits
  BY CountedEffect, FrontendAssumption DEF SubmitLogin, Bounds, IInv, TypeInv, TypeOK
<1>6. overlap' \in BOOLEAN /\ login \in Nat /\ login' \in Nat /\ expired' \subseteq Token
  BY <1>4, Unchanging DEF IInv, TypeInv, TypeOK
<1>7. Humble(None)
  BY DEF Humble
<1>8. DialogInv'
  BY <1>1, <1>3, <1>4, Becomes, DialogKept DEF IInv, Frame
<1>9. Viewed(x0)
  BY <1>1, <1>4 DEF IInv, ViewInv
<1>10. LoginInv'
  <2>1. Viewed(y)
    BY <1>1, <1>3, <1>9 DEF Viewed, SameText
  <2>2. LoneLogin' => login' = 1
    <3>1. login > 0 => overlap'
      BY DEF SubmitLogin, Disturbed
    <3>. QED  BY <1>4, <1>6, <3>1 DEF LoneLogin
  <2>3. app'.dialog = NoDialog /\ Viewed(x0)'
    BY <1>1, <1>3, <1>4, <2>1, Becomes DEF Frame
  <2>4. Humble(session.token)'
    BY <1>2, <1>3, <1>4, <1>7, Becomes
  <2>. QED  BY <2>2, <2>3, <2>4 DEF LoginInv
<1>11. TokenInv(y) /\ ViewInv(y) /\ (TextInv(x0) => TextInv(y))
  BY <1>1, <1>2, <1>3, <1>7, <1>9 DEF IInv, TokenInv, ViewInv, Viewed, TextInv, SameText
<1>12. overlap' \/ SessionInv(y)
  <2>1. CASE overlap \/ ~Quiet(session) \/ login > 0
    BY <1>4, <2>1 DEF Disturbed
  <2>2. CASE Quiet(session) /\ SessionInv(x0)
    <3>1. app.shown = None
      BY <1>1, <1>4, <2>2 DEF SessionInv, Quiet
    <3>. QED  BY <1>2, <1>3, <2>2, <3>1 DEF SessionInv, Quiet, hasToken
  <2>. QED  BY <2>1, <2>2 DEF IInv
<1>13. Frame(x0, y) /\ y.a.uploads = app.uploads
       /\ (y.a.nav.to = None => y.a.nav = NoNavigation)
  BY <1>1, <1>3 DEF SameText, IInv, TypeInv
<1>. QED  BY <1>3, <1>4, <1>5, <1>6, <1>8, <1>10, <1>11, <1>12, <1>13, Step

\* What the answers to the session have in common: app is as it was, or shows the
\* authorizations of a token.
LEMMA SessionStep ==
    ASSUME IInv, NEW y \in XState, Become(y), UNCHANGED <<writes, content, crossed, login, sent>>,
           overlap' \in BOOLEAN, overlap => overlap', expired' \subseteq Token,
           Frame(x0, y), SameText(x0, y), y.a.page = app.page, y.a.nav = app.nav,
           y.a.shown \in {app.shown, y.s.token},
           y.s.token = session.token \/ Humble(y.s.token),
           TokenInv(y), overlap' \/ SessionInv(y)
    PROVE  IInv'
<1>1. x0 \in XState /\ x0.s = session /\ x0.a = app
  BY Now DEF IInv, TypeInv
<1>2. /\ sent' \in [Bounds -> Nat] /\ sent'.edits >= sent.edits
      /\ login' \in Nat
  BY Unchanging
<1>3. app' = y.a /\ session' = y.s
  BY Becomes
<1>4. DialogInv'
  BY <1>1, <1>3, DialogKept DEF IInv, Frame, SameText
<1>5. Humble(session.token) /\ Viewed(x0) => Humble(y.s.token) /\ Viewed(y)
  BY <1>1 DEF Viewed, SameText
<1>6. LoginInv'
  <2>1. LoneLogin' => LoneLogin
    BY DEF LoneLogin
  <2>. QED  BY <1>1, <1>3, <1>5, <2>1, Becomes DEF IInv, LoginInv, Frame
<1>7. ViewInv(y)
  <2>1. y.a.page = "/authenticate" => Humble(y.s.token)
    BY DEF TokenInv
  <2>2. y.a.page = "/authenticate" => Viewed(y)
    BY <1>1, <2>1 DEF IInv, ViewInv, Viewed, SameText
  <2>. QED  BY <1>1, <2>2 DEF IInv, ViewInv, SameText
<1>8. TextInv(x0) => TextInv(y)
  BY <1>1 DEF TextInv, SameText
<1>9. y.a.uploads \in {0, app.uploads} /\ (y.a.nav.to = None => y.a.nav = NoNavigation)
  BY <1>1 DEF SameText, IInv, TypeInv
<1>. QED  BY <1>2, <1>4, <1>6, <1>7, <1>8, <1>9, Step

LEMMA AnswerVerifyStep ==
    ASSUME IInv, NEW token \in Token, AnswerVerify(token)
    PROVE  IInv'
<1>1. x0 \in XState /\ x0.s = session /\ x0.a = app /\ session \in SessionState
  BY Now DEF IInv, TypeInv, TypeOK
<1>2. token \in session.verifying
      /\ UNCHANGED <<writes, login, content, expired, sent, crossed, overlap>>
  BY DEF AnswerVerify, history
<1>3. overlap' \in BOOLEAN /\ (overlap => overlap') /\ expired' \subseteq Token
  BY <1>2, Unchanging
<1>4. SessionInv(x0) =>
        /\ session.boot.at = "none" /\ session.verifying \ {token} = {}
        /\ session.token = token /\ token # None /\ app.shown = None
        /\ app.page # "/authenticate"
  BY <1>1, <1>2 DEF SessionInv
<1>5. CASE Become(AuthenticationUpdated([x0 EXCEPT !.s = VerifySucceeded(@, token)]))
  <2> DEFINE v == [x0 EXCEPT !.s = VerifySucceeded(@, token)]
             y == AuthenticationUpdated(v)
  <2>1. /\ VerifySucceeded(session, token) \in SessionState
        /\ VerifySucceeded(session, token).token = session.token
        /\ VerifySucceeded(session, token).valid = TRUE
        /\ VerifySucceeded(session, token).ready = TRUE
        /\ VerifySucceeded(session, token).verifying = session.verifying \ {token}
        /\ VerifySucceeded(session, token).boot = session.boot
    BY <1>1, VerifySucceededEffect
  <2>2. v \in XState /\ v.s = VerifySucceeded(session, token) /\ v.a = app
    BY <1>1, <2>1 DEF XState
  <2> HIDE DEF v
  <2>3. /\ y \in XState /\ Frame(v, y) /\ SameText(v, y)
        /\ y.s = v.s /\ y.a.page = v.a.page /\ y.a.nav = v.a.nav
        /\ y.a.shown = IF v.s.valid THEN v.s.token ELSE None
    BY <2>2, AuthenticationUpdatedEffect
  <2>4. Become(y)
    BY <1>5 DEF v
  <2> HIDE DEF y
  <2>5. Frame(x0, y) /\ SameText(x0, y) /\ y.a.shown = y.s.token /\ y.s.token = session.token
    BY <1>1, <2>1, <2>2, <2>3 DEF Frame, SameText
  <2>6. TokenInv(y)
    BY <1>1, <2>1, <2>2, <2>3 DEF IInv, TokenInv
  <2>7. overlap' \/ SessionInv(y)
    <3>1. SessionInv(x0) => SessionInv(y)
      BY <1>4, <2>1, <2>2, <2>3 DEF SessionInv, Quiet, hasToken
    <3>. QED  BY <1>2, <3>1 DEF IInv
  <2>. QED  BY <1>2, <1>3, <2>2, <2>3, <2>4, <2>5, <2>6, <2>7, SessionStep
<1>6. CASE Become([x0 EXCEPT !.s = VerifyFailed(@, token)])
  <2> DEFINE y == [x0 EXCEPT !.s = VerifyFailed(@, token)]
             f == VerifyFailed(session, token)
  <2>1. /\ f \in SessionState
        /\ f.token = None /\ f.valid = FALSE /\ f.verifying = session.verifying \ {token}
        /\ session.boot.at # "none" => f.boot = session.boot
        /\ session.boot.at = "none" =>
              f.boot.at = "jwt" /\ f.boot.navigates = FALSE /\ f.ready = FALSE
    BY <1>1, VerifyFailedEffect
  <2> HIDE DEF f
  <2>2. y \in XState /\ y.s = f /\ y.a = app
    BY <1>1, <2>1 DEF XState, f
  <2>3. Become(y)
    BY <1>6
  <2> HIDE DEF y
  <2>4. Humble(None)
    BY DEF Humble
  <2>5. TokenInv(y)
    BY <1>1, <2>1, <2>2, <2>4 DEF IInv, TokenInv
  <2>6. overlap' \/ SessionInv(y)
    <3>1. SessionInv(x0) => SessionInv(y)
      BY <1>4, <2>1, <2>2 DEF SessionInv, Quiet, hasToken
    <3>. QED  BY <1>2, <3>1 DEF IInv
  <2>7. Frame(x0, y) /\ SameText(x0, y)
    BY <1>1, <2>2 DEF Frame, SameText
  <2>. QED  BY <1>2, <1>3, <2>1, <2>2, <2>3, <2>4, <2>5, <2>6, <2>7, SessionStep
<1>. QED  BY <1>5, <1>6 DEF AnswerVerify

\* The end of a bootstrap request, by which a navigation goes on.
LEMMA AwaitedStep ==
    ASSUME IInv, NEW x \in XState, NEW navigates \in BOOLEAN, Become(BootAwaited(x, navigates)),
           UNCHANGED <<writes, content, crossed, login, sent>>,
           overlap' \in BOOLEAN, overlap => overlap', expired' \subseteq Token,
           Frame(x0, x), SameText(x0, x), x.a.page = app.page, x.a.nav = app.nav,
           x.a.shown \in {app.shown, x.s.token},
           Humble(x.s.token) \/ (x.s.token = session.token /\ x.s.valid),
           TokenInv(x),
           \/ overlap'
           \/ /\ Quiet(x.s) /\ x.s.ready /\ (x.s.valid <=> hasToken(x.s))
              /\ x.s.valid => /\ x.a.shown = x.s.token /\ x.s.token = Guest
                              /\ app.page = "/authenticate" => app.nav.to # None
              /\ ~x.s.valid => x.a.shown = None \/ (navigates /\ app.page # "/authenticate")
    PROVE  IInv'
<1> DEFINE y == BootAwaited(x, navigates)
<1>1. x0 \in XState /\ x0.s = session /\ x0.a = app
  BY Now DEF IInv, TypeInv
<1>2. x.a.nav.to = None => x.a.nav = NoNavigation
  BY DEF IInv, TypeInv
<1>3. /\ y \in XState /\ Moved(x, y) /\ y.a.nav = NoNavigation
      /\ Stays(x, y) \/ (Enters(x, y) /\ x.s.valid /\ y.a.page \in Document) \/ SignsOut(x, y)
      /\ x.a.nav.to = None /\ ~(navigates /\ ~x.s.valid) => y = x
      /\ navigates /\ ~x.s.valid => y.a.page = "/authenticate"
      /\ x.s.valid /\ "read" \in Allowed(x.s.token) /\ x.a.nav.to # None
            => y.a.page = x.a.nav.to
  BY <1>2, BootAwaitedEffect
<1> HIDE DEF y
<1>4. Become(y)
  BY DEF y
<1>5. app' = y.a /\ session' = y.s
  BY <1>3, <1>4, Becomes
<1>6. NoNavigation.to = None /\ "/authenticate" \notin Document /\ "/wait" \notin Document
      /\ "/authenticate" # "/wait" /\ Humble(None)
  BY FrontendAssumption DEF NoNavigation, Humble
<1>7. x.s \in SessionState
  BY DEF XState
<1>8. SignsOut(x, y) => y.s.token = None /\ y.a.page = "/authenticate"
  BY <1>7, DestroyedEffect DEF SignsOut
<1>9. TokenInv(y)
  BY <1>3, <1>6, MovedToken
<1>10. Humble(session.token) /\ Viewed(x0) => Humble(x.s.token) /\ Viewed(x)
  BY <1>1 DEF Viewed, SameText
<1>11. ViewInv(x)
  <2>1. x.a.page = "/authenticate" => Humble(x.s.token)
    BY DEF TokenInv
  <2>2. x.a.page = "/authenticate" => Viewed(x)
    BY <1>1, <2>1 DEF IInv, ViewInv, Viewed, SameText
  <2>. QED  BY <1>1, <2>2 DEF IInv, ViewInv, SameText
<1>12. TextInv(x0) => TextInv(x)
  BY <1>1 DEF TextInv, SameText
<1>13. /\ ViewInv(y) /\ (TextInv(x0) => TextInv(y))
       /\ Humble(session.token) /\ Viewed(x0) => Humble(y.s.token) /\ Viewed(y)
  BY <1>3, <1>10, <1>11, <1>12, MovedView
<1>14. Frame(x0, y) /\ y.a.uploads \in {0, app.uploads}
  BY <1>1, <1>3 DEF Frame, Moved, SameText, Emptied
<1>15. LoginInv'
  <2>1. LoneLogin' => LoneLogin
    BY DEF LoneLogin
  <2>. QED  BY <1>1, <1>3, <1>4, <1>5, <1>13, <1>14, <2>1, Becomes DEF IInv, LoginInv, Frame
<1>16. DialogInv'
  <2>1. y.a.page = app.page \/ y.a.page # "/wait"
    BY <1>3, <1>6, <1>8 DEF Stays
  <2>2. Humble(y.s.token) \/ y = x
    <3>1. CASE Humble(x.s.token)
      BY <1>3, <1>6, <1>8, <3>1 DEF Stays, Enters
    <3>2. CASE ~Humble(x.s.token)
      BY <1>3, <3>2 DEF TokenInv
    <3>. QED  BY <3>1, <3>2
  <2>3. Humble(y.s.token) \/ (y.s.token = session.token /\ y.a.raw = app.raw /\ y.a.page = app.page)
    BY <1>1, <2>2 DEF SameText
  <2>. QED  BY <1>1, <1>5, <1>14, <2>1, <2>3, DialogKept DEF IInv, Frame
<1>17. overlap' \/ SessionInv(y)
  <2> SUFFICES ASSUME ~overlap'
               PROVE  SessionInv(y)
    OBVIOUS
  <2>1. Quiet(x.s)
    OBVIOUS
  <2>2. CASE SignsOut(x, y)
    BY <1>3, <2>1, <2>2, SignedOutSession
  <2>3. CASE Enters(x, y) /\ x.s.valid
    BY <2>1, <2>3 DEF SessionInv, Enters, Quiet
  <2>4. CASE Stays(x, y) /\ x.s.valid
    <3>1. "read" \in Allowed(x.s.token)
      BY <2>4, FrontendAssumption, SessionAssumption DEF Allowed
    <3>2. x.a.nav.to \in Document \cup {None}
      BY NavTypes
    <3>3. y.a.page # "/authenticate"
      BY <1>3, <1>6, <2>4, <3>1, <3>2 DEF Stays
    <3>. QED  BY <2>1, <2>4, <3>3 DEF SessionInv, Stays, Quiet
  <2>5. CASE Stays(x, y) /\ ~x.s.valid
    <3>1. y.a.shown = None
      BY <1>3, <2>5 DEF Stays
    <3>. QED  BY <2>1, <2>5, <3>1 DEF SessionInv, Stays, Quiet, hasToken
  <2>. QED  BY <1>3, <2>2, <2>3, <2>4, <2>5
<1>18. /\ sent' \in [Bounds -> Nat] /\ sent'.edits >= sent.edits
       /\ login' \in Nat
  BY Unchanging
<1>. QED  BY <1>3, <1>4, <1>9, <1>13, <1>14, <1>15, <1>16, <1>17, <1>18, Step

LEMMA BootFailedStep ==
    ASSUME IInv, session.boot.at # "none",
           Become(BootAwaited([x0 EXCEPT !.s = BootFailed(@)], session.boot.navigates)),
           UNCHANGED <<writes, content, crossed, login, sent, expired>>,
           overlap' \in BOOLEAN, overlap => overlap'
    PROVE  IInv'
<1> DEFINE x == [x0 EXCEPT !.s = BootFailed(@)]
           f == BootFailed(session)
<1>1. x0 \in XState /\ x0.s = session /\ x0.a = app /\ session \in SessionState
  BY Now DEF IInv, TypeInv, TypeOK
<1>2. /\ f \in SessionState /\ f.token = None /\ f.valid = FALSE /\ f.ready = TRUE
      /\ f.verifying = session.verifying /\ f.boot.at = "none"
  BY <1>1, BootEndedEffect
<1> HIDE DEF f
<1>3. x \in XState /\ x.s = f /\ x.a = app
  BY <1>1, <1>2 DEF XState, f
<1>4. Become(BootAwaited(x, session.boot.navigates))
  OBVIOUS
<1> HIDE DEF x
<1>5. session.boot.navigates \in BOOLEAN
  BY <1>1 DEF SessionState
<1>6. Humble(x.s.token) /\ TokenInv(x)
  BY <1>2, <1>3 DEF TokenInv, Humble
<1>7. Frame(x0, x) /\ SameText(x0, x)
  BY <1>1, <1>3 DEF Frame, SameText
<1>8. SessionInv(x0) =>
        /\ Quiet(x.s)
        /\ app.shown = None \/ (session.boot.navigates /\ app.page # "/authenticate")
  BY <1>1, <1>2, <1>3 DEF SessionInv, Quiet
<1>9. overlap' \/ SessionInv(x0)
  BY DEF IInv
<1>10. expired' \subseteq Token
  BY Unchanging
<1>11. x.s.ready /\ (x.s.valid <=> hasToken(x.s)) /\ ~x.s.valid
  BY <1>2, <1>3 DEF hasToken
<1>. QED  BY <1>3, <1>4, <1>5, <1>6, <1>7, <1>8, <1>9, <1>10, <1>11, AwaitedStep

LEMMA AnswerBootTokenStep ==
    ASSUME IInv, AnswerBootToken
    PROVE  IInv'
<1>1. x0 \in XState /\ x0.s = session /\ x0.a = app /\ session \in SessionState
  BY Now DEF IInv, TypeInv, TypeOK
<1>2. session.boot.at = "jwt" /\ UNCHANGED <<writes, login, content, sent, crossed>>
      /\ overlap' = (overlap \/ hasToken(session) \/ login > 0)
  BY DEF AnswerBootToken
<1>3. overlap' \in BOOLEAN /\ (overlap => overlap')
  BY <1>2 DEF hasToken
<1>4. CASE expired' = expired \ {Guest} /\ Become([x0 EXCEPT !.s = BootTokenArrived(@)])
  <2> DEFINE y == [x0 EXCEPT !.s = BootTokenArrived(@)]
             b == BootTokenArrived(session)
  <2>1. /\ b \in SessionState
        /\ b.token = Guest /\ b.valid = session.valid /\ b.ready = session.ready
        /\ b.verifying = session.verifying
        /\ b.boot.at = "verify" /\ b.boot.token = Guest
        /\ b.boot.navigates = session.boot.navigates
    BY <1>1, BootTokenArrivedEffect
  <2> HIDE DEF b
  <2>2. y \in XState /\ y.s = b /\ y.a = app
    BY <1>1, <2>1 DEF XState, b
  <2>3. Become(y)
    BY <1>4
  <2> HIDE DEF y
  <2>4. Humble(Guest)
    BY DEF Humble
  <2>5. TokenInv(y)
    BY <2>1, <2>2, <2>4 DEF TokenInv
  <2>6. SessionInv(x0) => SessionInv(y)
    BY <1>1, <1>2, <2>1, <2>2 DEF SessionInv, Quiet
  <2>7. overlap' \/ SessionInv(y)
    BY <1>2, <2>6 DEF IInv
  <2>8. Frame(x0, y) /\ SameText(x0, y)
    BY <1>1, <2>2 DEF Frame, SameText
  <2>9. expired' \subseteq Token
    BY <1>4 DEF IInv, TypeInv, TypeOK
  <2>. QED  BY <1>2, <1>3, <2>1, <2>2, <2>3, <2>4, <2>5, <2>7, <2>8, <2>9, SessionStep
<1>5. CASE /\ UNCHANGED expired
           /\ Become(BootAwaited([x0 EXCEPT !.s = BootFailed(@)], session.boot.navigates))
  BY <1>2, <1>3, <1>5, BootFailedStep
<1>. QED  BY <1>4, <1>5 DEF AnswerBootToken

LEMMA AnswerBootVerifyStep ==
    ASSUME IInv, AnswerBootVerify
    PROVE  IInv'
<1>1. x0 \in XState /\ x0.s = session /\ x0.a = app /\ session \in SessionState
  BY Now DEF IInv, TypeInv, TypeOK
<1>2. session.boot.at = "verify" /\ UNCHANGED <<writes, login, content, sent, crossed, expired>>
      /\ overlap' = (overlap \/ session.token # session.boot.token \/ login > 0)
  BY DEF AnswerBootVerify
<1>3. overlap' \in BOOLEAN /\ (overlap => overlap')
  BY <1>2
<1>4. CASE Become(BootAwaited(AuthenticationUpdated([x0 EXCEPT !.s = BootSucceeded(@)]),
                              session.boot.navigates))
  <2> DEFINE v == [x0 EXCEPT !.s = BootSucceeded(@)]
             b == BootSucceeded(session)
             x == AuthenticationUpdated(v)
  <2>1. /\ b \in SessionState /\ b.token = session.token /\ b.valid = TRUE /\ b.ready = TRUE
        /\ b.verifying = session.verifying /\ b.boot.at = "none"
    BY <1>1, BootEndedEffect
  <2> HIDE DEF b
  <2>2. v \in XState /\ v.s = b /\ v.a = app
    BY <1>1, <2>1 DEF XState, b
  <2> HIDE DEF v
  <2>3. /\ x \in XState /\ Frame(v, x) /\ SameText(v, x)
        /\ x.s = v.s /\ x.a.page = v.a.page /\ x.a.nav = v.a.nav
        /\ x.a.shown = IF v.s.valid THEN v.s.token ELSE None
    BY <2>2, AuthenticationUpdatedEffect
  <2>4. Become(BootAwaited(x, session.boot.navigates))
    BY <1>4 DEF v
  <2> HIDE DEF x
  <2>5. Frame(x0, x) /\ SameText(x0, x) /\ x.a.shown = session.token /\ x.s.token = session.token
        /\ x.s.valid
    BY <1>1, <2>1, <2>2, <2>3 DEF Frame, SameText
  <2>6. TokenInv(x)
    BY <1>1, <2>1, <2>2, <2>3 DEF IInv, TokenInv
  <2>7. session.boot.navigates \in BOOLEAN
    BY <1>1 DEF SessionState
  <2>8. ~overlap' => /\ Quiet(x.s) /\ x.s.token = Guest
                     /\ app.page = "/authenticate" => app.nav.to # None
    <3>1. TokenInv(x0) /\ (~overlap' => SessionInv(x0) /\ session.token = session.boot.token)
      BY <1>2 DEF IInv
    <3>. QED  BY <1>1, <1>2, <2>1, <2>2, <2>3, <3>1 DEF TokenInv, SessionInv, Quiet
  <2>9. x.s.token = Guest => hasToken(x.s)
    BY SessionAssumption DEF hasToken
  <2>10. expired' \subseteq Token
    BY <1>2, Unchanging
  <2>11. x.s.ready
    BY <2>1, <2>2, <2>3
  <2>. QED  BY <1>2, <1>3, <2>2, <2>3, <2>4, <2>5, <2>6, <2>7, <2>8, <2>9, <2>10, <2>11, AwaitedStep
<1>5. CASE Become(BootAwaited([x0 EXCEPT !.s = BootFailed(@)], session.boot.navigates))
  BY <1>2, <1>3, <1>5, BootFailedStep
<1>. QED  BY <1>4, <1>5 DEF AnswerBootVerify

LEMMA FireTimerStep ==
    ASSUME IInv, FireTimer
    PROVE  IInv'
<1> DEFINE y == [x0 EXCEPT !.s = TimerFired(@, expired)]
           t == TimerFired(session, expired)
<1>1. x0 \in XState /\ x0.s = session /\ x0.a = app /\ session \in SessionState
  BY Now DEF IInv, TypeInv, TypeOK
<1>2. session.token \in expired /\ Disturbed
      /\ UNCHANGED <<writes, login, content, expired, sent, crossed>> /\ Become(y)
  BY DEF FireTimer
<1>3. /\ t \in SessionState
      /\ t.token = None /\ t.valid = FALSE /\ t.verifying = session.verifying
      /\ t.boot.navigates = TRUE
      /\ t.boot.at # "none"
      /\ session.boot.at # "none" =>
            t.boot.at = session.boot.at /\ t.boot.token = session.boot.token
      /\ session.boot.at = "none" => t.boot.at = "jwt" /\ t.ready = FALSE
  BY <1>1, <1>2, TimerFiredEffect
<1> HIDE DEF t
<1>4. y \in XState /\ y.s = t /\ y.a = app
  BY <1>1, <1>3 DEF XState, t
<1> HIDE DEF y
<1>5. Humble(None)
  BY DEF Humble
<1>6. TokenInv(y)
  BY <1>1, <1>3, <1>4, <1>5 DEF IInv, TokenInv
<1>7. overlap' \/ SessionInv(y)
  <2>1. CASE overlap \/ ~Quiet(session) \/ login > 0
    BY <1>2, <2>1 DEF Disturbed
  <2>2. CASE Quiet(session) /\ SessionInv(x0)
    <3>1. session.token # None
      BY <1>2, SessionAssumption DEF IInv, TypeInv, TypeOK
    <3>2. app.page # "/authenticate"
      BY <1>1, <2>2, <3>1 DEF SessionInv, Quiet
    <3>. QED  BY <1>3, <1>4, <2>2, <3>2 DEF SessionInv, Quiet
  <2>. QED  BY <2>1, <2>2 DEF IInv
<1>8. Frame(x0, y) /\ SameText(x0, y)
  BY <1>1, <1>4 DEF Frame, SameText
<1>9. overlap' \in BOOLEAN /\ (overlap => overlap') /\ expired' \subseteq Token
  BY <1>2, Unchanging DEF Disturbed
<1>. QED  BY <1>2, <1>3, <1>4, <1>5, <1>6, <1>7, <1>8, <1>9, SessionStep

LEMMA ExpireStep ==
    ASSUME IInv, NEW token \in Token, Expire(token)
    PROVE  IInv'
<1>1. x0 \in XState /\ x0.s = session /\ x0.a = app
  BY Now DEF IInv, TypeInv
<1>2. /\ UNCHANGED <<session, app, writes, login, content, crossed, overlap>>
      /\ expired' = expired \cup {token}
  BY DEF Expire, history
<1>3. Become(x0)
  BY <1>1, <1>2 DEF Become
<1>4. expired' \subseteq Token /\ overlap' \in BOOLEAN /\ login' \in Nat
  BY <1>2 DEF IInv, TypeInv, TypeOK
<1>5. sent' \in [Bounds -> Nat] /\ sent'.edits >= sent.edits
  BY CountedEffect, FrontendAssumption DEF Expire, Bounds, IInv, TypeInv, TypeOK
<1>6. DialogInv' /\ LoginInv'
  BY <1>2 DEF IInv, DialogInv, LoginInv, Viewed, x0, LoneLogin
<1>7. Frame(x0, x0) /\ (x0.a.nav.to = None => x0.a.nav = NoNavigation)
  BY <1>1 DEF Frame, IInv, TypeInv
<1>8. TokenInv(x0) /\ ViewInv(x0) /\ (overlap' \/ SessionInv(x0))
  BY <1>2 DEF IInv
<1>. QED  BY <1>1, <1>2, <1>3, <1>4, <1>5, <1>6, <1>7, <1>8, Step

LEMMA AnswerLoginStep ==
    ASSUME IInv, AnswerLogin
    PROVE  IInv'
<1>1. /\ x0 \in XState /\ x0.s = session /\ x0.a = app /\ session \in SessionState
      /\ login \in Nat
  BY Now DEF IInv, TypeInv, TypeOK
<1>2. /\ login > 0 /\ login' = login - 1 /\ login' \in Nat
      /\ UNCHANGED <<writes, content, expired, sent>>
  <2>1. login > 0 /\ login' = login - 1 /\ UNCHANGED <<writes, content, expired, sent>>
    BY Zenon DEF AnswerLogin
  <2>2. login' \in Nat
    BY <1>1, <2>1
  <2>. QED  BY <2>1, <2>2
<1>3. (overlap => overlap') => LoginInv'
  BY <1>1, <1>2 DEF IInv, LoginInv, LoneLogin
<1>4. expired' \subseteq Token /\ sent' \in [Bounds -> Nat] /\ sent'.edits >= sent.edits
  BY <1>2, Unchanging
<1>5. ASSUME NEW loading \in BOOLEAN, Become([x0 EXCEPT !.a.loading = loading]),
             UNCHANGED history
      PROVE  IInv'
  <2> DEFINE y == [x0 EXCEPT !.a.loading = loading]
  <2>1. Like(x0, y) /\ Frame(x0, y) /\ y.a.uploads = app.uploads /\ y.a.nav = app.nav
    BY <1>1 DEF Like, XState, AppState, SameText, Frame
  <2>2. UNCHANGED <<crossed, overlap>> /\ overlap' \in BOOLEAN
    BY <1>5 DEF history, IInv, TypeInv, TypeOK
  <2>3. Become(y)
    BY <1>5
  <2> HIDE DEF y
  <2>4. DialogInv'
    BY <1>1, <2>1, <2>2, <2>3, Becomes DEF IInv, DialogInv, Like, Frame, SameText
  <2>5. TokenInv(y) /\ ViewInv(y) /\ (TextInv(x0) => TextInv(y)) /\ (overlap' \/ SessionInv(y))
    BY <1>1, <2>1, <2>2, LikeInv DEF IInv
  <2>6. y \in XState /\ (y.a.nav.to = None => y.a.nav = NoNavigation)
    BY <2>1 DEF Like, IInv, TypeInv
  <2>. QED  BY <1>2, <1>3, <1>4, <2>1, <2>2, <2>3, <2>4, <2>5, <2>6, Step
<1>6. ASSUME NEW token \in Token, token \notin expired,
             LET x == [x0 EXCEPT !.s = LoggedIn(@, token, expired), !.a.waitUrl = None]
             IN  Become(Navigated(x, IF app.waitUrl = None THEN Home ELSE app.waitUrl, "link")),
             overlap' = (overlap \/ ~Quiet(session) \/ hasToken(session)),
             crossed' = (crossed \/ app.dialog.kind = "image")
      PROVE  IInv'
  <2> DEFINE x == [x0 EXCEPT !.s = LoggedIn(@, token, expired), !.a.waitUrl = None]
             d == IF app.waitUrl = None THEN Home ELSE app.waitUrl
             l == LoggedIn(session, token, expired)
             y == Navigated(x, d, "link")
  <2>1. /\ l \in SessionState
        /\ l.token = token /\ l.valid = session.valid /\ l.ready = FALSE
        /\ l.verifying = session.verifying \cup {token} /\ l.boot = session.boot
    BY <1>1, <1>6, LoggedInEffect
  <2> HIDE DEF l
  <2>2. /\ x \in XState /\ x.s = l /\ Frame(x0, x) /\ SameText(x0, x)
        /\ x.a.page = app.page /\ x.a.shown = app.shown
    BY <1>1, <2>1 DEF XState, AppState, Frame, SameText, l
  <2>3. Become(y)
    BY <1>6
  <2>4. d \in Document /\ "link" \in By
    BY <1>1, FrontendAssumption DEF XState, AppState, By
  <2> HIDE DEF x, d
  <2>5. /\ y \in XState /\ Moved(x, y)
        /\ Stays(x, y) \/ Enters(x, y) \/ (SignsOut(x, y) /\ x.s.valid) \/ Waits(x, y)
        /\ ~x.s.ready => y.a.page # "/authenticate" /\ y.a.nav = NoNavigation
    BY <2>2, <2>4, NavigatedEffect
  <2> HIDE DEF y
  <2>6. /\ Stays(x, y) \/ Enters(x, y)
        /\ y.a.page # "/authenticate" /\ y.a.nav = NoNavigation
    BY <2>1, <2>2, <2>5 DEF SignsOut, Waits
  <2>7. y.s = l
    BY <2>2, <2>6 DEF Stays, Enters
  <2>8. NoNavigation.to = None
    BY DEF NoNavigation
  <2>9. TokenInv(y)
    BY <1>1, <2>1, <2>6, <2>7, <2>8 DEF IInv, TokenInv
  <2>10. ViewInv(x) /\ (TextInv(x0) => TextInv(x))
    BY <1>1, <2>2 DEF IInv, ViewInv, Viewed, TextInv, SameText
  <2>11. ViewInv(y) /\ (TextInv(x0) => TextInv(y))
    BY <2>2, <2>5, <2>6, <2>10, MovedView
  <2>12. overlap' \in BOOLEAN
    BY <1>6 DEF hasToken
  <2>13. overlap' \/ SessionInv(y)
    <3> SUFFICES ASSUME ~overlap'
                 PROVE  SessionInv(y)
      OBVIOUS
    <3>1. Quiet(session) /\ ~hasToken(session) /\ SessionInv(x0)
      BY <1>6 DEF IInv
    <3>2. ~session.valid /\ app.shown = None /\ session.verifying = {} /\ session.boot.at = "none"
      BY <1>1, <3>1 DEF SessionInv, Quiet, hasToken
    <3>3. y.a.shown = None
      BY <2>1, <2>2, <2>6, <3>2 DEF Stays, Enters
    <3>4. token # None
      BY SessionAssumption
    <3>. QED  BY <2>1, <2>6, <2>7, <3>2, <3>3, <3>4 DEF SessionInv, Quiet
  <2>14. Frame(x0, y) /\ y.a.uploads \in {0, app.uploads}
    BY <1>1, <2>2, <2>5 DEF Frame, Moved, SameText, Emptied
  <2>15. DialogInv'
    BY <1>1, <1>6, <2>3, <2>5, <2>14, Becomes DEF DialogInv, Frame
  <2>16. crossed' \in BOOLEAN /\ (crossed => crossed') /\ LoginInv'
    BY <1>3, <1>6 DEF IInv, TypeInv, TypeOK
  <2>. QED  BY <1>2, <1>4, <2>3, <2>5, <2>6, <2>9, <2>11, <2>12, <2>13, <2>14, <2>15, <2>16,
               CrossingStep
<1>7. ASSUME UNCHANGED history, NEW loading \in {FALSE, app.loading},
             Become([x0 EXCEPT !.a.loading = loading])
      PROVE  IInv'
  <2>1. loading \in BOOLEAN
    BY <1>1 DEF XState, AppState
  <2>. QED  BY <1>5, <1>7, <2>1
<1>. QED  BY <1>6, <1>7, Zenon DEF AnswerLogin

----------------------------------------------------------------------------
(* The steps: editing.                                                     *)

\* A step of the editor or of a dialog, on the same page and with the same session.
LEMMA EditStep ==
    ASSUME IInv, NEW y \in XState, Become(y),
           UNCHANGED <<writes, login, content, expired, overlap>>,
           crossed' \in BOOLEAN, crossed => crossed',
           sent' \in [Bounds -> Nat], y.a.uploads <= sent'.edits,
           Stays(x0, y), y.a.nav = app.nav, y.a.saving = app.saving,
           y.a.dialog.kind = "delete" => y.a.dialog.path \in Page,
           y.a.dialog.kind \in {"delete", "image", "versions"} => ~app.saving,
           DialogInv', LoneLogin => Viewed(y) /\ y.a.dialog = NoDialog, ViewInv(y),
           crossed' \/ TextInv(y)
    PROVE  IInv'
<1>1. x0 \in XState /\ x0.s = session /\ x0.a = app
  BY Now DEF IInv, TypeInv
<1>2. session' = session /\ app' = y.a /\ app' \in AppState /\ y.s = session
      /\ y.a.page = app.page /\ y.a.shown = app.shown
  BY <1>1, Becomes DEF Stays
<1>3. TypeOK'
  BY <1>2 DEF IInv, TypeInv, TypeOK
<1>4. TypeInv'
  BY <1>2, <1>3 DEF IInv, TypeInv
<1>5. SavingInv' /\ SavedTextBelongs'
  BY <1>2 DEF IInv, SavingInv, SavedTextBelongs
<1>6. LoginInv'
  BY <1>1, <1>2, Becomes DEF IInv, LoginInv, LoneLogin
<1>7. TokenInv(y)
  BY <1>1, <1>2 DEF IInv, TokenInv
<1>8. overlap \/ SessionInv(y)
  BY <1>1, <1>2 DEF IInv, SessionInv
<1>9. TokenInv(x0)' /\ ViewInv(x0)'
  BY <1>7, Becomes
<1>10. crossed' \/ TextInv(x0)'
  BY Becomes
<1>11. overlap' \/ SessionInv(x0)'
  BY <1>8, Becomes
<1>12. (crossed \/ TextInv(x0))' /\ (overlap \/ SessionInv(x0))'
  BY <1>10, <1>11
<1>. QED  BY <1>4, <1>5, <1>6, <1>9, <1>12 DEF IInv

\* The facts that most steps use.
LEMMA Facts ==
    ASSUME IInv
    PROVE  /\ x0 \in XState /\ x0.s = session /\ x0.a = app
           /\ app \in AppState /\ session \in SessionState
           /\ crossed \in BOOLEAN /\ sent \in [Bounds -> Nat]
           /\ app.uploads \in Nat /\ sent.edits \in Nat /\ app.uploads <= sent.edits
           /\ UNCHANGED crossed => crossed' \in BOOLEAN
           /\ LoneLogin => ~("write" \in Allowed(app.shown)) /\ app.mode = "view"
                       /\ app.dialog = NoDialog
           /\ app.page = "/authenticate" => ~("write" \in Allowed(app.shown)) /\ app.mode = "view"
<1>1. x0 \in XState /\ x0.s = session /\ x0.a = app
  BY Now DEF IInv, TypeInv
<1>2. /\ app \in AppState /\ session \in SessionState
      /\ crossed \in BOOLEAN /\ sent \in [Bounds -> Nat]
      /\ app.uploads <= sent.edits
  BY DEF IInv, TypeInv, TypeOK
<1>3. app.uploads \in Nat
  BY <1>2, FrontendAssumption DEF AppState
<1>4. sent.edits \in Nat
  BY <1>2 DEF Bounds
<1>5. Viewed(x0) => ~("write" \in Allowed(app.shown)) /\ app.mode = "view"
  BY <1>1, HumbleMayNotWrite DEF Viewed
<1>6. LoneLogin => Viewed(x0) /\ app.dialog = NoDialog
  BY DEF IInv, LoginInv, LoneLogin
<1>7. app.page = "/authenticate" => Viewed(x0)
  BY <1>1 DEF IInv, ViewInv
<1>. QED  BY <1>1, <1>2, <1>3, <1>4, <1>5, <1>6, <1>7

\* The actions of the editor need edit mode, those of the page view mode.
LEMMA ClickedMode ==
    ASSUME NEW key, Clicked(key)
    PROVE  /\ app.dialog = NoDialog
           /\ key \notin {"new", "edit", "login", "logout"} => app.mode # "view" /\ key \in editActions
           /\ key \in {"new", "edit"} => key \in viewActions
<1>1. viewActions \subseteq {"new", "edit"}
  BY DEF viewActions
<1>2. genericActions \subseteq {"login", "logout"}
  BY DEF genericActions
<1>3. editActions \subseteq {"cancel", "versions", "attachments", "move", "delete", "save"}
  BY DEF editActions
<1>. QED  BY <1>1, <1>2, <1>3 DEF Clicked, activeActions

\* Nothing but the dialog changes.
LEMMA DialogStep ==
    ASSUME IInv, NEW kind \in Dialog, NEW path \in Page \cup {None},
           Become([x0 EXCEPT !.a.dialog = [kind |-> kind, path |-> path]]),
           UNCHANGED <<writes, login, content, expired, sent, crossed, overlap>>,
           kind = "delete" => path \in Page,
           kind \in {"delete", "image", "versions"} => ~app.saving,
           kind # "none" => ~LoneLogin,
           kind = "none" => path = None,
           kind = "image" => app.page # "/wait" /\ (crossed \/ app.raw.of = app.page),
           kind = "versions" => path = app.page
    PROVE  IInv'
<1> DEFINE y == [x0 EXCEPT !.a.dialog = [kind |-> kind, path |-> path]]
<1>1. /\ x0 \in XState /\ x0.s = session /\ x0.a = app
      /\ sent \in [Bounds -> Nat] /\ app.uploads <= sent.edits /\ crossed' \in BOOLEAN
      /\ LoneLogin => app.dialog = NoDialog
  BY Facts
<1>2. /\ y \in XState /\ Like(x0, y) /\ y.a.saving = app.saving
      /\ y.a.dialog.kind = kind /\ y.a.dialog.path = path
      /\ y.a.dialog = [kind |-> kind, path |-> path]
  BY <1>1 DEF XState, AppState, Like, SameText
<1>3. Become(y)
  OBVIOUS
<1> HIDE DEF y
<1>4. Stays(x0, y) /\ y.a.nav = app.nav /\ y.a.uploads = app.uploads /\ y.a.page = app.page
      /\ y.a.raw = app.raw
  BY <1>1, <1>2 DEF Stays, Like, SameText
<1>5. ViewInv(y) /\ (crossed' \/ TextInv(y))
  BY <1>1, <1>2, LikeInv DEF IInv
<1>6. LoneLogin => Viewed(y) /\ y.a.dialog = NoDialog
  <2>1. LoneLogin => Viewed(x0)
    BY DEF IInv, LoginInv, LoneLogin
  <2>. QED  BY <1>1, <1>2, <2>1, LikeInv DEF NoDialog
<1>7. app' = y.a
  BY <1>2, <1>3, Becomes
<1>8. DialogInv'
  <2>1. "/wait" \notin Document
    BY FrontendAssumption
  <2>. QED  BY <1>2, <1>4, <1>7, <2>1 DEF DialogInv
<1>9. sent' \in [Bounds -> Nat] /\ y.a.uploads <= sent'.edits
  BY <1>1, <1>4
<1>. QED  BY <1>1, <1>2, <1>3, <1>4, <1>5, <1>6, <1>8, <1>9, EditStep

LEMMA OpenedStep ==
    ASSUME IInv, OpenDialog \/ Dismiss \/ ConfirmMoveDirty
    PROVE  IInv'
<1>1. /\ x0 \in XState /\ x0.s = session /\ x0.a = app /\ app \in AppState
      /\ LoneLogin => ~("write" \in Allowed(app.shown)) /\ app.mode = "view"
                  /\ app.dialog = NoDialog
  BY Facts
<1>2. UNCHANGED <<writes, login, content, expired, sent, crossed, overlap>>
  BY DEF OpenDialog, Dismiss, ConfirmMoveDirty, history
<1>3. app.page \in Page /\ None \in Page \cup {None} /\ "/wait" \notin Document
  BY <1>1, FrontendAssumption DEF AppState
<1>4. {"none", "discard", "delete", "moveDirty", "move", "image", "new", "versions",
       "attachments"} = Dialog
  BY DEF Dialog
<1>5. CASE Clicked("delete") /\ Opened("delete", app.page)
  <2>1. ~app.saving /\ app.mode = "edit"
    BY <1>5, ClickedMode DEF editActions, canDeleteDocument
  <2>. QED  BY <1>1, <1>2, <1>3, <1>4, <1>5, <2>1, DialogStep DEF Opened
<1>6. CASE OpenMoveDialog
  <2>1. app.mode = "edit"
    BY <1>1, <1>6, ClickedMode DEF OpenMoveDialog, AppState
  <2> DEFINE kind == IF isEditorDirty THEN "moveDirty" ELSE "move"
  <2>2. kind \in {"moveDirty", "move"} /\ kind \in Dialog
    BY <1>4
  <2>3. Become([x0 EXCEPT !.a.dialog = [kind |-> kind, path |-> None]])
    BY <1>6 DEF OpenMoveDialog, Opened
  <2> HIDE DEF kind
  <2>. QED  BY <1>1, <1>2, <1>3, <2>1, <2>2, <2>3, DialogStep
<1>7. CASE PasteImage
  <2>1. app.mode = "edit" /\ app.page \in Document /\ ~app.saving
    BY <1>7 DEF PasteImage, EditorShown
  <2>2. crossed \/ app.raw.of = app.page
    BY <1>1, <2>1 DEF IInv, TextInv
  <2>. QED  BY <1>1, <1>2, <1>3, <1>4, <1>7, <2>1, <2>2, DialogStep DEF PasteImage, Opened
<1>8. CASE Clicked("new") /\ Opened("new", None)
  <2>1. "write" \in Allowed(app.shown)
    BY <1>8, ClickedMode DEF viewActions, canAddPage
  <2>. QED  BY <1>1, <1>2, <1>3, <1>4, <1>8, <2>1, DialogStep DEF Opened
<1>9. CASE Clicked("versions") /\ Opened("versions", app.page)
  <2>1. ~app.saving /\ app.mode = "edit"
    BY <1>9, ClickedMode DEF editActions, canOpenVersions, canOpenAttachments
  <2>. QED  BY <1>1, <1>2, <1>3, <1>4, <1>9, <2>1, DialogStep DEF Opened
<1>10. CASE Clicked("attachments") /\ Opened("attachments", None)
  <2>1. app.mode = "edit"
    BY <1>1, <1>10, ClickedMode DEF AppState
  <2>. QED  BY <1>1, <1>2, <1>3, <1>4, <1>10, <2>1, DialogStep DEF Opened
<1>11. CASE Opened("none", None)
  BY <1>1, <1>2, <1>3, <1>4, <1>11, DialogStep DEF Opened
<1>12. CASE ConfirmMoveDirty
  <2>1. app.dialog # NoDialog
    BY <1>12 DEF ConfirmMoveDirty, NoDialog
  <2>. QED  BY <1>1, <1>2, <1>3, <1>4, <1>12, <2>1, DialogStep DEF ConfirmMoveDirty, Opened
<1>. QED  BY <1>5, <1>6, <1>7, <1>8, <1>9, <1>10, <1>11, <1>12 DEF OpenDialog, Dismiss

\* The editor is left without a change of its text, or with its initial text.
LEMMA ViewingStep ==
    ASSUME IInv, Cancel \/ ConfirmDiscard
    PROVE  IInv'
<1> DEFINE v == Viewing(x0)
           c == [v EXCEPT !.a.dialog = NoDialog, !.a.raw = app.initial]
<1>1. /\ x0 \in XState /\ x0.s = session /\ x0.a = app /\ app \in AppState
      /\ sent \in [Bounds -> Nat] /\ sent.edits \in Nat /\ crossed' \in BOOLEAN
      /\ LoneLogin => app.mode = "view" /\ app.dialog = NoDialog
      /\ crossed' = crossed
  BY Facts DEF Cancel, ConfirmDiscard, history
<1>2. UNCHANGED <<writes, login, content, expired, sent, crossed, overlap>>
  BY DEF Cancel, ConfirmDiscard, history
<1>3. /\ v \in XState /\ Frame(x0, v)
      /\ v.s = x0.s /\ v.a.page = x0.a.page /\ v.a.nav = x0.a.nav
      /\ v.a.shown = x0.a.shown /\ v.a.mode = "view" /\ v.a.uploads = 0
      /\ v.a.doc = x0.a.doc /\ v.a.raw = x0.a.raw /\ v.a.initial = x0.a.initial
  BY <1>1, ViewingEffect
<1> HIDE DEF v
<1>4. NoDialog \in [kind : Dialog, path : Page \cup {None}] /\ app.initial \in Text
  BY <1>1 DEF NoDialog, Dialog, AppState
<1>5. /\ c \in XState /\ c.s = session /\ Stays(x0, c) /\ c.a.nav = app.nav
      /\ c.a.saving = app.saving /\ c.a.dialog = NoDialog /\ c.a.mode = "view"
      /\ c.a.uploads = 0 /\ c.a.doc = app.doc
  <2> DEFINE b == [v.a EXCEPT !.dialog = NoDialog, !.raw = app.initial]
  <2>1. c.s = v.s /\ c.a = b /\ v.a \in AppState /\ v.s \in SessionState
    BY <1>3 DEF XState, AppState
  <2>2. b \in AppState
    BY <1>4, <2>1 DEF AppState
  <2>3. c \in XState
    <3> HIDE DEF b
    <3>. QED  BY <1>3, <2>1, <2>2 DEF XState
  <2>4. /\ b.page = v.a.page /\ b.nav = v.a.nav /\ b.shown = v.a.shown
        /\ b.mode = v.a.mode /\ b.uploads = v.a.uploads /\ b.doc = v.a.doc
        /\ b.saving = v.a.saving /\ b.dialog = NoDialog
    BY <2>1 DEF AppState
  <2> HIDE DEF b, c
  <2>. QED  BY <1>1, <1>3, <2>1, <2>3, <2>4 DEF Stays, Frame
<1> HIDE DEF c
<1>6. ASSUME NEW y \in XState, Become(y), Stays(x0, y), y.a.nav = app.nav,
             y.a.saving = app.saving, y.a.mode = "view", y.a.uploads = 0, y.a.doc = app.doc,
             y.a.dialog = NoDialog, ~LoneLogin
      PROVE  IInv'
  <2>1. app' = y.a
    BY <1>6, Becomes
  <2>2. DialogInv'
    BY <1>6, <2>1, DialogKept DEF IInv
  <2>3. ViewInv(y)
    BY <1>1, <1>6 DEF IInv, ViewInv, Viewed, Stays
  <2>4. crossed' \/ TextInv(y)
    BY <1>1, <1>6 DEF IInv, TextInv, Stays
  <2>5. y.a.dialog.kind \notin {"delete", "image", "versions"}
    BY <1>6 DEF NoDialog
  <2>6. sent' \in [Bounds -> Nat] /\ y.a.uploads <= sent'.edits
    BY <1>1, <1>2, <1>6
  <2>. QED  BY <1>1, <1>2, <1>6, <2>2, <2>3, <2>4, <2>5, <2>6, EditStep
<1>7. CASE Cancel
  <2>1. app.dialog = NoDialog /\ app.mode = "edit"
    BY <1>1, <1>7, ClickedMode DEF Cancel, AppState
  <2>2. CASE Become(v)
    BY <1>1, <1>3, <1>6, <2>1, <2>2 DEF Frame, Stays
  <2>3. CASE Opened("discard", None)
    BY <1>1, <1>2, <2>1, <2>3, DialogStep DEF Opened, Dialog
  <2>. QED  BY <1>7, <2>2, <2>3 DEF Cancel, v
<1>8. CASE ConfirmDiscard
  <2>1. Become(c) /\ ~LoneLogin
    BY <1>1, <1>8 DEF ConfirmDiscard, NoDialog, c, v
  <2>. QED  BY <1>5, <1>6, <2>1
<1>. QED  BY <1>7, <1>8

LEMMA EditingStartedKeeps ==
    ASSUME NEW x \in XState
    PROVE  LET y == EditingStarted(x) IN
           /\ ViewInv(x) => ViewInv(y)
           /\ TextInv(x) => TextInv(y)
           /\ Viewed(x) => Viewed(y)
<1> DEFINE y == EditingStarted(x)
<1>1. /\ y \in XState /\ Frame(x, y) /\ Stays(x, y)
      /\ y.a.nav = x.a.nav /\ y.a.uploads = x.a.uploads /\ y.a.doc = x.a.doc
      /\ \/ SameText(x, y)
         \/ /\ x.a.doc.of # None /\ "write" \in Allowed(x.a.shown)
            /\ y.a.mode = "edit" /\ y.a.raw = x.a.doc /\ y.a.initial = x.a.doc
  BY EditingStartedEffect
<1> HIDE DEF y
<1>2. Humble(x.a.shown) => "write" \notin Allowed(x.a.shown)
  BY HumbleMayNotWrite
<1>3. Viewed(x) => Viewed(y)
  BY <1>1, <1>2 DEF Viewed, Stays, SameText
<1>4. ViewInv(x) => ViewInv(y)
  BY <1>1, <1>3 DEF ViewInv, Stays, SameText
<1>5. TextInv(x) => TextInv(y)
  BY <1>1 DEF TextInv, Stays, SameText
<1>. QED  BY <1>3, <1>4, <1>5 DEF y

\* EditingStarted on a state that differs from the present one in dialog or waiting edits.
LEMMA EditingStartedStep ==
    ASSUME IInv, NEW x, Like(x0, x), x.a.saving = app.saving,
           x.a.dialog \in {NoDialog, app.dialog},
           x.a.dialog = NoDialog \/ crossed \/ x.a.doc.of \in {None, x.a.page},
           Become(EditingStarted(x)),
           UNCHANGED <<writes, login, content, expired, overlap, crossed>>,
           sent' \in [Bounds -> Nat], sent'.edits >= sent.edits
    PROVE  IInv'
<1> DEFINE y == EditingStarted(x)
<1>1. /\ x0 \in XState /\ x0.s = session /\ x0.a = app /\ app \in AppState
      /\ app.uploads \in Nat /\ sent.edits \in Nat /\ app.uploads <= sent.edits
      /\ crossed' \in BOOLEAN
  BY Facts
<1>2. x \in XState
  BY DEF Like
<1>3. /\ y \in XState /\ Frame(x, y) /\ Stays(x, y)
      /\ y.a.nav = x.a.nav /\ y.a.uploads = x.a.uploads /\ y.a.doc = x.a.doc
      /\ \/ SameText(x, y)
         \/ /\ x.a.doc.of # None /\ "write" \in Allowed(x.a.shown)
            /\ y.a.mode = "edit" /\ y.a.raw = x.a.doc /\ y.a.initial = x.a.doc
  BY <1>2, EditingStartedEffect
<1>4. /\ ViewInv(x) => ViewInv(y)
      /\ TextInv(x) => TextInv(y)
      /\ Viewed(x) => Viewed(y)
  BY <1>2, EditingStartedKeeps
<1>5. Become(y)
  OBVIOUS
<1> HIDE DEF y
<1>6. /\ ViewInv(x0) => ViewInv(x)
      /\ TextInv(x0) => TextInv(x)
      /\ Viewed(x0) => Viewed(x)
  BY <1>1, LikeInv
<1>7. Stays(x0, y) /\ y.a.nav = app.nav /\ y.a.saving = app.saving /\ y.a.uploads = app.uploads
      /\ y.a.dialog = x.a.dialog
  BY <1>1, <1>3 DEF Stays, Like, SameText, Frame
<1>8. app' = y.a /\ session' = session
  BY <1>1, <1>3, <1>5, <1>7, Becomes DEF Stays
<1>9. DialogInv'
  <2>1. CASE y.a.dialog = NoDialog
    BY <1>8, <2>1, DialogKept DEF IInv
  <2>2. CASE y.a.dialog = app.dialog /\ (crossed \/ x.a.doc.of \in {None, x.a.page})
    <3>1. y.a.raw = app.raw \/ crossed \/ y.a.raw.of = y.a.page
      BY <1>1, <1>3, <2>2 DEF Like, SameText, Stays
    <3>. QED  BY <1>1, <1>7, <1>8, <2>2, <3>1 DEF IInv, DialogInv, Stays
  <2>. QED  BY <1>7, <2>1, <2>2
<1>10. LoneLogin => Viewed(y) /\ y.a.dialog = NoDialog
  BY <1>4, <1>6, <1>7 DEF IInv, LoginInv, LoneLogin
<1>11. ViewInv(y) /\ (crossed' \/ TextInv(y))
  BY <1>4, <1>6 DEF IInv
<1>12. /\ y.a.dialog.kind = "delete" => y.a.dialog.path \in Page
       /\ y.a.dialog.kind \in {"delete", "image", "versions"} => ~app.saving
  BY <1>7 DEF IInv, TypeInv, SavingInv, NoDialog
<1>13. sent'.edits \in Nat /\ y.a.uploads <= sent'.edits
  BY <1>1, <1>7 DEF Bounds
<1>. QED  BY <1>1, <1>3, <1>5, <1>7, <1>9, <1>10, <1>11, <1>12, <1>13, EditStep

LEMMA StartEditingStep ==
    ASSUME IInv, StartEditing
    PROVE  IInv'
<1>1. /\ x0 \in XState /\ x0.s = session /\ x0.a = app /\ sent \in [Bounds -> Nat]
      /\ sent.edits \in Nat
  BY Facts
<1>2. Become(EditingStarted(x0)) /\ app.dialog = NoDialog
      /\ UNCHANGED <<writes, login, content, expired, sent, overlap, crossed>>
  BY ClickedMode DEF StartEditing, history
<1>3. Like(x0, x0)
  BY <1>1 DEF Like, SameText
<1>. QED  BY <1>1, <1>2, <1>3, EditingStartedStep

LEMMA ConfirmNewStep ==
    ASSUME IInv, NEW d \in Document, ConfirmNew(d)
    PROVE  IInv'
<1> DEFINE x == [x0 EXCEPT !.a.dialog = NoDialog]
           z == [x EXCEPT !.a.pendingEdit = d]
           y == Navigated(z, d, "new")
<1>1. /\ x0 \in XState /\ x0.s = session /\ x0.a = app
      /\ LoneLogin => app.dialog = NoDialog
  BY Facts
<1>2. NoDialog \in [kind : Dialog, path : Page \cup {None}]
  BY DEF NoDialog, Dialog
<1>3. Like(x0, x) /\ x.a.saving = app.saving /\ x.a.dialog = NoDialog
  BY <1>1, <1>2 DEF Like, XState, AppState, SameText
<1>4. x \in XState /\ "new" \in By /\ ~LoneLogin
  BY <1>1, <1>3 DEF Like, By, ConfirmNew, NoDialog
<1>5. UNCHANGED <<writes, login, content, expired, overlap, crossed>>
  BY DEF ConfirmNew, history
<1>6. sent' \in [Bounds -> Nat] /\ sent'.edits >= sent.edits
  BY CountedEffect, FrontendAssumption DEF ConfirmNew, Bounds, IInv, TypeInv, TypeOK
<1>7. IF d = app.page THEN Become(EditingStarted(x)) ELSE Become(y)
  BY DEF ConfirmNew
<1> HIDE DEF x
<1>8. CASE d = app.page
  BY <1>3, <1>5, <1>6, <1>7, <1>8, EditingStartedStep
<1>9. CASE d # app.page
  <2>1. Like(x, z) /\ Frame(x, z)
    BY <1>4 DEF Like, XState, AppState, SameText, Frame
  <2>2. z \in XState
    BY <2>1 DEF Like
  <2>3. Become(y)
    BY <1>7, <1>9
  <2> HIDE DEF z
  <2>4. /\ y \in XState /\ Frame(z, y) /\ y.a.uploads \in {0, z.a.uploads}
        /\ y.a.nav.to = None => y.a.nav = NoNavigation
        /\ TokenInv(z) => TokenInv(y)
        /\ ViewInv(z) => ViewInv(y)
        /\ TextInv(z) => TextInv(y)
        /\ SessionInv(z) => SessionInv(y)
    BY <1>4, <2>2, NavigatedKeeps
  <2> HIDE DEF y
  <2>5. y.a.saving = app.saving /\ y.a.dialog = NoDialog /\ y.a.uploads \in {0, app.uploads}
    BY <1>1, <1>3, <2>1, <2>4 DEF Frame, Like, SameText
  <2>6. DialogInv'
    BY <2>3, <2>4, <2>5, Becomes, DialogKept DEF IInv
  <2>7. LoginInv'
    BY <1>4, <1>5 DEF LoginInv, LoneLogin
  <2>8. /\ TokenInv(x0) => TokenInv(x)
        /\ ViewInv(x0) => ViewInv(x)
        /\ TextInv(x0) => TextInv(x)
        /\ SessionInv(x0) => SessionInv(x)
    BY <1>1, <1>3, LikeInv
  <2>9. /\ TokenInv(x) => TokenInv(z)
        /\ ViewInv(x) => ViewInv(z)
        /\ TextInv(x) => TextInv(z)
        /\ SessionInv(x) => SessionInv(z)
    BY <1>4, <2>1, LikeInv
  <2>10. TokenInv(y) /\ ViewInv(y) /\ (TextInv(x0) => TextInv(y))
         /\ (overlap' \/ SessionInv(y))
    BY <1>5, <2>4, <2>8, <2>9 DEF IInv
  <2>11. overlap' \in BOOLEAN /\ login' \in Nat /\ expired' \subseteq Token
    BY <1>5, Unchanging
  <2>. QED  BY <1>5, <1>6, <2>3, <2>4, <2>5, <2>6, <2>7, <2>10, <2>11, Step
<1>. QED  BY <1>8, <1>9

\* The text of the editor becomes another text of the same document.
LEMMA TypedStep ==
    ASSUME IInv, NEW y \in XState, Become(y), Stays(x0, y), Frame(x0, y), y.a.nav = app.nav,
           app.mode = "edit", app.page \in Document,
           y.a.mode = app.mode, y.a.doc = app.doc, y.a.raw.of = app.raw.of,
           UNCHANGED <<writes, login, content, expired, crossed, overlap>>,
           sent' \in [Bounds -> Nat], y.a.uploads <= sent'.edits
    PROVE  IInv'
<1>1. /\ x0 \in XState /\ x0.s = session /\ x0.a = app /\ crossed' \in BOOLEAN
      /\ LoneLogin => app.mode = "view"
  BY Facts
<1>2. app' = y.a /\ session' = y.s
  BY Becomes
<1>3. DialogInv'
  BY <1>1, <1>2, DialogKept DEF IInv, Stays, Frame
<1>4. "/authenticate" \notin Document
  BY FrontendAssumption
<1>5. ViewInv(y) /\ (crossed' \/ TextInv(y))
  BY <1>1, <1>4 DEF IInv, ViewInv, TextInv, Stays
<1>6. /\ y.a.dialog.kind = "delete" => y.a.dialog.path \in Page
      /\ y.a.dialog.kind \in {"delete", "image", "versions"} => ~app.saving
  BY <1>1 DEF IInv, TypeInv, SavingInv, Frame
<1>7. y.a.saving = app.saving
  BY <1>1 DEF Frame
<1>. QED  BY <1>1, <1>3, <1>5, <1>6, <1>7, EditStep

\* What an edit makes of a state with as many uploads, or one more.
LEMMA EditedEffect ==
    ASSUME NEW x \in XState, Counted("edits", MaxEdits), sent \in [Bounds -> Nat],
           x.a.uploads <= sent.edits
    PROVE  /\ LET y == Edited(x) IN
              /\ y \in XState /\ Stays(x, y) /\ Frame(x, y) /\ y.a.nav = x.a.nav
              /\ y.a.mode = x.a.mode /\ y.a.doc = x.a.doc /\ y.a.raw.of = x.a.raw.of
              /\ y.a.uploads <= sent'.edits
           /\ LET y == ImageInserted(x) IN
              /\ y \in XState /\ Stays(x, y) /\ Frame(x, y) /\ y.a.nav = x.a.nav
              /\ y.a.mode = x.a.mode /\ y.a.doc = x.a.doc /\ y.a.raw.of = x.a.raw.of
              /\ y.a.uploads <= sent'.edits
           /\ sent' \in [Bounds -> Nat]
<1>1. "edits" \in Bounds /\ MaxEdits \in Nat
  BY FrontendAssumption DEF Bounds
<1>2. sent' \in [Bounds -> Nat] /\ sent.edits < MaxEdits /\ sent'.edits = sent.edits + 1
      /\ sent.edits \in Nat
  BY <1>1, CountedEffect
<1>3. sent.edits + 2 \in 0 .. MaxEdits + 1
  BY <1>1, <1>2
<1>4. x.a.uploads \in Nat
  BY <1>1 DEF XState, AppState
<1>5. ASSUME NEW u \in XState, u.a.uploads <= sent.edits + 1
      PROVE  LET y == Edited(u) IN
             /\ y \in XState /\ Stays(u, y) /\ Frame(u, y) /\ y.a.nav = u.a.nav
             /\ y.a.mode = u.a.mode /\ y.a.doc = u.a.doc /\ y.a.raw.of = u.a.raw.of
             /\ y.a.uploads <= sent'.edits
  <2>1. u.a.raw \in Text
    BY DEF XState, AppState
  <2> DEFINE raw == [u.a.raw EXCEPT !.edit = sent.edits + 2]
             y == [u EXCEPT !.a.raw = raw]
  <2>2. raw \in Text /\ raw.of = u.a.raw.of
    BY <1>3, <2>1 DEF Text
  <2> HIDE DEF raw
  <2>3. /\ y \in XState /\ Stays(u, y) /\ Frame(u, y) /\ y.a.nav = u.a.nav
        /\ y.a.mode = u.a.mode /\ y.a.doc = u.a.doc /\ y.a.raw = raw
        /\ y.a.uploads = u.a.uploads
    BY <2>2 DEF XState, AppState, Stays, Frame
  <2> HIDE DEF y
  <2>4. Edited(u) = y
    BY DEF Edited, y, raw
  <2>. QED  BY <1>2, <1>5, <2>2, <2>3, <2>4
<1> DEFINE w == [x EXCEPT !.a.uploads = @ + 1]
<1>6. x.a.uploads + 1 \in 0 .. MaxEdits
  BY <1>1, <1>2, <1>4
<1>7. /\ w \in XState /\ Stays(x, w) /\ Frame(x, w) /\ w.a.nav = x.a.nav
      /\ w.a.mode = x.a.mode /\ w.a.doc = x.a.doc /\ w.a.raw = x.a.raw
      /\ w.a.uploads = x.a.uploads + 1
  BY <1>6 DEF XState, AppState, Stays, Frame
<1> HIDE DEF w
<1> DEFINE i == Edited(w)
<1>8. /\ i \in XState /\ Stays(w, i) /\ Frame(w, i) /\ i.a.nav = w.a.nav
      /\ i.a.mode = w.a.mode /\ i.a.doc = w.a.doc /\ i.a.raw.of = w.a.raw.of
      /\ i.a.uploads <= sent'.edits
  BY <1>2, <1>4, <1>5, <1>7
<1>9. ImageInserted(x) = i
  BY DEF ImageInserted, i, w
<1> HIDE DEF i
<1>10. /\ Stays(x, i) /\ Frame(x, i) /\ i.a.nav = x.a.nav
       /\ i.a.mode = x.a.mode /\ i.a.doc = x.a.doc /\ i.a.raw.of = x.a.raw.of
  BY <1>7, <1>8 DEF Stays, Frame
<1>11. x.a.uploads <= sent.edits + 1
  BY <1>2, <1>4
<1>. QED  BY <1>2, <1>5, <1>8, <1>9, <1>10, <1>11

LEMMA TypingStep ==
    ASSUME IInv, Type \/ PasteIntoDocument
    PROVE  IInv'
<1>1. /\ x0 \in XState /\ x0.s = session /\ x0.a = app
      /\ sent \in [Bounds -> Nat] /\ app.uploads <= sent.edits
  BY Facts
<1>2. /\ app.mode = "edit" /\ app.page \in Document /\ Counted("edits", MaxEdits)
      /\ UNCHANGED <<writes, login, content, expired, crossed, overlap>>
      /\ Become(Edited(x0)) \/ Become(ImageInserted(x0))
  BY DEF Type, PasteIntoDocument, EditorShown, history
<1> DEFINE e == Edited(x0)
           i == ImageInserted(x0)
<1>3. /\ e \in XState /\ Stays(x0, e) /\ Frame(x0, e) /\ e.a.nav = x0.a.nav
      /\ e.a.mode = x0.a.mode /\ e.a.doc = x0.a.doc /\ e.a.raw.of = x0.a.raw.of
      /\ e.a.uploads <= sent'.edits
      /\ i \in XState /\ Stays(x0, i) /\ Frame(x0, i) /\ i.a.nav = x0.a.nav
      /\ i.a.mode = x0.a.mode /\ i.a.doc = x0.a.doc /\ i.a.raw.of = x0.a.raw.of
      /\ i.a.uploads <= sent'.edits
      /\ sent' \in [Bounds -> Nat]
  BY <1>1, <1>2, EditedEffect
<1>4. Become(e) \/ Become(i)
  BY <1>2
<1> HIDE DEF e, i
<1>. QED  BY <1>1, <1>2, <1>3, <1>4, TypedStep

LEMMA AnswerUploadStep ==
    ASSUME IInv, AnswerUpload
    PROVE  IInv'
<1> DEFINE x == [x0 EXCEPT !.a.uploads = @ - 1]
           e == Edited(x)
<1>1. /\ x0 \in XState /\ x0.s = session /\ x0.a = app /\ app \in AppState
      /\ sent \in [Bounds -> Nat] /\ app.uploads \in Nat /\ sent.edits \in Nat
      /\ app.uploads <= sent.edits
  BY Facts
<1>2. /\ app.uploads > 0
      /\ UNCHANGED <<writes, login, content, expired, crossed, overlap>>
      /\ (Become(x) /\ UNCHANGED sent) \/ (Counted("edits", MaxEdits) /\ Become(e))
  BY DEF AnswerUpload, history
<1>3. app.uploads - 1 \in 0 .. MaxEdits
  BY <1>1, <1>2, FrontendAssumption DEF AppState
<1>4. /\ x \in XState /\ Stays(x0, x) /\ Frame(x0, x) /\ x.a.nav = app.nav
      /\ x.a.mode = app.mode /\ x.a.doc = app.doc /\ x.a.raw = app.raw
      /\ x.a.uploads = app.uploads - 1
  BY <1>1, <1>3 DEF XState, AppState, Stays, Frame
<1> HIDE DEF x
<1>5. app.mode = "edit" /\ app.page \in Document
  BY <1>1, <1>2 DEF IInv, ViewInv
<1>6. x.a.uploads <= sent.edits
  BY <1>1, <1>4
<1>7. CASE Become(x) /\ UNCHANGED sent
  BY <1>1, <1>2, <1>4, <1>5, <1>6, <1>7, TypedStep
<1>8. CASE Counted("edits", MaxEdits) /\ Become(e)
  <2>1. /\ e \in XState /\ Stays(x, e) /\ Frame(x, e) /\ e.a.nav = x.a.nav
        /\ e.a.mode = x.a.mode /\ e.a.doc = x.a.doc /\ e.a.raw.of = x.a.raw.of
        /\ e.a.uploads <= sent'.edits
        /\ sent' \in [Bounds -> Nat]
    BY <1>1, <1>4, <1>6, <1>8, EditedEffect
  <2>2. Become(e)
    BY <1>8
  <2> HIDE DEF e
  <2>3. Stays(x0, e) /\ Frame(x0, e)
    BY <1>4, <2>1 DEF Stays, Frame
  <2>. QED  BY <1>2, <1>4, <1>5, <2>1, <2>2, <2>3, TypedStep
<1>. QED  BY <1>2, <1>7, <1>8

LEMMA ApplyRequestStep ==
    ASSUME IInv, NEW kind, ApplyRequest(kind)
    PROVE  IInv'
<1> DEFINE x == [x0 EXCEPT !.a.pending = @ \ {kind}]
           e == Edited(x)
           i == ImageInserted(x)
<1>1. /\ x0 \in XState /\ x0.s = session /\ x0.a = app
      /\ sent \in [Bounds -> Nat] /\ app.uploads <= sent.edits
  BY Facts
<1>2. /\ app.mode = "edit" /\ app.page \in Document /\ Counted("edits", MaxEdits)
      /\ UNCHANGED <<writes, login, content, expired, crossed, overlap>>
      /\ Become(e) \/ Become(i)
  BY DEF ApplyRequest, EditorShown, history
<1>3. /\ x \in XState /\ Stays(x0, x) /\ Frame(x0, x) /\ x.a.nav = app.nav
      /\ x.a.mode = app.mode /\ x.a.doc = app.doc /\ x.a.raw = app.raw
      /\ x.a.uploads = app.uploads
  BY <1>1 DEF XState, AppState, Stays, Frame
<1> HIDE DEF x
<1>4. /\ e \in XState /\ Stays(x, e) /\ Frame(x, e) /\ e.a.nav = x.a.nav
      /\ e.a.mode = x.a.mode /\ e.a.doc = x.a.doc /\ e.a.raw.of = x.a.raw.of
      /\ e.a.uploads <= sent'.edits
      /\ i \in XState /\ Stays(x, i) /\ Frame(x, i) /\ i.a.nav = x.a.nav
      /\ i.a.mode = x.a.mode /\ i.a.doc = x.a.doc /\ i.a.raw.of = x.a.raw.of
      /\ i.a.uploads <= sent'.edits
      /\ sent' \in [Bounds -> Nat]
  BY <1>1, <1>2, <1>3, EditedEffect
<1> HIDE DEF e, i
<1>5. Stays(x0, e) /\ Frame(x0, e) /\ Stays(x0, i) /\ Frame(x0, i)
  BY <1>3, <1>4 DEF Stays, Frame
<1>. QED  BY <1>2, <1>3, <1>4, <1>5, TypedStep

LEMMA RestoreVersionStep ==
    ASSUME IInv, RestoreVersion
    PROVE  IInv'
<1> DEFINE text == [of |-> app.dialog.path, edit |-> 1]
           y == [x0 EXCEPT !.a.dialog = NoDialog, !.a.raw = text]
<1>1. /\ x0 \in XState /\ x0.s = session /\ x0.a = app
      /\ crossed \in BOOLEAN /\ sent \in [Bounds -> Nat] /\ app.uploads <= sent.edits
      /\ LoneLogin => app.dialog = NoDialog
      /\ app.page = "/authenticate" => app.mode = "view"
  BY Facts
<1>2. /\ app.dialog.kind = "versions" /\ app.dialog.path \in Document
      /\ UNCHANGED <<writes, login, content, expired, sent, overlap>>
      /\ crossed' = (crossed \/ app.page # app.dialog.path) /\ Become(y)
  BY DEF RestoreVersion
<1>3. text \in Text /\ text.of = app.dialog.path
  BY <1>2, FrontendAssumption DEF Text
<1>4. NoDialog \in [kind : Dialog, path : Page \cup {None}] /\ NoDialog.kind = "none"
  BY DEF NoDialog, Dialog
<1> HIDE DEF text
<1>5. /\ y \in XState /\ Stays(x0, y) /\ y.a.nav = app.nav /\ y.a.saving = app.saving
      /\ y.a.dialog = NoDialog /\ y.a.raw = text /\ y.a.initial = app.initial
      /\ y.a.mode = app.mode /\ y.a.uploads = app.uploads /\ y.a.doc = app.doc
  BY <1>1, <1>3, <1>4 DEF XState, AppState, Stays
<1> HIDE DEF y
<1>6. ~LoneLogin
  BY <1>1, <1>2, <1>4
<1>7. DialogInv'
  BY <1>2, <1>5, Becomes, DialogKept DEF IInv
<1>9. ViewInv(y)
  BY <1>1, <1>5 DEF IInv, ViewInv, Viewed, Stays
<1>10. crossed' \/ TextInv(y)
  BY <1>1, <1>2, <1>3, <1>5 DEF IInv, TextInv, Stays
<1>11. crossed' \in BOOLEAN /\ (crossed => crossed')
  BY <1>1, <1>2
<1>. QED  BY <1>1, <1>2, <1>4, <1>5, <1>6, <1>7, <1>9, <1>10, <1>11, EditStep

LEMMA InsertAttachmentStep ==
    ASSUME IInv, InsertAttachment
    PROVE  IInv'
<1> DEFINE y == Queued([x0 EXCEPT !.a.dialog = NoDialog], "insert")
<1>1. /\ x0 \in XState /\ x0.s = session /\ x0.a = app /\ crossed' \in BOOLEAN
      /\ sent \in [Bounds -> Nat] /\ app.uploads <= sent.edits
      /\ LoneLogin => app.dialog = NoDialog
  BY Facts DEF InsertAttachment, history
<1>2. /\ app.dialog.kind = "attachments"
      /\ UNCHANGED <<writes, login, content, expired, sent, overlap, crossed>> /\ Become(y)
  BY DEF InsertAttachment, history
<1>3. NoDialog \in [kind : Dialog, path : Page \cup {None}] /\ NoDialog.kind = "none"
  BY DEF NoDialog, Dialog
<1>4. /\ y \in XState /\ Like(x0, y) /\ y.a.saving = app.saving /\ y.a.dialog = NoDialog
  BY <1>1, <1>3 DEF Queued, XState, AppState, Like, SameText
<1> HIDE DEF y
<1>5. Stays(x0, y) /\ y.a.nav = app.nav /\ y.a.uploads = app.uploads
  BY <1>1, <1>4 DEF Stays, Like, SameText
<1>6. ~LoneLogin
  BY <1>1, <1>2, <1>3
<1>7. DialogInv'
  BY <1>2, <1>4, Becomes, DialogKept DEF IInv
<1>8. ViewInv(y) /\ (crossed' \/ TextInv(y))
  BY <1>1, <1>2, <1>4, LikeInv DEF IInv
<1>. QED  BY <1>1, <1>2, <1>3, <1>4, <1>5, <1>6, <1>7, <1>8, EditStep

LEMMA AnswerLoadStep ==
    ASSUME IInv, NEW d \in Document, AnswerLoad(d)
    PROVE  IInv'
<1> DEFINE text == [of |-> d, edit |-> content[d]]
           loaded == [x0 EXCEPT !.a.loads[d] = @ - 1, !.a.doc = text, !.a.raw = text,
                                !.a.initial = text]
           failed == [x0 EXCEPT !.a.loads[d] = @ - 1]
           Noted(u) == [u EXCEPT !.a.pendingEdit = IF @ = d THEN None ELSE @]
           l == loaded
           n == Noted(loaded)
           f == Noted(failed)
           e == EditingStarted(n)
<1>1. /\ x0 \in XState /\ x0.s = session /\ x0.a = app /\ app \in AppState
      /\ crossed \in BOOLEAN /\ sent \in [Bounds -> Nat] /\ app.uploads <= sent.edits
      /\ LoneLogin => app.dialog = NoDialog
  BY Facts
<1>2. /\ app.loads[d] > 0 /\ UNCHANGED <<writes, login, content, expired, sent, overlap>>
      /\ \/ /\ Become(e) \/ Become(l)
            /\ crossed' = (crossed \/ app.page # d)
         \/ /\ Become(f)
            /\ UNCHANGED crossed
  BY DEF AnswerLoad
<1>3. text \in Text /\ text.of = d
  BY DEF Text, IInv, TypeInv, TypeOK
<1>4. app.loads[d] - 1 \in Nat /\ app.loads \in [Document -> Nat]
  BY <1>1, <1>2 DEF AppState
<1> HIDE DEF text
<1> DEFINE Loaded(y) ==
             /\ y \in XState /\ Stays(x0, y) /\ Frame(x0, y) /\ y.a.nav = app.nav
             /\ y.a.mode = app.mode /\ y.a.uploads = app.uploads
             /\ y.a.doc = text /\ y.a.raw = text /\ y.a.initial = text
<1>5. Loaded(l)
  <2> DEFINE rest == [app.loads EXCEPT ![d] = @ - 1]
             m == [x0 EXCEPT !.a.loads = rest, !.a.doc = text, !.a.raw = text, !.a.initial = text]
  <2>1. rest \in [Document -> Nat]
    BY <1>4
  <2>2. l = m
    BY <1>1
  <2> HIDE DEF rest, l, loaded
  <2>3. /\ m \in XState /\ m.s = session /\ m.a.page = app.page /\ m.a.shown = app.shown
        /\ m.a.saving = app.saving /\ m.a.dialog = app.dialog /\ m.a.nav = app.nav
        /\ m.a.mode = app.mode /\ m.a.uploads = app.uploads
        /\ m.a.doc = text /\ m.a.raw = text /\ m.a.initial = text
    BY <1>1, <1>3, <2>1 DEF XState, AppState
  <2> HIDE DEF m
  <2>. QED  BY <1>1, <2>2, <2>3 DEF Stays, Frame
<1>6. ASSUME NEW u \in XState
      PROVE  Like(u, Noted(u)) /\ Frame(u, Noted(u))
  BY <1>6 DEF XState, AppState, Like, SameText, Frame
<1>7. Like(x0, failed) /\ Frame(x0, failed)
  BY <1>1, <1>4 DEF XState, AppState, Like, SameText, Frame
<1> HIDE DEF loaded, failed
<1>8. Loaded(n)
  <2>1. l \in XState
    BY <1>5
  <2>2. Like(l, n) /\ Frame(l, n)
    BY <1>6, <2>1
  <2> HIDE DEF n, l
  <2>. QED  BY <1>5, <2>2 DEF Like, SameText, Stays, Frame
<1>9. Like(x0, f) /\ Frame(x0, f)
  <2>1. failed \in XState
    BY <1>7 DEF Like
  <2>2. Like(failed, f) /\ Frame(failed, f)
    BY <1>6, <2>1
  <2> HIDE DEF f
  <2>. QED  BY <1>7, <2>2 DEF Like, SameText, Frame
<1> HIDE DEF l, n, f, Noted
<1>10. /\ e \in XState /\ Frame(n, e) /\ Stays(n, e)
       /\ e.a.nav = n.a.nav /\ e.a.uploads = n.a.uploads /\ e.a.doc = n.a.doc
       /\ \/ SameText(n, e)
          \/ /\ n.a.doc.of # None /\ "write" \in Allowed(n.a.shown)
             /\ e.a.mode = "edit" /\ e.a.raw = n.a.doc /\ e.a.initial = n.a.doc
  BY <1>8, EditingStartedEffect
<1>11. Viewed(n) => Viewed(e)
  BY <1>8, EditingStartedKeeps
<1> HIDE DEF e
<1>12. /\ e \in XState /\ Stays(x0, e) /\ Frame(x0, e) /\ e.a.nav = app.nav
       /\ e.a.uploads = app.uploads /\ (app.uploads > 0 => e.a.mode = "edit")
       /\ e.a.doc = text /\ e.a.raw = text /\ e.a.initial = text
       /\ Viewed(x0) => Viewed(e)
  <2>1. app.uploads > 0 => app.mode = "edit"
    BY <1>1 DEF IInv, ViewInv
  <2>2. Viewed(x0) => Viewed(n)
    BY <1>1, <1>8 DEF Viewed, Stays
  <2>3. e.a.raw = text /\ e.a.initial = text
    BY <1>8, <1>10 DEF SameText
  <2>4. app.mode = "edit" => e.a.mode = "edit"
    BY <1>8, <1>10 DEF SameText
  <2>5. Stays(x0, e) /\ Frame(x0, e)
    BY <1>8, <1>10 DEF Stays, Frame
  <2>. QED  BY <1>8, <1>10, <1>11, <2>1, <2>2, <2>3, <2>4, <2>5
<1>13. /\ l \in XState /\ Stays(x0, l) /\ Frame(x0, l) /\ l.a.nav = app.nav
       /\ l.a.uploads = app.uploads /\ (app.uploads > 0 => l.a.mode = "edit")
       /\ l.a.doc = text /\ l.a.raw = text /\ l.a.initial = text
       /\ Viewed(x0) => Viewed(l)
  BY <1>1, <1>5 DEF IInv, ViewInv, Viewed, Stays
<1>14. ASSUME NEW y \in XState, Become(y), Stays(x0, y), Frame(x0, y), y.a.nav = app.nav,
              y.a.uploads = app.uploads, app.uploads > 0 => y.a.mode = "edit",
              y.a.doc = text, y.a.raw = text, y.a.initial = text,
              Viewed(x0) => Viewed(y),
              crossed' = (crossed \/ app.page # d)
       PROVE  IInv'
  <2>1. app' = y.a /\ session' = y.s
    BY <1>14, Becomes
  <2>2. DialogInv'
    BY <1>1, <1>3, <1>14, <2>1 DEF IInv, DialogInv, Stays, Frame
  <2>3. ViewInv(y)
    BY <1>1, <1>14 DEF IInv, ViewInv, Stays
  <2>4. crossed' \/ TextInv(y)
    BY <1>1, <1>3, <1>14 DEF TextInv, Stays
  <2>5. LoneLogin => Viewed(y) /\ y.a.dialog = NoDialog
    BY <1>1, <1>14 DEF IInv, LoginInv, Frame, LoneLogin
  <2>6. /\ y.a.dialog.kind = "delete" => y.a.dialog.path \in Page
        /\ y.a.dialog.kind \in {"delete", "image", "versions"} => ~app.saving
        /\ y.a.saving = app.saving
    BY <1>1, <1>14 DEF IInv, TypeInv, SavingInv, Frame
  <2>7. crossed' \in BOOLEAN /\ (crossed => crossed')
    BY <1>1, <1>14
  <2>8. sent' \in [Bounds -> Nat] /\ y.a.uploads <= sent'.edits
    BY <1>1, <1>2, <1>14
  <2>. QED  BY <1>2, <1>14, <2>2, <2>3, <2>4, <2>5, <2>6, <2>7, <2>8, EditStep
<1>15. ASSUME Become(f), UNCHANGED crossed
       PROVE  IInv'
  <2>1. f \in XState /\ Stays(x0, f) /\ f.a.nav = app.nav /\ f.a.uploads = app.uploads
        /\ f.a.saving = app.saving /\ f.a.dialog = app.dialog /\ f.a.raw = app.raw
    BY <1>1, <1>9 DEF Like, SameText, Frame, Stays
  <2>2. app' = f.a /\ session' = session /\ crossed' \in BOOLEAN
    BY <1>1, <1>15, <2>1, Becomes DEF Stays
  <2>3. DialogInv'
    BY <1>1, <1>15, <2>1, <2>2, DialogKept DEF IInv, Stays
  <2>4. /\ f.a.dialog.kind = "delete" => f.a.dialog.path \in Page
        /\ f.a.dialog.kind \in {"delete", "image", "versions"} => ~app.saving
    BY <2>1 DEF IInv, TypeInv, SavingInv
  <2>5. ViewInv(f) /\ (crossed' \/ TextInv(f)) /\ (LoneLogin => Viewed(f) /\ f.a.dialog = NoDialog)
    BY <1>1, <1>9, <1>15, <2>1, LikeInv DEF IInv, LoginInv, LoneLogin
  <2>6. sent' \in [Bounds -> Nat] /\ f.a.uploads <= sent'.edits
    BY <1>1, <1>2, <2>1
  <2>. QED  BY <1>2, <1>15, <2>1, <2>2, <2>3, <2>4, <2>5, <2>6, EditStep
<1>. QED  BY <1>2, <1>12, <1>13, <1>14, <1>15
----------------------------------------------------------------------------
(* The steps: writes.                                                      *)

LEMMA SentStep ==
    ASSUME IInv, NEW kind \in {"save", "image", "move", "delete"}, NEW path \in Page,
           NEW to \in Document \cup {None}, Sent(kind, path, to), ~app.saving,
           UNCHANGED <<login, content, expired, crossed, overlap>>,
           kind = "move" => to \in Document,
           kind \in {"save", "image"} /\ ~crossed /\ ~Humble(session.token) => app.raw.of = path
    PROVE  IInv'
<1> DEFINE y == [x0 EXCEPT !.a.saving = TRUE, !.a.dialog = NoDialog]
           w == [kind |-> kind, path |-> path, to |-> to, raw |-> app.raw, token |-> session.token]
<1>1. /\ x0 \in XState /\ x0.s = session /\ x0.a = app /\ app \in AppState
      /\ session \in SessionState /\ sent \in [Bounds -> Nat]
      /\ app.uploads <= sent.edits /\ app.uploads \in Nat /\ sent.edits \in Nat
  BY Facts
<1>2. writes' = writes \cup {w} /\ Become(y)
  BY DEF Sent
<1>3. w \in Write /\ w.kind = kind /\ w.path = path /\ w.to = to /\ w.raw = app.raw
      /\ w.token = session.token
  BY <1>1 DEF Write, AppState, SessionState
<1> HIDE DEF w
<1>4. NoDialog \in [kind : Dialog, path : Page \cup {None}] /\ NoDialog.kind = "none"
  BY DEF NoDialog, Dialog
<1>5. Like(x0, y) /\ y.a.saving = TRUE /\ y.a.dialog = NoDialog
  BY <1>1, <1>4 DEF Like, XState, AppState, SameText
<1> HIDE DEF y
<1>6. y \in XState /\ y.a.uploads = app.uploads /\ y.a.nav = app.nav /\ y.s = session
  BY <1>1, <1>5 DEF Like, SameText
<1>7. session' = session /\ app' = y.a /\ app' \in AppState
  BY <1>2, <1>6, Becomes
<1>8. sent' \in [Bounds -> Nat] /\ sent'.edits >= sent.edits
  BY CountedEffect, FrontendAssumption DEF Sent, Bounds, IInv, TypeInv, TypeOK
<1>9. writes = {}
  BY DEF IInv, SavingInv
<1>10. TypeOK'
  BY <1>2, <1>3, <1>7, <1>8, <1>9 DEF IInv, TypeInv, TypeOK
<1>11. TypeInv'
  <2>1. sent'.edits \in Nat
    BY <1>8 DEF Bounds
  <2>2. app'.uploads <= sent'.edits
    BY <1>1, <1>6, <1>7, <1>8, <2>1
  <2>3. app'.nav.to = None => app'.nav = NoNavigation
    BY <1>6, <1>7 DEF IInv, TypeInv
  <2>4. \A v \in writes' : v.kind = "move" => v.to \in Document
    BY <1>2, <1>3, <1>9
  <2>5. app'.dialog.kind = "delete" => app'.dialog.path \in Page
    BY <1>4, <1>5, <1>7
  <2>. QED  BY <1>10, <2>2, <2>3, <2>4, <2>5 DEF TypeInv
<1>12. SavingInv'
  BY <1>2, <1>4, <1>5, <1>7, <1>9 DEF SavingInv
<1>13. SavedTextBelongs'
  <2> SUFFICES ASSUME NEW v \in writes', v.kind \in {"save", "image"},
                      "write" \in Allowed(v.token), ~crossed
               PROVE  v.raw.of = v.path
    BY DEF SavedTextBelongs
  <2>1. v = w
    BY <1>2, <1>9
  <2>2. ~Humble(session.token)
    BY <1>3, <2>1, HumbleMayNotWrite
  <2>. QED  BY <1>3, <2>1, <2>2
<1>14. DialogInv'
  BY <1>5, <1>7, DialogKept DEF IInv
<1>15. LoginInv'
  BY <1>1, <1>2, <1>5, <1>6, <1>7, LikeInv, Becomes DEF IInv, LoginInv, LoneLogin
<1>16. TokenInv(x0)' /\ ViewInv(x0)' /\ (crossed \/ TextInv(x0)') /\ (overlap \/ SessionInv(x0)')
  BY <1>1, <1>2, <1>5, <1>6, LikeInv, Becomes DEF IInv
<1>17. (crossed \/ TextInv(x0))' /\ (overlap \/ SessionInv(x0))'
  BY <1>16
<1>. QED  BY <1>11, <1>12, <1>13, <1>14, <1>15, <1>16, <1>17 DEF IInv

LEMMA SavingSteps ==
    ASSUME IInv, Save \/ ConfirmDelete \/ ConfirmImage \/ \E d \in Document : ConfirmMove(d)
    PROVE  IInv'
<1>1. /\ x0 \in XState /\ x0.s = session /\ x0.a = app /\ app \in AppState
      /\ LoneLogin => app.dialog = NoDialog
  BY Facts
<1>2. UNCHANGED <<login, content, expired, crossed, overlap>>
  BY DEF Save, ConfirmDelete, ConfirmImage, ConfirmMove, history
<1>3. app.page \in Page /\ None \in Document \cup {None} /\ None \in Page \cup {None}
  BY <1>1 DEF AppState
<1>4. NoDialog.kind = "none" /\ "none" \in Dialog
  BY DEF NoDialog, Dialog
<1>5. CASE Save
  <2>1. app.mode = "edit" /\ ~app.saving
    BY <1>5, ClickedMode DEF Save, editActions, canSaveDocument
  <2>2. ~crossed => app.raw.of = app.page
    BY <1>1, <2>1 DEF IInv, TextInv
  <2>. QED  BY <1>2, <1>3, <1>5, <2>1, <2>2, SentStep DEF Save
<1>6. CASE ConfirmDelete
  <2>1. app.dialog.path \in Page /\ ~app.saving
    BY <1>6 DEF ConfirmDelete, IInv, TypeInv, SavingInv
  <2>. QED  BY <1>2, <1>3, <1>6, <2>1, SentStep DEF ConfirmDelete
<1>7. ASSUME app.dialog.kind # "none", Opened("none", None), UNCHANGED <<writes, sent>>
      PROVE  IInv'
  <2>1. ~LoneLogin
    BY <1>1, <1>4, <1>7
  <2>. QED  BY <1>2, <1>3, <1>4, <1>7, <2>1, DialogStep DEF Opened
<1>8. CASE ConfirmImage
  <2>1. app.dialog.kind = "image"
    BY <1>8 DEF ConfirmImage
  <2>2. CASE ~app.saving /\ Sent("image", app.page, None)
    <3>1. ~crossed /\ ~Humble(session.token) => app.raw.of = app.page
      BY <2>1 DEF IInv, DialogInv
    <3>. QED  BY <1>2, <1>3, <2>2, <3>1, SentStep
  <2>3. CASE Opened("none", None) /\ UNCHANGED <<writes, sent>>
    BY <1>7, <2>1, <2>3
  <2>. QED  BY <1>8, <2>2, <2>3 DEF ConfirmImage
<1>9. ASSUME NEW d \in Document, ConfirmMove(d)
      PROVE  IInv'
  <2>1. app.dialog.kind = "move"
    BY <1>9 DEF ConfirmMove
  <2>2. CASE canMoveDocument /\ Sent("move", app.page, d)
    <3>1. ~app.saving
      BY <2>2 DEF canMoveDocument
    <3>. QED  BY <1>2, <1>3, <2>2, <3>1, SentStep
  <2>3. CASE Opened("none", None) /\ UNCHANGED <<writes, sent>>
    BY <1>7, <2>1, <2>3
  <2>. QED  BY <1>9, <2>2, <2>3 DEF ConfirmMove
<1>. QED  BY <1>5, <1>6, <1>8, <1>9

\* The answer to a write: there was no other.
LEMMA WriteStep ==
    ASSUME IInv, NEW w \in writes, writes' = writes \ {w}, NEW y \in XState, Become(y),
           content' \in [Document -> 0 .. MaxEdits + 1],
           UNCHANGED <<login, expired, sent, crossed, overlap>>,
           y.a.saving = FALSE, y.a.dialog = app.dialog, y.a.uploads \in {0, app.uploads},
           y.a.nav.to = None => y.a.nav = NoNavigation,
           TokenInv(y), ViewInv(y), TextInv(x0) => TextInv(y), SessionInv(x0) => SessionInv(y),
           Viewed(x0) /\ Humble(session.token) => Viewed(y) /\ Humble(y.s.token),
           DialogInv'
    PROVE  IInv'
<1>1. app.uploads \in Nat /\ sent.edits \in Nat /\ app.uploads <= sent.edits
  BY Facts
<1>2. session' = y.s /\ app' = y.a /\ session' \in SessionState /\ app' \in AppState
  BY Becomes
<1>3. TypeOK'
  BY <1>2 DEF IInv, TypeInv, TypeOK
<1>4. TypeInv'
  BY <1>1, <1>2, <1>3 DEF IInv, TypeInv
<1>5. writes' = {}
  BY DEF IInv, SavingInv
<1>6. SavingInv' /\ SavedTextBelongs'
  BY <1>2, <1>5 DEF SavingInv, SavedTextBelongs
<1>7. LoginInv'
  BY <1>2, Becomes DEF IInv, LoginInv, LoneLogin
<1>8. TokenInv(x0)' /\ ViewInv(x0)' /\ (crossed \/ TextInv(x0)') /\ (overlap \/ SessionInv(x0)')
  BY Becomes DEF IInv
<1>9. (crossed \/ TextInv(x0))' /\ (overlap \/ SessionInv(x0))'
  BY <1>8
<1>. QED  BY <1>4, <1>6, <1>7, <1>8, <1>9 DEF IInv

LEMMA WrittenType ==
    ASSUME TypeInv, NEW w \in writes, w.path \in Document
    PROVE  Written(w) \in [Document -> 0 .. MaxEdits + 1]
<1>1. w \in Write /\ content \in [Document -> 0 .. MaxEdits + 1]
      /\ (w.kind = "move" => w.to \in Document) /\ 0 \in 0 .. MaxEdits + 1
  BY FrontendAssumption DEF TypeInv, TypeOK
<1>2. w.raw.edit \in 0 .. MaxEdits + 1 /\ w.kind \in {"save", "image", "move", "delete"}
  BY <1>1 DEF Write, Text
<1>3. CASE w.kind \in {"save", "image"}
  BY <1>1, <1>2, <1>3 DEF Written
<1>4. CASE w.kind = "move"
  BY <1>1, <1>2, <1>4 DEF Written
<1>5. CASE w.kind = "delete"
  BY <1>1, <1>2, <1>5 DEF Written
<1>. QED  BY <1>2, <1>3, <1>4, <1>5

\* The editor is closed once a write has been answered.
Closed(y) ==
    /\ y \in XState /\ Stays(x0, y) /\ y.a.nav = app.nav
    /\ y.a.saving = FALSE /\ y.a.dialog = app.dialog
    /\ y.a.mode = "view" /\ y.a.uploads = 0 /\ y.a.doc \in {app.doc, NoText}

LEMMA ClosedInv ==
    ASSUME IInv, NEW y, Closed(y)
    PROVE  /\ TokenInv(y) /\ ViewInv(y)
           /\ TextInv(x0) => TextInv(y)
           /\ SessionInv(x0) => SessionInv(y)
           /\ Viewed(x0) /\ Humble(session.token) => Viewed(y) /\ Humble(y.s.token)
<1>1. /\ x0 \in XState /\ x0.s = session /\ x0.a = app
  BY Facts
<1>2. /\ y.s = session /\ y.a.page = app.page /\ y.a.shown = app.shown /\ y.a.nav = app.nav
      /\ y.a.mode = "view" /\ y.a.uploads = 0 /\ y.a.doc \in {app.doc, NoText}
  BY <1>1 DEF Closed, Stays
<1>3. TokenInv(y) /\ (SessionInv(x0) => SessionInv(y))
  BY <1>1, <1>2 DEF IInv, TokenInv, SessionInv
<1>4. ViewInv(y)
  BY <1>1, <1>2 DEF IInv, ViewInv, Viewed
<1>5. TextInv(x0) => TextInv(y)
  BY <1>1, <1>2, NoneTexts DEF TextInv
<1>6. Viewed(x0) /\ Humble(session.token) => Viewed(y) /\ Humble(y.s.token)
  BY <1>1, <1>2 DEF Viewed
<1>. QED  BY <1>3, <1>4, <1>5, <1>6

\* A navigation from there.
LEMMA ClosedNavigation ==
    ASSUME IInv, NEW v, Closed(v), NEW d \in Document
    PROVE  LET y == Navigated(v, d, "write") IN
           /\ y \in XState /\ y.a.saving = FALSE /\ y.a.dialog = app.dialog
           /\ y.a.uploads \in {0, app.uploads}
           /\ y.a.nav.to = None => y.a.nav = NoNavigation
           /\ TokenInv(y) /\ ViewInv(y)
           /\ TextInv(x0) => TextInv(y)
           /\ SessionInv(x0) => SessionInv(y)
           /\ Viewed(x0) /\ Humble(session.token) => Viewed(y) /\ Humble(y.s.token)
<1> DEFINE y == Navigated(v, d, "write")
<1>1. v \in XState /\ "write" \in By
  BY DEF Closed, By
<1>2. /\ y \in XState /\ Frame(v, y) /\ y.a.uploads \in {0, v.a.uploads}
      /\ y.a.nav.to = None => y.a.nav = NoNavigation
      /\ TokenInv(v) => TokenInv(y)
      /\ ViewInv(v) => ViewInv(y)
      /\ TextInv(v) => TextInv(y)
      /\ SessionInv(v) => SessionInv(y)
      /\ Viewed(v) /\ Humble(v.s.token) => Viewed(y) /\ Humble(y.s.token)
  BY <1>1, NavigatedKeeps
<1> HIDE DEF y
<1>3. /\ TokenInv(v) /\ ViewInv(v)
      /\ TextInv(x0) => TextInv(v)
      /\ SessionInv(x0) => SessionInv(v)
      /\ Viewed(x0) /\ Humble(session.token) => Viewed(v) /\ Humble(v.s.token)
  BY ClosedInv
<1>4. y.a.saving = FALSE /\ y.a.dialog = app.dialog /\ y.a.uploads \in {0, app.uploads}
  BY <1>2 DEF Closed, Frame
<1>. QED  BY <1>2, <1>3, <1>4 DEF y

LEMMA AnswerWriteStep ==
    ASSUME IInv, NEW w \in writes, AnswerWrite(w)
    PROVE  IInv'
<1> DEFINE x == [x0 EXCEPT !.a.saving = FALSE]
           v == Viewing(x)
<1>1. /\ x0 \in XState /\ x0.s = session /\ x0.a = app /\ app \in AppState
      /\ app.page = "/authenticate" => app.mode = "view"
  BY Facts
<1>2. /\ writes' = writes \ {w} /\ UNCHANGED <<login, expired, sent, crossed, overlap>>
      /\ \/ w.path \in Document /\ content' = Written(w) /\ Become(AfterWrite(w))
         \/ Become(x) /\ (content' = content \/ (w.path \in Document /\ content' = Written(w)))
  BY DEF AnswerWrite, history
<1>3. content' \in [Document -> 0 .. MaxEdits + 1]
  <2>1. w.path \in Document => Written(w) \in [Document -> 0 .. MaxEdits + 1]
    BY WrittenType DEF IInv
  <2>. QED  BY <1>2, <2>1 DEF IInv, TypeInv, TypeOK
<1>4. app.dialog.kind \notin {"image", "versions"}
  BY DEF IInv, SavingInv
<1>5. w \in Write /\ (w.kind = "move" => w.to \in Document)
  BY DEF IInv, TypeInv, TypeOK
<1>6. Like(x0, x) /\ x.a.saving = FALSE /\ x.a.dialog = app.dialog
  BY <1>1 DEF Like, XState, AppState, SameText
<1> HIDE DEF x
<1>7. x \in XState
  BY <1>6 DEF Like
<1>8. Closed(v)
  <2>1. /\ v \in XState /\ Frame(x, v)
        /\ v.s = x.s /\ v.a.page = x.a.page /\ v.a.nav = x.a.nav
        /\ v.a.shown = x.a.shown /\ v.a.mode = "view" /\ v.a.uploads = 0
        /\ v.a.doc = x.a.doc /\ v.a.raw = x.a.raw /\ v.a.initial = x.a.initial
    BY <1>7, ViewingEffect
  <2> HIDE DEF v
  <2>. QED  BY <1>1, <1>6, <2>1 DEF Closed, Frame, Like, SameText, Stays
<1>9. ASSUME NEW y \in XState, Become(y), y.a.saving = FALSE, y.a.dialog = app.dialog,
             y.a.uploads \in {0, app.uploads},
             y.a.nav.to = None => y.a.nav = NoNavigation,
             TokenInv(y), ViewInv(y), TextInv(x0) => TextInv(y),
             SessionInv(x0) => SessionInv(y),
             Viewed(x0) /\ Humble(session.token) => Viewed(y) /\ Humble(y.s.token)
      PROVE  IInv'
  <2>1. DialogInv'
    <3>1. app' = y.a
      BY <1>9, Becomes
    <3>. QED  BY <1>4, <1>9, <3>1 DEF DialogInv
  <2>. QED  BY <1>2, <1>3, <1>9, <2>1, WriteStep
<1>10. ASSUME NEW y, Closed(y), Become(y)
       PROVE  IInv'
  <2>1. y \in XState /\ y.a.saving = FALSE /\ y.a.dialog = app.dialog /\ y.a.uploads = 0
        /\ y.a.nav = app.nav
    BY <1>10 DEF Closed
  <2>2. app.nav.to = None => app.nav = NoNavigation
    BY DEF IInv, TypeInv
  <2>. QED  BY <1>9, <1>10, <2>1, <2>2, ClosedInv
<1>11. CASE Become(x)
  <2>1. /\ TokenInv(x) /\ ViewInv(x)
        /\ TextInv(x0) => TextInv(x)
        /\ SessionInv(x0) => SessionInv(x)
        /\ Viewed(x0) => Viewed(x)
    BY <1>1, <1>6, LikeInv DEF IInv
  <2>2. x.s = session /\ x.a.uploads = app.uploads /\ x.a.nav = app.nav
        /\ (app.nav.to = None => app.nav = NoNavigation)
    BY <1>1, <1>6 DEF Like, SameText, IInv, TypeInv
  <2>. QED  BY <1>6, <1>7, <1>9, <1>11, <2>1, <2>2
<1>12. CASE Become(AfterWrite(w)) /\ w.path \in Document
  <2>1. w.kind \in {"save", "image", "move", "delete"} /\ w.raw \in Text
    BY <1>5 DEF Write
  <2>2. CASE w.kind = "save"
    <3> DEFINE u == [v EXCEPT !.a.initial = app.raw]
               y == DocumentRequested(u)
    <3>1. Closed(u)
      BY <1>1, <1>8 DEF Closed, Stays, XState, AppState
    <3>2. u \in XState
      BY <3>1 DEF Closed
    <3> HIDE DEF v, u
    <3>3. /\ y \in XState /\ Frame(u, y) /\ Emptied(u, y)
          /\ y.s = u.s /\ y.a.page = u.a.page /\ y.a.nav = u.a.nav
          /\ y.a.shown = u.a.shown
      BY <3>2, DocumentRequestedEffect
    <3>4. AfterWrite(w) = y
      BY <2>2 DEF AfterWrite, AfterSave, x, v, u
    <3> HIDE DEF y
    <3>5. Closed(y)
      BY <3>1, <3>3 DEF Closed, Stays, Frame, Emptied
    <3>. QED  BY <1>10, <1>12, <3>4, <3>5
  <2>3. CASE w.kind = "image"
    <3> DEFINE doc == IF app.doc.of = None THEN app.doc ELSE [app.doc EXCEPT !.edit = w.raw.edit]
               z == [x EXCEPT !.a.initial = w.raw,
                              !.a.doc = IF @.of = None THEN @ ELSE [@ EXCEPT !.edit = w.raw.edit]]
               y == Queued(z, "image")
    <3>1. doc \in Text /\ doc.of = app.doc.of
      BY <1>1, <2>1 DEF AppState, Text
    <3>2. x.a.doc = app.doc
      BY <1>1, <1>6 DEF Like, SameText
    <3>3. AfterWrite(w) = IF app.page # w.path THEN x ELSE y
      BY <2>3 DEF AfterWrite, AfterImage, x
    <3> HIDE DEF doc
    <3>4. /\ z \in XState /\ z.s = x.s /\ z.a.page = x.a.page /\ z.a.shown = x.a.shown
          /\ z.a.nav = x.a.nav /\ z.a.saving = x.a.saving /\ z.a.dialog = x.a.dialog
          /\ z.a.mode = x.a.mode /\ z.a.uploads = x.a.uploads /\ z.a.raw = x.a.raw
          /\ z.a.doc = doc
      <4>1. z = [x EXCEPT !.a.initial = w.raw, !.a.doc = doc]
        BY <1>7, <3>2 DEF XState, AppState, doc
      <4> HIDE DEF z
      <4>. QED  BY <1>7, <2>1, <3>1, <4>1 DEF XState, AppState
    <3> HIDE DEF z
    <3>5. /\ y \in XState /\ y.s = session /\ y.a.page = app.page /\ y.a.shown = app.shown
          /\ y.a.nav = app.nav /\ y.a.saving = FALSE /\ y.a.dialog = app.dialog
          /\ y.a.mode = app.mode /\ y.a.uploads = app.uploads /\ y.a.raw = app.raw
          /\ y.a.doc = doc
      <4>1. /\ y \in XState /\ y.s = z.s /\ y.a.page = z.a.page /\ y.a.shown = z.a.shown
            /\ y.a.nav = z.a.nav /\ y.a.saving = z.a.saving /\ y.a.dialog = z.a.dialog
            /\ y.a.mode = z.a.mode /\ y.a.uploads = z.a.uploads /\ y.a.raw = z.a.raw
            /\ y.a.doc = z.a.doc
        BY <3>4 DEF Queued, XState, AppState
      <4>. QED  BY <1>1, <1>6, <3>4, <4>1 DEF Like, SameText
    <3> HIDE DEF y
    <3>6. CASE app.page # w.path
      BY <1>11, <1>12, <3>3, <3>6
    <3>7. CASE app.page = w.path
      <4>1. "/authenticate" \notin Document
        BY FrontendAssumption
      <4>2. ViewInv(y)
        BY <1>1, <1>12, <3>5, <3>7, <4>1 DEF IInv, ViewInv
      <4>3. TextInv(x0) => TextInv(y)
        BY <1>1, <3>1, <3>5 DEF TextInv
      <4>4. TokenInv(y) /\ (SessionInv(x0) => SessionInv(y)) /\ (Viewed(x0) => Viewed(y))
        BY <1>1, <3>5 DEF IInv, TokenInv, SessionInv, Viewed
      <4>5. app.nav.to = None => app.nav = NoNavigation
        BY DEF IInv, TypeInv
      <4>6. Become(y)
        BY <1>12, <3>3, <3>7
      <4>. QED  BY <1>9, <3>5, <4>2, <4>3, <4>4, <4>5, <4>6
    <3>. QED  BY <3>6, <3>7
  <2>4. CASE w.kind = "move"
    <3> DEFINE y == Navigated(v, w.to, "write")
    <3>1. AfterWrite(w) = y
      BY <2>4 DEF AfterWrite, AfterMove, x, v
    <3>2. w.to \in Document
      BY <1>5, <2>4
    <3> HIDE DEF v
    <3>3. /\ y \in XState /\ y.a.saving = FALSE /\ y.a.dialog = app.dialog
          /\ y.a.uploads \in {0, app.uploads}
          /\ y.a.nav.to = None => y.a.nav = NoNavigation
          /\ TokenInv(y) /\ ViewInv(y)
          /\ TextInv(x0) => TextInv(y)
          /\ SessionInv(x0) => SessionInv(y)
          /\ Viewed(x0) /\ Humble(session.token) => Viewed(y) /\ Humble(y.s.token)
      BY <1>8, <3>2, ClosedNavigation
    <3> HIDE DEF y
    <3>. QED  BY <1>9, <1>12, <3>1, <3>3
  <2>5. CASE w.kind = "delete"
    <3> DEFINE u == [v EXCEPT !.a.raw = NoText, !.a.initial = NoText]
               y == Navigated(u, Home, "write")
    <3>1. AfterWrite(w) = y
      BY <2>5 DEF AfterWrite, AfterDelete, x, v, u
    <3>2. Closed(u)
      <4>1. v.a \in AppState /\ v \in XState
        BY <1>8 DEF Closed, XState
      <4> HIDE DEF v
      <4> DEFINE b == [v.a EXCEPT !.raw = NoText, !.initial = NoText]
      <4>2. u.s = v.s /\ u.a = b
        BY <4>1 DEF XState, AppState
      <4>3. b \in AppState
        BY <4>1, NoneTexts DEF AppState
      <4>4. /\ b.page = v.a.page /\ b.nav = v.a.nav /\ b.shown = v.a.shown
            /\ b.mode = v.a.mode /\ b.uploads = v.a.uploads /\ b.doc = v.a.doc
            /\ b.saving = v.a.saving /\ b.dialog = v.a.dialog
        BY <4>1 DEF AppState
      <4> HIDE DEF b
      <4>5. u \in XState
        BY <4>1, <4>2, <4>3 DEF XState
      <4> HIDE DEF u
      <4>. QED  BY <1>8, <4>1, <4>2, <4>4, <4>5 DEF Closed, Stays
    <3>3. Home \in Document
      BY FrontendAssumption
    <3> HIDE DEF v, u
    <3>4. /\ y \in XState /\ y.a.saving = FALSE /\ y.a.dialog = app.dialog
          /\ y.a.uploads \in {0, app.uploads}
          /\ y.a.nav.to = None => y.a.nav = NoNavigation
          /\ TokenInv(y) /\ ViewInv(y)
          /\ TextInv(x0) => TextInv(y)
          /\ SessionInv(x0) => SessionInv(y)
          /\ Viewed(x0) /\ Humble(session.token) => Viewed(y) /\ Humble(y.s.token)
      BY <3>2, <3>3, ClosedNavigation
    <3> HIDE DEF y
    <3>. QED  BY <1>9, <1>12, <3>1, <3>4
  <2>. QED  BY <2>1, <2>2, <2>3, <2>4, <2>5
<1>. QED  BY <1>2, <1>11, <1>12
----------------------------------------------------------------------------
(* The theorems.                                                           *)

LEMMA InitHolds == Init => IInv
<1> SUFFICES ASSUME Init
             PROVE  IInv
  OBVIOUS
<1>1. PICK stored \in Token \cup {None}, d \in Document, existing \in SUBSET Document :
        /\ expired \in SUBSET ({stored} \ {None})
        /\ session = Started(stored, expired)
        /\ app = [page |-> "/wait", waitUrl |-> d, nav |-> NoNavigation, shown |-> None,
                  mode |-> "view", doc |-> NoText, raw |-> NoText, initial |-> NoText,
                  saving |-> FALSE, pendingEdit |-> None, pending |-> {}, uploads |-> 0,
                  dialog |-> NoDialog,
                  loads |-> [e \in Document |-> IF e = Home THEN 1 ELSE 0],
                  loading |-> FALSE]
        /\ writes = {} /\ login = 0
        /\ content = [e \in Document |-> IF e \in existing \cup {Home} THEN 1 ELSE 0]
        /\ sent = [b \in Bounds |-> 0]
        /\ crossed = FALSE /\ overlap = FALSE
  BY DEF Init
<1>2. expired \subseteq Token
  BY <1>1
<1>3. /\ session \in SessionState /\ session.valid = FALSE /\ session.ready = FALSE
      /\ \/ /\ session.token = None /\ session.verifying = {} /\ session.boot.at = "jwt"
         \/ /\ session.token # None /\ session.verifying = {session.token}
            /\ session.boot.at = "none"
  BY <1>1, <1>2, StartedEffect
<1>4. NoNavigation \in [to : Document \cup {None}, by : {"link", "new", "write"}]
      /\ NoNavigation.to = None
  BY DEF NoNavigation
<1>5. NoDialog \in [kind : Dialog, path : Page \cup {None}] /\ NoDialog.kind = "none"
  BY DEF NoDialog, Dialog
<1>6. 0 \in 0 .. MaxEdits /\ 0 \in 0 .. MaxEdits + 1 /\ 1 \in 0 .. MaxEdits + 1
  BY FrontendAssumption
<1>7. "/wait" \in Page /\ "/wait" \notin Document /\ "/wait" # "/authenticate"
  BY FrontendAssumption DEF Page
<1>8. app \in AppState
  <2> DEFINE loads == [e \in Document |-> IF e = Home THEN 1 ELSE 0]
  <2>1. loads \in [Document -> Nat]
    OBVIOUS
  <2> HIDE DEF loads
  <2>. QED  BY <1>1, <1>4, <1>5, <1>6, <1>7, <2>1, NoneTexts DEF AppState, loads
<1>9. content \in [Document -> 0 .. MaxEdits + 1] /\ sent \in [Bounds -> Nat]
  BY <1>1, <1>6
<1>10. TypeOK
  BY <1>1, <1>2, <1>3, <1>8, <1>9 DEF TypeOK
<1>11. sent.edits = 0
  BY <1>1 DEF Bounds
<1>12. TypeInv
  BY <1>1, <1>4, <1>5, <1>10, <1>11 DEF TypeInv
<1>13. SavingInv /\ LoginInv /\ DialogInv /\ SavedTextBelongs
  BY <1>1, <1>5 DEF SavingInv, LoginInv, DialogInv, SavedTextBelongs, LoneLogin
<1>14. x0.s = session /\ x0.a = app
  BY DEF x0
<1>15. TokenInv(x0)
  BY <1>1, <1>3, <1>4, <1>7, <1>14 DEF TokenInv
<1>16. ViewInv(x0) /\ TextInv(x0)
  BY <1>1, <1>7, <1>14, NoneTexts DEF ViewInv, TextInv
<1>17. SessionInv(x0)
  BY <1>1, <1>3, <1>7, <1>14 DEF SessionInv, Quiet
<1>. QED  BY <1>12, <1>13, <1>15, <1>16, <1>17 DEF IInv

LEMMA NextKeeps == IInv /\ [Next]_vars => IInv'
<1> SUFFICES ASSUME IInv, [Next]_vars
             PROVE  IInv'
  OBVIOUS
<1>1. CASE UNCHANGED vars
  BY <1>1 DEF vars, IInv, TypeInv, TypeOK, SavingInv, LoginInv, DialogInv, SavedTextBelongs, LoneLogin,
     TokenInv, Viewed, ViewInv, TextInv, SessionInv, Quiet, hasToken, Humble, Allowed, x0
<1>2. ASSUME NEW d \in Document, Navigate(d) \/ ConfirmMove(d) \/ ConfirmNew(d) \/ AnswerLoad(d)
      PROVE  IInv'
  BY <1>2, NavigateStep, SavingSteps, ConfirmNewStep, AnswerLoadStep
<1>3. CASE Logout \/ LeaveWait \/ SubmitLogin \/ AnswerLogin
  BY <1>3, LogoutStep, LeaveWaitStep, SubmitLoginStep, AnswerLoginStep
<1>4. ASSUME NEW token \in Token, AnswerVerify(token) \/ Expire(token)
      PROVE  IInv'
  BY <1>4, AnswerVerifyStep, ExpireStep
<1>5. CASE AnswerBootToken \/ AnswerBootVerify \/ FireTimer
  BY <1>5, AnswerBootTokenStep, AnswerBootVerifyStep, FireTimerStep
<1>6. CASE StartEditing \/ Type \/ Cancel \/ Save \/ OpenDialog \/ Dismiss
  BY <1>6, StartEditingStep, TypingStep, ViewingStep, SavingSteps, OpenedStep
<1>7. CASE ConfirmDiscard \/ ConfirmDelete \/ ConfirmMoveDirty \/ ConfirmImage
  BY <1>7, ViewingStep, SavingSteps, OpenedStep
<1>8. CASE RestoreVersion \/ InsertAttachment \/ PasteIntoDocument \/ AnswerUpload
  BY <1>8, RestoreVersionStep, InsertAttachmentStep, TypingStep, AnswerUploadStep
<1>9. ASSUME NEW kind \in {"insert", "image"}, ApplyRequest(kind)
      PROVE  IInv'
  BY <1>9, ApplyRequestStep
<1>10. ASSUME NEW w \in writes, AnswerWrite(w)
       PROVE  IInv'
  BY <1>10, AnswerWriteStep
<1>. QED  BY <1>1, <1>2, <1>3, <1>4, <1>5, <1>6, <1>7, <1>8, <1>9, <1>10 DEF Next

\* What the properties rest on: the write in flight and the dialogs it closes,
\* who may be at the login or on the way to a document, whose text is shown and
\* edited, and what the session is while nobody has disturbed it.
THEOREM Invariance == Spec => []IInv
  BY InitHolds, NextKeeps, PTL DEF Spec

\* Every variable stays within its type: the session with its bootstrap, the
\* application, what is in flight and what the backend holds.
THEOREM TypeCorrect == Spec => []TypeOK
<1>1. IInv => TypeOK
  BY DEF IInv, TypeInv
<1>. QED  BY <1>1, Invariance, PTL

\* The flag that is raised while a document is saved, moved or deleted stands for
\* exactly one request (isSavingDocument).
THEOREM WritesOneByOne == Spec => []OneWrite
<1>1. IInv => OneWrite
  <2> SUFFICES ASSUME IInv
               PROVE  OneWrite
    OBVIOUS
  <2>1. (app.saving <=> writes # {}) /\ \A v, w \in writes : v = w
    BY DEF IInv, SavingInv
  <2>2. Cardinality(writes) <= 1
    <3>1. CASE writes = {}
      BY <3>1, FS_EmptySet
    <3>2. CASE writes # {}
      <4>1. PICK w \in writes : writes = {w}
        BY <2>1, <3>2
      <4>2. Cardinality({w}) = 1
        BY FS_Singleton
      <4>. QED  BY <4>1, <4>2
    <3>. QED  BY <3>1, <3>2
  <2>. QED  BY <2>1, <2>2 DEF OneWrite
<1>. QED  BY <1>1, Invariance, PTL

\* A document is saved only with a text that came from it, unless a text has arrived
\* on another page than the one it was asked for (loadDocumentForCurrentUrl, saveDocument).
THEOREM SavedTextsBelong == Spec => []SavedTextBelongs
<1>1. IInv => SavedTextBelongs
  BY DEF IInv
<1>. QED  BY <1>1, Invariance, PTL

\* Once every answer about the session has come, it is ready, valid exactly with a
\* token, and the page shows the authorizations of that token, unless the session
\* changed while an answer was awaited (ensureBootstrapSessionIfNeeded, and the
\* verification of a stored token).
THEOREM SessionAgrees == Spec => []SessionSettles
<1>1. IInv => SessionSettles
  <2>1. x0.s = session /\ x0.a = app
    BY DEF x0
  <2>. QED  BY <2>1 DEF IInv, SessionInv, SessionSettles
<1>. QED  BY <1>1, Invariance, PTL

\* What TypedTextKept allows a step to do to a typed text.
Accounted ==
    EditorKeepsText \/ TextIsStored \/ GivenUpByUser \/ SessionEnded \/ OvertakenByAnswer

\* The editor and its text are those of app.
Untouched(a) == a.mode = app.mode /\ a.raw = app.raw /\ a.initial = app.initial

LEMMA UntouchedText ==
    ASSUME EditorShown, isEditorDirty, NEW y, Become(y), Untouched(y.a)
    PROVE  Accounted
  BY DEF EditorShown, isEditorDirty, Become, Untouched, EditorKeepsText, Accounted

\* A navigation, by a link, a login or a logout, is the user's.
LEMMA CountedNavigation ==
    ASSUME IInv, Counted("navigations", MaxNavigations)
    PROVE  Accounted
<1>1. sent \in [Bounds -> Nat] /\ "navigations" \in Bounds
  BY Facts DEF Bounds
<1>2. sent'.navigations = sent.navigations + 1 /\ sent.navigations \in Nat
  BY <1>1 DEF Counted
<1>3. sent'.navigations > sent.navigations
  BY <1>2
<1>. QED  BY <1>3 DEF GivenUpByUser, Accounted

\* What waits for the bootstrap request ends a navigation of the user or the session.
LEMMA AwaitedText ==
    ASSUME IInv, EditorShown, isEditorDirty, NEW x \in XState,
           x.a.nav = app.nav, SameText(x0, x), Become(BootAwaited(x, session.boot.navigates))
    PROVE  Accounted
<1> DEFINE y == BootAwaited(x, session.boot.navigates)
<1>1. x0.a = app /\ session \in SessionState
  BY Facts
<1>2. session.boot.navigates \in BOOLEAN
  BY <1>1 DEF SessionState
<1>3. x.a.nav.to = None => x.a.nav = NoNavigation
  BY DEF IInv, TypeInv
<1>4. /\ y \in XState /\ y.a.nav = NoNavigation
      /\ Stays(x, y) \/ (Enters(x, y) /\ x.s.valid) \/ SignsOut(x, y)
      /\ x.a.nav.to = None /\ ~(session.boot.navigates /\ ~x.s.valid) => y = x
      /\ session.boot.navigates /\ ~x.s.valid => y.a.page = "/authenticate"
  BY <1>2, <1>3, BootAwaitedEffect
<1>5. Become(y)
  OBVIOUS
<1> HIDE DEF y
<1>6. app' = y.a /\ session' = y.s
  BY <1>5 DEF Become
<1>7. CASE app.nav # NoNavigation
  BY <1>4, <1>6, <1>7 DEF GivenUpByUser, Accounted
<1>8. CASE session.boot.navigates /\ ~x.s.valid
  <2>1. x.s \in SessionState
    BY DEF XState
  <2>2. ~y.s.valid
    BY <1>4, <1>8, <2>1, DestroyedEffect DEF Stays, SignsOut
  <2>. QED  BY <1>4, <1>6, <1>8, <2>2 DEF SessionEnded, Accounted
<1>9. CASE app.nav = NoNavigation /\ ~(session.boot.navigates /\ ~x.s.valid)
  <2>1. y = x
    BY <1>4, <1>9 DEF NoNavigation
  <2>2. Untouched(y.a)
    BY <1>1, <2>1 DEF SameText, Untouched
  <2>. QED  BY <1>5, <2>2, UntouchedText
<1>. QED  BY <1>7, <1>8, <1>9

\* Navigation and answers about the session.
LEMMA SessionText ==
    ASSUME IInv, EditorShown, isEditorDirty,
           \/ \E d \in Document : Navigate(d)
           \/ Logout \/ LeaveWait \/ SubmitLogin \/ AnswerLogin
           \/ \E token \in Token : AnswerVerify(token) \/ Expire(token)
           \/ AnswerBootToken \/ AnswerBootVerify \/ FireTimer
    PROVE  Accounted
<1>1. /\ x0 \in XState /\ x0.s = session /\ x0.a = app /\ session \in SessionState
      /\ login \in Nat
  BY Facts DEF IInv, TypeInv, TypeOK
<1>2. x0 = [s |-> session, a |-> app]
  BY DEF x0
<1>3. CASE (\E d \in Document : Navigate(d)) \/ Logout
  <2>1. Counted("navigations", MaxNavigations)
    BY <1>3 DEF Navigate, Logout
  <2>. QED  BY <2>1, CountedNavigation
<1>4. CASE LeaveWait \/ SubmitLogin
  <2>1. app.page \in Document /\ "/wait" \notin Document /\ "/authenticate" \notin Document
    BY FrontendAssumption DEF EditorShown
  <2>. QED  BY <1>4, <2>1 DEF LeaveWait, SubmitLogin
<1>5. CASE AnswerLogin
  <2>1. login' = login - 1
    BY <1>5, Zenon DEF AnswerLogin
  <2>2. login' < login
    BY <1>1, <2>1
  <2>. QED  BY <2>2 DEF OvertakenByAnswer, Accounted
<1>6. ASSUME NEW s \in SessionState, Become([x0 EXCEPT !.s = s])
      PROVE  Accounted
  <2>1. Untouched([x0 EXCEPT !.s = s].a)
    BY <1>2 DEF Untouched
  <2>. QED  BY <1>6, <2>1, UntouchedText
<1>7. ASSUME NEW s \in SessionState, Become(AuthenticationUpdated([x0 EXCEPT !.s = s]))
      PROVE  Accounted
  <2> DEFINE v == [x0 EXCEPT !.s = s]
             y == AuthenticationUpdated(v)
  <2>1. v \in XState /\ v.a = app
    BY <1>1 DEF XState
  <2>2. Become(y)
    BY <1>7
  <2> HIDE DEF v
  <2>3. SameText(v, y)
    BY <2>1, AuthenticationUpdatedEffect
  <2> HIDE DEF y
  <2>4. Untouched(y.a)
    BY <2>1, <2>3 DEF SameText, Untouched
  <2>. QED  BY <2>2, <2>4, UntouchedText
<1>8. ASSUME Become(BootAwaited([x0 EXCEPT !.s = BootFailed(@)], session.boot.navigates))
      PROVE  Accounted
  <2> DEFINE x == [x0 EXCEPT !.s = BootFailed(@)]
  <2>1. BootFailed(session) \in SessionState
    BY <1>1, BootEndedEffect
  <2>2. x \in XState /\ x.a = app
    BY <1>1, <2>1 DEF XState
  <2>3. Become(BootAwaited(x, session.boot.navigates))
    BY <1>8
  <2> HIDE DEF x
  <2>4. SameText(x0, x)
    BY <1>1, <2>2 DEF SameText
  <2>. QED  BY <2>2, <2>3, <2>4, AwaitedText
<1>9. CASE \E token \in Token : AnswerVerify(token) \/ Expire(token)
  <2>1. PICK token \in Token : AnswerVerify(token) \/ Expire(token)
    BY <1>9
  <2>2. CASE Expire(token)
    BY <2>2 DEF Expire, EditorShown, isEditorDirty, EditorKeepsText, Accounted
  <2>3. CASE AnswerVerify(token)
    <3>1. VerifySucceeded(session, token) \in SessionState
      BY <1>1, VerifySucceededEffect
    <3>2. VerifyFailed(session, token) \in SessionState
      BY <1>1, VerifyFailedEffect
    <3>3. \/ Become(AuthenticationUpdated([x0 EXCEPT !.s = VerifySucceeded(session, token)]))
          \/ Become([x0 EXCEPT !.s = VerifyFailed(session, token)])
      BY <1>1, <2>3 DEF AnswerVerify
    <3>. QED  BY <1>6, <1>7, <3>1, <3>2, <3>3
  <2>. QED  BY <2>1, <2>2, <2>3
<1>10. CASE AnswerBootToken
  <2>1. BootTokenArrived(session) \in SessionState
    BY <1>1, BootTokenArrivedEffect
  <2>2. \/ Become([x0 EXCEPT !.s = BootTokenArrived(session)])
        \/ Become(BootAwaited([x0 EXCEPT !.s = BootFailed(@)], session.boot.navigates))
    BY <1>1, <1>10 DEF AnswerBootToken
  <2>. QED  BY <1>6, <1>8, <2>1, <2>2
<1>11. CASE AnswerBootVerify
  <2> DEFINE v == [x0 EXCEPT !.s = BootSucceeded(@)]
             x == AuthenticationUpdated(v)
  <2>1. BootSucceeded(session) \in SessionState
    BY <1>1, BootEndedEffect
  <2>2. v \in XState /\ v.a = app
    BY <1>1, <2>1 DEF XState
  <2>3. \/ Become(BootAwaited(x, session.boot.navigates))
        \/ Become(BootAwaited([x0 EXCEPT !.s = BootFailed(@)], session.boot.navigates))
    BY <1>11 DEF AnswerBootVerify
  <2> HIDE DEF v
  <2>4. x \in XState /\ SameText(v, x) /\ x.a.nav = app.nav
    BY <2>2, AuthenticationUpdatedEffect
  <2> HIDE DEF x
  <2>5. SameText(x0, x)
    BY <1>1, <2>2, <2>4 DEF SameText
  <2>. QED  BY <1>8, <2>3, <2>4, <2>5, AwaitedText
<1>12. CASE FireTimer
  <2>1. TimerFired(session, expired) \in SessionState
    BY <1>1, <1>12, TimerFiredEffect DEF FireTimer
  <2>2. Become([x0 EXCEPT !.s = TimerFired(session, expired)])
    BY <1>1, <1>12 DEF FireTimer
  <2>. QED  BY <1>6, <2>1, <2>2
<1>. QED  BY <1>3, <1>4, <1>5, <1>9, <1>10, <1>11, <1>12

\* An edit that is counted leaves room for the upload it starts.
LEMMA UploadsBelow ==
    ASSUME IInv, Counted("edits", MaxEdits)
    PROVE  app.uploads + 1 \in 0 .. MaxEdits
<1>1. /\ sent \in [Bounds -> Nat] /\ app.uploads \in Nat /\ sent.edits \in Nat
      /\ app.uploads <= sent.edits
  BY Facts
<1>2. sent.edits < MaxEdits /\ MaxEdits \in Nat
  BY FrontendAssumption DEF Counted
<1>. QED  BY <1>1, <1>2

\* The editor and its dialogs.
LEMMA EditingText ==
    ASSUME IInv, EditorShown, isEditorDirty,
           \/ \E d \in Document : ConfirmMove(d) \/ ConfirmNew(d)
           \/ StartEditing \/ Type \/ Cancel \/ Save \/ OpenDialog \/ Dismiss
           \/ ConfirmDiscard \/ ConfirmDelete \/ ConfirmMoveDirty \/ ConfirmImage
           \/ RestoreVersion \/ InsertAttachment \/ PasteIntoDocument \/ AnswerUpload
           \/ \E kind \in {"insert", "image"} : ApplyRequest(kind)
    PROVE  Accounted
<1>1. /\ x0 \in XState /\ x0.a = app /\ app \in AppState /\ sent \in [Bounds -> Nat]
      /\ sent.edits \in Nat /\ app.mode = "edit"
  BY Facts DEF EditorShown
<1>2. ASSUME NEW x \in XState, Untouched(x.a), Become(Edited(x)), Counted("edits", MaxEdits)
      PROVE  Accounted
  <2>1. "edits" \in Bounds /\ MaxEdits \in Nat
    BY FrontendAssumption DEF Bounds
  <2>2. sent'.edits > sent.edits
    <3>1. sent'.edits = sent.edits + 1
      BY <1>1, <1>2, <2>1, CountedEffect
    <3>. QED  BY <1>1, <3>1
  <2>3. /\ app'.mode = x.a.mode /\ app'.initial = x.a.initial /\ app'.raw.of = x.a.raw.of
    BY <1>2 DEF Edited, Become, XState, AppState, Text
  <2>. QED  BY <1>1, <1>2, <2>2, <2>3 DEF Untouched, EditorKeepsText, Accounted
<1>3. Untouched(x0.a)
  BY <1>1 DEF Untouched
<1>4. ASSUME NEW n \in 0 .. MaxEdits
      PROVE  LET x == [x0 EXCEPT !.a.uploads = n] IN x \in XState /\ Untouched(x.a)
  BY <1>1 DEF XState, AppState, Untouched
<1>5. ASSUME NEW kind, NEW path, Opened(kind, path)
      PROVE  Accounted
  <2>1. Untouched([x0 EXCEPT !.a.dialog = [kind |-> kind, path |-> path]].a)
    BY <1>1 DEF Untouched, XState, AppState
  <2>. QED  BY <1>5, <2>1, UntouchedText DEF Opened
<1>6. ASSUME NEW kind, NEW path, NEW to, Sent(kind, path, to)
      PROVE  Accounted
  <2>1. Untouched([x0 EXCEPT !.a.saving = TRUE, !.a.dialog = NoDialog].a)
    BY <1>1 DEF Untouched, XState, AppState
  <2>. QED  BY <1>6, <2>1, UntouchedText DEF Sent
<1>7. CASE \/ OpenDialog \/ Dismiss \/ ConfirmMoveDirty \/ Cancel
           \/ Save \/ ConfirmDelete \/ ConfirmImage
           \/ \E d \in Document : ConfirmMove(d)
  <2>1. \/ \E kind, path : Opened(kind, path)
        \/ \E kind, path, to : Sent(kind, path, to)
    BY <1>7 DEF OpenDialog, OpenMoveDialog, PasteImage, Dismiss, ConfirmMoveDirty, Cancel,
                Save, ConfirmDelete, ConfirmImage, ConfirmMove
  <2>. QED  BY <1>5, <1>6, <2>1
<1>8. CASE \E d \in Document : ConfirmNew(d)
  <2>1. Counted("navigations", MaxNavigations)
    BY <1>8, Zenon DEF ConfirmNew
  <2>. QED  BY <2>1, CountedNavigation
<1>9. CASE StartEditing
  <2>1. FALSE
    BY <1>1, <1>9, ClickedMode DEF StartEditing, Clicked, activeActions, editActions
  <2>. QED  BY <2>1
<1>10. CASE ConfirmDiscard
  <2>1. app'.dialog = NoDialog
    <3> DEFINE v == Viewing(x0)
    <3>1. v \in XState
      BY <1>1, ViewingEffect
    <3>2. app' = [v EXCEPT !.a.dialog = NoDialog, !.a.raw = app.initial].a
      BY <1>10 DEF ConfirmDiscard, Become
    <3> HIDE DEF v
    <3>. QED  BY <3>1, <3>2 DEF XState, AppState
  <2>. QED  BY <1>10, <2>1 DEF ConfirmDiscard, GivenUpByUser, Accounted
<1>11. CASE RestoreVersion
  <2>1. app'.dialog = NoDialog
    BY <1>1, <1>11 DEF RestoreVersion, Become, XState, AppState
  <2>. QED  BY <1>11, <2>1 DEF RestoreVersion, GivenUpByUser, Accounted
<1>12. CASE InsertAttachment
  <2>1. Untouched(Queued([x0 EXCEPT !.a.dialog = NoDialog], "insert").a)
    BY <1>1 DEF Queued, Untouched, XState, AppState
  <2>. QED  BY <1>12, <2>1, UntouchedText DEF InsertAttachment
<1>13. CASE Type
  BY <1>1, <1>2, <1>3, <1>13 DEF Type
<1>14. CASE PasteIntoDocument
  <2>1. Counted("edits", MaxEdits) /\ Become(Edited([x0 EXCEPT !.a.uploads = @ + 1]))
    BY <1>14 DEF PasteIntoDocument, ImageInserted
  <2>2. app.uploads + 1 \in 0 .. MaxEdits
    BY <2>1, UploadsBelow
  <2>. QED  BY <1>1, <1>2, <1>4, <2>1, <2>2
<1>15. CASE \E kind \in {"insert", "image"} : ApplyRequest(kind)
  <2>1. PICK kind \in {"insert", "image"} : ApplyRequest(kind)
    BY <1>15
  <2> DEFINE p == [x0 EXCEPT !.a.pending = @ \ {kind}]
             q == [p EXCEPT !.a.uploads = @ + 1]
  <2>2. Counted("edits", MaxEdits)
    BY <2>1 DEF ApplyRequest
  <2>3. app.uploads + 1 \in 0 .. MaxEdits
    BY <2>2, UploadsBelow
  <2>4. p \in XState /\ Untouched(p.a) /\ p.a.uploads = app.uploads
    BY <1>1 DEF XState, AppState, Untouched
  <2>5. Become(Edited(p)) \/ Become(Edited(q))
    BY <2>1 DEF ApplyRequest, ImageInserted
  <2> HIDE DEF p
  <2>6. q \in XState /\ Untouched(q.a)
    BY <2>3, <2>4 DEF XState, AppState, Untouched
  <2> HIDE DEF q
  <2>. QED  BY <1>2, <2>2, <2>4, <2>5, <2>6
<1>16. CASE AnswerUpload
  <2> DEFINE x == [x0 EXCEPT !.a.uploads = @ - 1]
  <2>1. app.uploads - 1 \in 0 .. MaxEdits
    <3>1. app.uploads > 0
      BY <1>16 DEF AnswerUpload
    <3>2. app.uploads \in 0 .. MaxEdits /\ MaxEdits \in Nat
      BY <1>1, FrontendAssumption DEF AppState
    <3>. QED  BY <3>1, <3>2
  <2>2. x \in XState /\ Untouched(x.a)
    BY <1>1, <1>4, <2>1
  <2>3. Become(x) \/ (Counted("edits", MaxEdits) /\ Become(Edited(x)))
    BY <1>16 DEF AnswerUpload
  <2> HIDE DEF x
  <2>. QED  BY <1>2, <2>2, <2>3, UntouchedText
<1>. QED  BY <1>7, <1>8, <1>9, <1>10, <1>11, <1>12, <1>13, <1>14, <1>15, <1>16

\* The loads in flight, through the functions that leave them alone.
LoadsAre(x, loads) == "a" \in DOMAIN x /\ "loads" \in DOMAIN x.a /\ x.a.loads = loads

\* Answers about documents.
LEMMA AnsweredText ==
    ASSUME IInv, EditorShown, isEditorDirty,
           (\E d \in Document : AnswerLoad(d)) \/ (\E w \in writes : AnswerWrite(w))
    PROVE  Accounted
<1>1. /\ x0 \in XState /\ x0.a = app /\ app \in AppState /\ app.mode = "edit"
  BY Facts DEF EditorShown
<1>2. ASSUME NEW d \in Document, AnswerLoad(d)
      PROVE  Accounted
  <2>1. app.loads[d] \in Nat
    BY <1>1 DEF AppState
  <2>2. app'.loads[d] = app.loads[d] - 1
    <3> DEFINE text == [of |-> d, edit |-> content[d]]
               loads == [app.loads EXCEPT ![d] = @ - 1]
               Noted(x) == [x EXCEPT !.a.pendingEdit = IF @ = d THEN None ELSE @]
               loaded == [x0 EXCEPT !.a.loads[d] = @ - 1, !.a.doc = text, !.a.raw = text,
                                    !.a.initial = text]
               failed == [x0 EXCEPT !.a.loads[d] = @ - 1]
    <3>1. \/ Become(EditingStarted(Noted(loaded))) \/ Become(loaded) \/ Become(Noted(failed))
      BY <1>2 DEF AnswerLoad
    <3>2. LoadsAre(loaded, loads) /\ LoadsAre(failed, loads)
      BY <1>1 DEF XState, AppState, LoadsAre
    <3> HIDE DEF loaded, failed, loads
    <3>3. LoadsAre(Noted(loaded), loads) /\ LoadsAre(Noted(failed), loads)
      BY <3>2 DEF LoadsAre
    <3>4. LoadsAre(EditingStarted(Noted(loaded)), loads)
      <4> DEFINE n == Noted(loaded)
      <4>1. LoadsAre(n, loads)
        BY <3>3
      <4> HIDE DEF n
      <4>2. LoadsAre(EditingStarted(n), loads)
        BY <4>1 DEF EditingStarted, LoadsAre
      <4>. QED  BY <4>2 DEF n
    <3>5. app'.loads = loads
      BY <3>1, <3>2, <3>3, <3>4 DEF Become, LoadsAre
    <3>. QED  BY <1>1, <3>5 DEF AppState, loads
  <2>3. app'.loads[d] < app.loads[d]
    BY <2>1, <2>2
  <2>. QED  BY <2>3 DEF OvertakenByAnswer, Accounted
<1>3. ASSUME NEW w \in writes, AnswerWrite(w)
      PROVE  Accounted
  <2> DEFINE x == [x0 EXCEPT !.a.saving = FALSE]
  <2>1. w \in writes \ writes' /\ w \in Write
    BY <1>3 DEF AnswerWrite, IInv, TypeInv, TypeOK
  <2>2. \/ w.path \in Document /\ content' = Written(w) /\ Become(AfterWrite(w))
        \/ Become(x)
    BY <1>3 DEF AnswerWrite
  <2>3. x \in XState /\ Untouched(x.a) /\ x.a.page = app.page
    BY <1>1 DEF XState, AppState, Untouched
  <2>4. w.kind \in {"save", "image", "move", "delete"}
    BY <2>1 DEF Write
  <2>5. CASE w.kind \in {"move", "delete"} \/ (w.kind = "save" /\ w.raw # app.raw)
    BY <2>1, <2>5 DEF OvertakenByAnswer, Accounted
  <2>6. CASE w.kind \in {"save", "image"} /\ w.raw = app.raw /\ ~Become(x)
    <3>1. content' = [content EXCEPT ![w.path] = w.raw.edit] /\ w.path \in Document
      BY <2>2, <2>6 DEF Written
    <3>2. content'[w.path] = app.raw.edit
      BY <2>6, <3>1 DEF IInv, TypeInv, TypeOK
    <3>. QED  BY <2>1, <2>6, <3>2 DEF TextIsStored, Accounted
  <2>7. CASE w.kind = "image" /\ w.raw # app.raw /\ ~Become(x)
    <3> DEFINE q == [x EXCEPT !.a.initial = w.raw,
                              !.a.doc = IF @.of = None THEN @ ELSE [@ EXCEPT !.edit = w.raw.edit]]
               y == Queued(q, "image")
    <3>1. AfterWrite(w) \in {x, y}
      BY <1>1, <2>7 DEF AfterWrite, AfterImage
    <3>2. Become(y)
      BY <2>2, <2>7, <3>1
    <3> HIDE DEF x
    <3>3. y.a.mode = x.a.mode /\ y.a.raw = x.a.raw /\ y.a.initial = w.raw
      BY <2>3 DEF Queued, XState, AppState
    <3>4. app' = y.a
      BY <3>2 DEF Become
    <3>. QED  BY <1>1, <2>3, <2>7, <3>3, <3>4 DEF Untouched, EditorKeepsText, Accounted
  <2>8. CASE Become(x)
    BY <2>3, <2>8, UntouchedText
  <2>. QED  BY <2>4, <2>5, <2>6, <2>7, <2>8
<1>. QED  BY <1>2, <1>3

\* A typed text stays in the editor until the backend holds it, through any answer about
\* the session, upload, failed write, image save, timer and dialog: else the user has given
\* it up, the session could not be had again, or an awaited answer has overtaken it
\* (startEditing, saveDocument, saveInitialDocumentAndUploadImage).
THEOREM TypedTextsSurvive == Spec => TypedTextKept
<1> DEFINE Kept == EditorShown /\ isEditorDirty =>
                     (EditorKeepsText \/ TextIsStored \/ GivenUpByUser \/ SessionEnded
                         \/ OvertakenByAnswer)
<1>1. IInv /\ [Next]_vars => [Kept]_vars
  <2> SUFFICES ASSUME IInv, Next, EditorShown, isEditorDirty
               PROVE  Accounted
    BY DEF Accounted
  <2>. QED  BY SessionText, EditingText, AnsweredText DEF Next
<1>. QED  BY <1>1, Invariance, PTL DEF Spec, TypedTextKept

=============================================================================
