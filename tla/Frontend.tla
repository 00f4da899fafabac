------------------------------ MODULE Frontend ------------------------------
(***************************************************************************)
(* The application component of the frontend (frontend/src/app/app.ts)     *)
(* with the session service, the route guard, the pages /wait and          *)
(* /authenticate and the backend that answers: navigation, editing and the *)
(* requests for documents, whose answers come in any order.                *)
(*                                                                         *)
(* JavaScript runs a handler to its end, so every handler, with all that   *)
(* it calls, is one function on the state x = [s |-> session, a |-> app],  *)
(* and an action is a click, the answer to a request, or a timer.  A write *)
(* takes effect on the backend when it is answered, or, when the answer is *)
(* lost, perhaps.                                                          *)
(*                                                                         *)
(* Not modelled: the files of attachments, pinned documents, the           *)
(* uninitialized and the local mode; application pages other than the two  *)
(* above.                                                                  *)
(***************************************************************************)
EXTENDS Session, Naturals, FiniteSetsExt

CONSTANTS
    Document,         \* paths of documents
    Home,             \* the path /
    Authorizations,   \* the authorizations of each token
    MaxNavigations,   \* bound: links followed and returns to /authenticate
    MaxEdits,         \* bound: edits
    MaxWrites,        \* bound: writes sent
    MaxLogins,        \* bound: logins sent
    MaxExpirations,   \* bound: tokens that expire
    MaxEvents         \* bound: all of these together

ASSUME FrontendAssumption ==
    /\ Home \in Document /\ Document \cap {None, "/wait", "/authenticate"} = {}
    /\ Authorizations \in [Token -> SUBSET {"read", "write", "delete"}]
    /\ Authorizations[Guest] = {"read"}
    /\ {MaxNavigations, MaxEdits, MaxWrites, MaxLogins, MaxExpirations,
        MaxEvents} \subseteq Nat

VARIABLES
    session,   \* the session service
    app,       \* the application component
    writes,    \* the writes in flight
    login,     \* the number of logins in flight
    content,   \* content[d]: the edit that the backend holds for d, 0 without document
    expired,   \* tokens past their expiration
    sent,      \* events so far, for the bounds
    crossed,   \* history: a text, or a login, was answered where it was not asked for
    overlap    \* history: the session changed while an answer was awaited

vars == <<session, app, writes, login, content, expired, sent, crossed, overlap>>

----------------------------------------------------------------------------
\* A text is named by the document it was loaded from and its last edit, 0 being
\* the empty text.
NoText == [of |-> None, edit |-> 0]
Text == [of : Document \cup {None}, edit : 0 .. MaxEdits + 1]

Page == Document \cup {"/wait", "/authenticate"}

\* loads[d]: the requests for d in flight; nav: the navigation whose guard waits
\* for a bootstrap session, and what called router.navigate; shown: the token
\* whose authorizations the component shows; doc: currentDocument, its path and
\* content; pending: the insertions that the editor has still to apply; uploads:
\* the images that it uploads, as long as it is shown; loading: the page of the
\* login awaits its own request.
NoNavigation == [to |-> None, by |-> "link"]
NoDialog == [kind |-> "none", path |-> None]
Dialog == {"none", "discard", "delete", "moveDirty", "move", "image", "new", "versions",
           "attachments"}

AppState ==
    [page : Page, waitUrl : Document \cup {None},
     nav : [to : Document \cup {None}, by : {"link", "new", "write"}],
     shown : Token \cup {None}, mode : {"view", "edit"}, doc : Text, raw : Text, initial : Text,
     saving : BOOLEAN, pendingEdit : Document \cup {None},
     pending : SUBSET {"insert", "image"}, uploads : 0 .. MaxEdits,
     dialog : [kind : Dialog, path : Page \cup {None}],
     loads : [Document -> Nat], loading : BOOLEAN]

Write == [kind : {"save", "image", "move", "delete"}, path : Page, to : Document \cup {None},
          raw : Text, token : Token \cup {None}]

Bounds == {"navigations", "edits", "writes", "logins", "expirations"}

TypeOK ==
    /\ session \in SessionState
    /\ app \in AppState
    /\ writes \subseteq Write
    /\ login \in Nat
    /\ content \in [Document -> 0 .. MaxEdits + 1]
    /\ expired \subseteq Token
    /\ sent \in [Bounds -> Nat]
    /\ crossed \in BOOLEAN /\ overlap \in BOOLEAN

\* Authorizations as the component shows them and as the backend reads them.
Allowed(token) == IF token = None THEN {} ELSE Authorizations[token]

\* What the guard of the backend requires for a write (app.controller.ts).
Required(kind) == IF kind = "delete" THEN "delete" ELSE "write"

x0 == [s |-> session, a |-> app]

Become(x) == session' = x.s /\ app' = x.a

----------------------------------------------------------------------------
(* What the handlers call.                                                 *)

\* updateAuthenticationState.
AuthenticationUpdated(x) == [x EXCEPT !.a.shown = IF x.s.valid THEN x.s.token ELSE None]

\* The editor is destroyed with mode 'view', and no longer hears of its uploads.
Viewing(x) == [x EXCEPT !.a.mode = "view", !.a.uploads = 0]

\* A faulty loader, which leaves the previous document in place.
DocumentRequestedOverOld(x) ==
    IF x.a.page \in Document
    THEN [x EXCEPT !.a.pending = {}, !.a.loads[x.a.page] = @ + 1]
    ELSE [Viewing(x) EXCEPT !.a.doc = NoText, !.a.pending = {},
                            !.a.pendingEdit = None, !.a.raw = NoText, !.a.initial = NoText]

\* loadDocumentForCurrentUrl.
DocumentRequested(x) ==
    IF x.a.page \in Document
    THEN [Viewing(x) EXCEPT !.a.doc = NoText, !.a.pending = {}, !.a.loads[x.a.page] = @ + 1]
    ELSE [Viewing(x) EXCEPT !.a.doc = NoText, !.a.pending = {},
                            !.a.pendingEdit = None, !.a.raw = NoText, !.a.initial = NoText]

\* SessionService.logout and the handler of its event.
LoggedOut(x) ==
    LET y == [x EXCEPT !.s = Destroyed(@)]
    IN  IF hasToken(x.s) THEN AuthenticationUpdated(y) ELSE y

\* A navigation ends at a page: /authenticate logs out, NavigationEnd updates the
\* authorizations and requests the document.  To the same page, nothing happens.
Arrived(x, page) ==
    LET y == [x EXCEPT !.a.page = page, !.a.loading = FALSE]
        z == IF page = "/authenticate" THEN LoggedOut(y) ELSE y
    IN  IF page = x.a.page THEN x ELSE DocumentRequested(AuthenticationUpdated(z))

\* A faulty guard, which returns to the page that is left.
AccessResolvedFromHere(x, d) ==
    IF x.s.valid /\ "read" \in Allowed(x.s.token) THEN Arrived(x, d)
    ELSE Arrived([x EXCEPT !.a.waitUrl = x.a.page], "/authenticate")

\* resolvePolicyAccess for a document, which takes the authorization to read.
AccessResolved(x, d) ==
    IF x.s.valid /\ "read" \in Allowed(x.s.token) THEN Arrived(x, d)
    ELSE Arrived([x EXCEPT !.a.waitUrl = d], "/authenticate")

\* What follows a navigation: one after a write loads the document once more, and
\* startAddingPage forgets its path if the navigation was given up.
Followed(x, by, done) ==
    CASE by = "link" -> x
      [] by = "new" -> [x EXCEPT !.a.pendingEdit = IF done THEN @ ELSE None]
      [] by = "write" -> DocumentRequested(x)

\* A navigation that waits is given up for another.
GivenUp(x) == Followed([x EXCEPT !.a.nav = NoNavigation], x.a.nav.by, FALSE)

\* router.navigate to a document, through the guard's canActivate.
Navigated(x, d, by) ==
    LET y == GivenUp(x)
        z == IF d = y.a.page THEN y
             ELSE IF ~y.s.ready THEN Arrived([y EXCEPT !.a.waitUrl = d], "/wait")
             ELSE IF y.s.valid THEN AccessResolved(y, d)
             ELSE [y EXCEPT !.s = EnsureBootstrap(@), !.a.nav = [to |-> d, by |-> by]]
    IN  IF z.a.nav = NoNavigation THEN Followed(z, by, TRUE) ELSE z

\* router.navigate to /authenticate, which is public.
SentToAuthenticate(x) == Arrived(GivenUp(x), "/authenticate")

\* What waits for the bootstrap request goes on: a guard, an expired session.
BootAwaited(x, navigates) ==
    LET nav == x.a.nav
        y == IF nav.to = None THEN x
             ELSE Followed(AccessResolved([x EXCEPT !.a.nav = NoNavigation], nav.to), nav.by, TRUE)
    IN  IF navigates /\ ~x.s.valid THEN SentToAuthenticate(y) ELSE y

\* queueEditorInsertRequest, queuePastedImageRequest.
Queued(x, kind) == [x EXCEPT !.a.pending = @ \cup {kind}]

\* startEditing.
EditingStarted(x) ==
    IF x.a.doc.of = None \/ "write" \notin Allowed(x.a.shown) THEN x
    ELSE [x EXCEPT !.a.initial = x.a.doc, !.a.raw = x.a.doc, !.a.mode = "edit"]

isEditorDirty == app.raw # app.initial
canSaveDocument == app.mode = "edit" /\ ~app.saving /\ isEditorDirty /\ app.raw.edit # 0
canEditDocument == app.doc.of # None /\ "write" \in Allowed(app.shown)
canAddPage == app.doc.edit # 0 /\ "write" \in Allowed(app.shown)
canOpenAttachments ==
    /\ app.mode = "edit" /\ ~app.saving /\ "write" \in Allowed(app.shown)
    /\ app.doc.edit # 0
\* Whether the document has versions is not modelled.
canOpenVersions == canOpenAttachments /\ ~isEditorDirty
canMoveDocument ==
    /\ app.mode = "edit" /\ ~app.saving /\ "write" \in Allowed(app.shown)
    /\ app.page # Home /\ app.doc.edit # 0
canDeleteDocument ==
    /\ app.mode = "edit" /\ ~app.saving /\ "delete" \in Allowed(app.shown)
    /\ app.page # Home /\ app.doc.edit # 0

isAuthenticated == app.shown \notin {None, Guest}
canSignOut == isAuthenticated

\* The actions of the toolbar that are enabled, by their keys.
genericActions == IF canSignOut THEN {"logout"} ELSE {"login"}
viewActions ==
    (IF canAddPage THEN {"new"} ELSE {}) \cup (IF canEditDocument THEN {"edit"} ELSE {})
editActions ==
    (IF app.saving THEN {} ELSE {"cancel"})
    \cup (IF canOpenVersions THEN {"versions"} ELSE {})
    \cup (IF canOpenAttachments THEN {"attachments"} ELSE {})
    \cup (IF canMoveDocument THEN {"move"} ELSE {})
    \cup (IF canDeleteDocument THEN {"delete"} ELSE {})
    \cup (IF canSaveDocument THEN {"save"} ELSE {})
activeActions == IF app.mode = "view" THEN viewActions \cup genericActions ELSE editActions

\* A click on an action of the toolbar: without a modal dialog the page takes it.
Clicked(key) == app.dialog = NoDialog /\ key \in activeActions

\* The editor is shown; it is ready, and takes the keyboard, some time later.
EditorShown == app.mode = "edit" /\ app.page \in Document

Counted(event, max) ==
    /\ sent[event] < max
    /\ MapThenSumSet(LAMBDA e : sent[e], Bounds) < MaxEvents
    /\ sent' = [sent EXCEPT ![event] = @ + 1]

Opened(kind, path) == Become([x0 EXCEPT !.a.dialog = [kind |-> kind, path |-> path]])

\* A write is sent with the token of the moment and raises isSavingDocument.
Sent(kind, path, to) ==
    /\ Counted("writes", MaxWrites)
    /\ writes' = writes \cup {[kind |-> kind, path |-> path, to |-> to, raw |-> app.raw,
                               token |-> session.token]}
    /\ Become([x0 EXCEPT !.a.saving = TRUE, !.a.dialog = NoDialog])

history == <<crossed, overlap>>

\* The session is replaced or destroyed by the user.
Disturbed == overlap' = (overlap \/ ~Quiet(session) \/ login > 0)

----------------------------------------------------------------------------
(* Start.  The component requests the document / before the first navigation, *)
(* which finds the session not ready.                                       *)
Init ==
    \E stored \in Token \cup {None}, d \in Document, existing \in SUBSET Document :
        /\ expired \in SUBSET ({stored} \ {None})
        /\ session = Started(stored, expired)
        /\ app = [page |-> "/wait", waitUrl |-> d, nav |-> NoNavigation, shown |-> None,
                  mode |-> "view", doc |-> NoText, raw |-> NoText, initial |-> NoText,
                  saving |-> FALSE, pendingEdit |-> None, pending |-> {}, uploads |-> 0,
                  dialog |-> NoDialog,
                  loads |-> [e \in Document |-> IF e = Home THEN 1 ELSE 0],
                  loading |-> FALSE]
        /\ writes = {} /\ login = 0
        /\ content = [e \in Document |-> IF e \in existing \cup {Home} THEN 1 ELSE 0]
        /\ sent = [b \in Bounds |-> 0]
        /\ crossed = FALSE /\ overlap = FALSE

----------------------------------------------------------------------------
(* Navigation and session.                                                 *)

\* A link, or the browser's history, which closes a dialog.
Navigate(d) ==
    /\ Counted("navigations", MaxNavigations)
    /\ app.page # d
    /\ Become(Navigated([x0 EXCEPT !.a.dialog = NoDialog], d, "link"))
    /\ overlap' = (overlap \/ (login > 0 /\ ~session.valid))
    /\ UNCHANGED <<writes, login, content, expired, crossed>>

\* Sign out, or sign in from a page.
Logout ==
    /\ Counted("navigations", MaxNavigations)
    /\ app.page # "/authenticate"
    /\ \/ Clicked("logout") /\ Become(SentToAuthenticate(AuthenticationUpdated(LoggedOut(x0))))
       \/ Clicked("login") /\ Become(SentToAuthenticate(x0))
    /\ Disturbed
    /\ UNCHANGED <<writes, login, content, expired, crossed>>

\* The effect of WaitComponent.  Its flag redirected needs no variable: a session
\* that is ready takes the page away, and the component with it.
LeaveWait ==
    /\ app.page = "/wait" /\ session.ready
    /\ IF session.valid
       THEN Become(Navigated([x0 EXCEPT !.a.waitUrl = None],
                             IF app.waitUrl = None THEN Home ELSE app.waitUrl, "link"))
       ELSE Become(SentToAuthenticate(x0))
    /\ UNCHANGED <<writes, login, content, expired, sent, history>>

\* tryAuthenticate.
SubmitLogin ==
    /\ app.dialog = NoDialog
    /\ app.page = "/authenticate" /\ ~app.loading
    /\ Counted("logins", MaxLogins)
    /\ login' = login + 1
    /\ Become([x0 EXCEPT !.s = Destroyed(@), !.a.loading = TRUE])
    /\ Disturbed
    /\ UNCHANGED <<writes, content, expired, crossed>>

\* The answer comes wherever the user is by now, also after another login: the
\* page that sent it may be gone, and nothing cancels the request.
AnswerLogin ==
    /\ login > 0
    /\ login' = login - 1
    /\ \/ \E token \in Token \ ({Guest, session.token} \cup expired \cup session.verifying) :
             LET x == [x0 EXCEPT !.s = LoggedIn(@, token, expired), !.a.waitUrl = None]
             IN  /\ Become(Navigated(x, IF app.waitUrl = None THEN Home ELSE app.waitUrl, "link"))
                 /\ overlap' = (overlap \/ ~Quiet(session) \/ hasToken(session))
                 /\ crossed' = (crossed \/ app.dialog.kind = "image")
       \/ /\ \E loading \in {FALSE, app.loading} :
                /\ loading => login > 1
                /\ Become([x0 EXCEPT !.a.loading = loading])
          /\ UNCHANGED history
    /\ UNCHANGED <<writes, content, expired, sent>>

\* The backend verifies a token that has not expired; any request may fail.
AnswerVerify(token) ==
    /\ token \in session.verifying
    /\ \/ /\ token \notin expired
          /\ Become(AuthenticationUpdated([x0 EXCEPT !.s = VerifySucceeded(@, token)]))
       \/ Become([x0 EXCEPT !.s = VerifyFailed(@, token)])
    /\ UNCHANGED <<writes, login, content, expired, sent, history>>

\* A guest token is a new one.
AnswerBootToken ==
    /\ session.boot.at = "jwt"
    /\ \/ /\ expired' = expired \ {Guest}
          /\ Become([x0 EXCEPT !.s = BootTokenArrived(@)])
          /\ overlap' = (overlap \/ hasToken(session) \/ login > 0)
       \/ /\ Become(BootAwaited([x0 EXCEPT !.s = BootFailed(@)], session.boot.navigates))
          /\ overlap' = (overlap \/ hasToken(session) \/ login > 0)
          /\ UNCHANGED expired
    /\ UNCHANGED <<writes, login, content, sent, crossed>>

AnswerBootVerify ==
    /\ session.boot.at = "verify"
    /\ \/ /\ session.boot.token \notin expired
          /\ LET x == AuthenticationUpdated([x0 EXCEPT !.s = BootSucceeded(@)])
             IN  Become(BootAwaited(x, session.boot.navigates))
       \/ Become(BootAwaited([x0 EXCEPT !.s = BootFailed(@)], session.boot.navigates))
    /\ overlap' = (overlap \/ session.token # session.boot.token \/ login > 0)
    /\ UNCHANGED <<writes, login, content, expired, sent, crossed>>

\* Time passes.
Expire(token) ==
    /\ token \notin expired /\ token \in {session.token} \cup session.verifying
    /\ Counted("expirations", MaxExpirations)
    /\ expired' = expired \cup {token}
    /\ UNCHANGED <<session, app, writes, login, content, history>>

\* The timer of scheduleExpirationCheck is due once the token has expired.
FireTimer ==
    /\ session.timer /\ session.token \in expired
    /\ Become([x0 EXCEPT !.s = TimerFired(@, expired)])
    /\ Disturbed
    /\ UNCHANGED <<writes, login, content, expired, sent, crossed>>

----------------------------------------------------------------------------
(* Editing.                                                                *)

StartEditing ==
    /\ Clicked("edit")
    /\ Become(EditingStarted(x0))
    /\ UNCHANGED <<writes, login, content, expired, sent, history>>

\* The text of the editor becomes another one.
Edited(x) == [x EXCEPT !.a.raw.edit = sent.edits + 2]

\* onEditorRawChange: also while a write is in flight.
Type ==
    /\ EditorShown /\ app.dialog = NoDialog
    /\ Counted("edits", MaxEdits)
    /\ Become(Edited(x0))
    /\ UNCHANGED <<writes, login, content, expired, history>>

\* insertAndUploadImage: the reference is in the text before the file is there.
ImageInserted(x) == Edited([x EXCEPT !.a.uploads = @ + 1])

\* An image pasted into a document that exists.
PasteIntoDocument ==
    /\ EditorShown /\ app.dialog = NoDialog /\ app.doc.edit # 0
    /\ Counted("edits", MaxEdits)
    /\ Become(ImageInserted(x0))
    /\ UNCHANGED <<writes, login, content, expired, history>>

\* A failed upload removes the reference, if it is still there.
AnswerUpload ==
    /\ app.uploads > 0
    /\ LET x == [x0 EXCEPT !.a.uploads = @ - 1]
       IN  \/ Become(x) /\ UNCHANGED sent
           \/ Counted("edits", MaxEdits) /\ Become(Edited(x))
    /\ UNCHANGED <<writes, login, content, expired, history>>

\* The effects of the editor that apply a request once it is ready, even behind
\* a dialog.
ApplyRequest(kind) ==
    /\ EditorShown /\ kind \in app.pending
    /\ Counted("edits", MaxEdits)
    /\ LET x == [x0 EXCEPT !.a.pending = @ \ {kind}]
       IN  Become(IF kind = "image" THEN ImageInserted(x) ELSE Edited(x))
    /\ UNCHANGED <<writes, login, content, expired, history>>

\* cancelEditing.
Cancel ==
    /\ Clicked("cancel")
    /\ IF isEditorDirty THEN Opened("discard", None) ELSE Become(Viewing(x0))
    /\ UNCHANGED <<writes, login, content, expired, sent, history>>

\* A faulty save, which may be sent by a key while another write is in flight.
SaveTwice ==
    /\ app.dialog = NoDialog /\ app.mode = "edit" /\ isEditorDirty
    /\ Sent("save", app.page, None)
    /\ UNCHANGED <<login, content, expired, history>>

\* saveDocument: the text of the editor goes to the path of the page.
Save ==
    /\ Clicked("save")
    /\ Sent("save", app.page, None)
    /\ UNCHANGED <<login, content, expired, history>>

\* An image pasted into a document that does not exist: onEditorPaste and
\* requestInitialDocumentSave.
PasteImage ==
    /\ EditorShown /\ app.dialog = NoDialog
    /\ ~app.saving /\ app.doc.of # None /\ app.doc.edit = 0
    /\ Opened("image", None)

\* openMoveDialog asks first when there are changes.
OpenMoveDialog ==
    /\ Clicked("move")
    /\ Opened(IF isEditorDirty THEN "moveDirty" ELSE "move", None)

OpenDialog ==
    /\ \/ Clicked("delete") /\ Opened("delete", app.page)
       \/ OpenMoveDialog
       \/ PasteImage
       \/ Clicked("new") /\ Opened("new", None)
       \/ Clicked("versions") /\ Opened("versions", app.page)
       \/ Clicked("attachments") /\ Opened("attachments", None)
    /\ UNCHANGED <<writes, login, content, expired, sent, history>>

Dismiss ==
    /\ app.dialog # NoDialog
    /\ Opened("none", None)
    /\ UNCHANGED <<writes, login, content, expired, sent, history>>

ConfirmDiscard ==
    /\ app.dialog.kind = "discard"
    /\ Become([Viewing(x0) EXCEPT !.a.dialog = NoDialog, !.a.raw = app.initial])
    /\ UNCHANGED <<writes, login, content, expired, sent, history>>

\* The document of the click is removed, without another look at the state.
ConfirmDelete ==
    /\ app.dialog.kind = "delete"
    /\ Sent("delete", app.dialog.path, None)
    /\ UNCHANGED <<login, content, expired, history>>

ConfirmMoveDirty ==
    /\ app.dialog.kind = "moveDirty"
    /\ Opened("move", None)
    /\ UNCHANGED <<writes, login, content, expired, sent, history>>

\* moveDocument looks again; the document of the page is moved.
ConfirmMove(d) ==
    /\ app.dialog.kind = "move" /\ d # app.page
    /\ \/ canMoveDocument /\ Sent("move", app.page, d)
       \/ /\ ~canMoveDocument
          /\ Opened("none", None)
          /\ UNCHANGED <<writes, sent>>
    /\ UNCHANGED <<login, content, expired, history>>

\* saveInitialDocumentAndUploadImage.
ConfirmImage ==
    /\ app.dialog.kind = "image"
    /\ \/ app.doc.edit = 0 /\ ~app.saving /\ Sent("image", app.page, None)
       \/ /\ app.doc.edit # 0 \/ app.saving
          /\ Opened("none", None)
          /\ UNCHANGED <<writes, sent>>
    /\ UNCHANGED <<login, content, expired, history>>

\* startAddingPage, once the path has been entered.
ConfirmNew(d) ==
    /\ app.dialog.kind = "new"
    /\ Counted("navigations", MaxNavigations)
    /\ LET x == [x0 EXCEPT !.a.dialog = NoDialog]
       IN  IF d = app.page THEN Become(EditingStarted(x))
           ELSE Become(Navigated([x EXCEPT !.a.pendingEdit = d], d, "new"))
    /\ UNCHANGED <<writes, login, content, expired, history>>

\* The dialog of versions closes with an older text of its document, which the
\* editor takes, whatever the page is by now.  Older means than all edits here.
RestoreVersion ==
    /\ app.dialog.kind = "versions" /\ app.dialog.path \in Document
    /\ Become([x0 EXCEPT !.a.dialog = NoDialog, !.a.raw = [of |-> app.dialog.path, edit |-> 1]])
    /\ crossed' = (crossed \/ app.page # app.dialog.path)
    /\ UNCHANGED <<writes, login, content, expired, sent, overlap>>

\* The dialog of attachments closes with one to refer to.
InsertAttachment ==
    /\ app.dialog.kind = "attachments"
    /\ Become(Queued([x0 EXCEPT !.a.dialog = NoDialog], "insert"))
    /\ UNCHANGED <<writes, login, content, expired, sent, history>>

----------------------------------------------------------------------------
(* Answers about documents.                                                *)

\* The answer to a load is taken whatever the page is by now.
AnswerLoad(d) ==
    LET text == [of |-> d, edit |-> content[d]]
        loaded == [x0 EXCEPT !.a.loads[d] = @ - 1, !.a.doc = text, !.a.raw = text, !.a.initial = text]
        failed == [x0 EXCEPT !.a.loads[d] = @ - 1]
        Noted(x) == [x EXCEPT !.a.pendingEdit = IF @ = d THEN None ELSE @]
    IN  /\ app.loads[d] > 0
        /\ \/ /\ IF app.pendingEdit = d THEN Become(EditingStarted(Noted(loaded))) ELSE Become(loaded)
              /\ crossed' = (crossed \/ app.page # d)
           \/ /\ Become(Noted(failed))
              /\ UNCHANGED crossed
        /\ UNCHANGED <<writes, login, content, expired, sent, overlap>>

\* The backend as a write leaves it.
Written(w) ==
    CASE w.kind \in {"save", "image"} -> [content EXCEPT ![w.path] = w.raw.edit]
      [] w.kind = "move" -> [content EXCEPT ![w.path] = 0, ![w.to] = content[w.path]]
      [] w.kind = "delete" -> [content EXCEPT ![w.path] = 0]

\* The next handlers of saveDocument, saveInitialDocumentAndUploadImage,
\* moveDocument and deleteDocument, once isSavingDocument is lowered.
AfterSave(x) ==
    DocumentRequested([Viewing(x) EXCEPT !.a.initial = app.raw])

\* A faulty next handler, which loads the document again as after any save.
AfterImageReloading(x, w) ==
    IF app.page # w.path THEN x
    ELSE DocumentRequested([Viewing(x) EXCEPT !.a.initial = app.raw])

AfterImage(x, w) ==
    IF app.page # w.path THEN x
    ELSE Queued([x EXCEPT !.a.initial = w.raw,
                          !.a.doc = IF @.of = None THEN @ ELSE [@ EXCEPT !.edit = w.raw.edit]],
                "image")

AfterMove(x, w) == Navigated(Viewing(x), w.to, "write")

AfterDelete(x) ==
    Navigated([Viewing(x) EXCEPT !.a.raw = NoText, !.a.initial = NoText], Home, "write")

AfterWrite(w) ==
    LET x == [x0 EXCEPT !.a.saving = FALSE]
    IN  CASE w.kind = "save" -> AfterSave(x)
          [] w.kind = "image" -> AfterImage(x, w)
          [] w.kind = "move" -> AfterMove(x, w)
          [] w.kind = "delete" -> AfterDelete(x)

\* The backend takes a write from a token that allows it, and a move to a path
\* that is free; an answer may be lost.
AnswerWrite(w) ==
    LET accepted == /\ w.path \in Document
                    /\ w.token \notin expired /\ Required(w.kind) \in Allowed(w.token)
                    /\ w.kind \in {"save", "image"} => w.raw.edit # 0
                    /\ w.kind \in {"move", "delete"} => content[w.path] # 0
                    /\ w.kind = "move" => content[w.to] = 0
    IN  /\ w \in writes
        /\ writes' = writes \ {w}
        /\ \/ /\ accepted
              /\ content' = Written(w)
              /\ Become(AfterWrite(w))
           \/ /\ content' \in {content} \cup (IF accepted THEN {Written(w)} ELSE {})
              /\ Become([x0 EXCEPT !.a.saving = FALSE])
        /\ UNCHANGED <<login, expired, sent, history>>

----------------------------------------------------------------------------
Next ==
    \/ \E d \in Document : Navigate(d) \/ ConfirmMove(d) \/ ConfirmNew(d) \/ AnswerLoad(d)
    \/ Logout \/ LeaveWait \/ SubmitLogin \/ AnswerLogin
    \/ \E token \in Token : AnswerVerify(token) \/ Expire(token)
    \/ AnswerBootToken \/ AnswerBootVerify \/ FireTimer
    \/ StartEditing \/ Type \/ Cancel \/ Save \/ OpenDialog \/ Dismiss
    \/ ConfirmDiscard \/ ConfirmDelete \/ ConfirmMoveDirty \/ ConfirmImage
    \/ RestoreVersion \/ InsertAttachment \/ PasteIntoDocument \/ AnswerUpload
    \/ \E kind \in {"insert", "image"} : ApplyRequest(kind)
    \/ \E w \in writes : AnswerWrite(w)

Spec == Init /\ [][Next]_vars

----------------------------------------------------------------------------
(* Properties.                                                             *)

\* isSavingDocument is raised exactly while a write is in flight, and there is
\* one at a time, although dialogs are confirmed, pages change and answers come
\* between the test of the flag and the writes.
OneWrite ==
    /\ Cardinality(writes) <= 1
    /\ app.saving <=> writes # {}

\* A document is saved with a text that was loaded from it, for a token that may
\* write.  The exceptions are a text that arrived on another page, as nothing
\* cancels the load of a page that is left nor closes a dialog of versions, and is
\* edited and saved under the new path; and the login that was sent before another
\* one, whose answer leaves the page behind the dialog of an image.
SavedTextBelongs ==
    \A w \in writes :
        w.kind \in {"save", "image"} /\ "write" \in Allowed(w.token)
        => w.raw.of = w.path \/ crossed

\* What the page offers follows the session.  Once every answer has come, the
\* session is ready, it is valid exactly if it has a token, and the component
\* shows the authorizations of that token, unless the session was changed
\* while an answer was awaited: an answer is taken for the current token.
SessionSettles ==
    Quiet(session) /\ ~overlap =>
        /\ session.ready
        /\ session.valid <=> hasToken(session)
        /\ app.shown = session.token

\* What may become of a text that has been typed and not saved.  The editor goes
\* on with it, still unsaved or edited further.
EditorKeepsText ==
    /\ app'.mode = "edit"
    /\ \/ app'.raw = app.raw /\ app'.raw # app'.initial
       \/ sent'.edits > sent.edits /\ app'.raw.of = app.raw.of /\ app'.initial = app.initial

\* The backend holds it: it was all that the answered write carried.
TextIsStored ==
    \E w \in writes \ writes' :
        w.kind \in {"save", "image"} /\ w.raw = app.raw /\ content'[w.path] = app.raw.edit

\* The user discards it, restores a version over an insertion that came behind
\* the dialog, or leaves the page, at once or with a navigation that has waited.
GivenUpByUser ==
    \/ app.dialog.kind \in {"discard", "versions"} /\ app'.dialog = NoDialog
    \/ sent'.navigations > sent.navigations
    \/ app.nav # NoNavigation /\ app'.nav = NoNavigation

\* The session has expired and could not be bootstrapped again.
SessionEnded == session.boot.navigates /\ ~session'.valid /\ app'.page = "/authenticate"

\* The answer to an earlier request replaces it: of a load that was still in
\* flight when editing began, of a login that was sent before another one, of a
\* save that was sent before the text was typed, of a move or a removal.
OvertakenByAnswer ==
    \/ \E d \in Document : app'.loads[d] < app.loads[d]
    \/ login' < login
    \/ \E w \in writes \ writes' :
          w.kind \in {"move", "delete"} \/ (w.kind = "save" /\ w.raw # app.raw)

\* A text that has been typed and not saved stays in the editor until the backend
\* holds it, whatever else is answered, refused, lost, verified, expires or opens
\* a dialog -- unless the user gives it up, the session ends or an answer that was
\* awaited overtakes it.
TypedTextKept ==
    [][EditorShown /\ isEditorDirty =>
          EditorKeepsText \/ TextIsStored \/ GivenUpByUser \/ SessionEnded
              \/ OvertakenByAnswer]_vars

============================================================================
