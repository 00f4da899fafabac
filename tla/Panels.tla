------------------------------- MODULE Panels -------------------------------
(***************************************************************************)
(* The parts of the frontend that show a list kept by the backend: the     *)
(* dialogs of attachments and versions, the pages of the trash and the     *)
(* accounts, the results of a search and the siblings in the sidebar       *)
(* (frontend/src/app/components).  A behaviour has one of them, its        *)
(* requests, which the backend serves and which are answered in any order, *)
(* and other users who change what the backend holds.                      *)
(*                                                                         *)
(* A handler, with all that it calls, is a function on x = [p |-> panel,   *)
(* r |-> reads, w |-> writes].  A request whose answer is lost has been    *)
(* served before or is never served.  A dialog opened by a panel is modal: *)
(* behind it only answers arrive.                                          *)
(***************************************************************************)
EXTENDS Naturals, FiniteSets

CONSTANTS
    Entry,        \* what lists consist of: attachments, versions, trash entries, ...
    File,         \* files of the user that may be uploaded
    StoredAs,     \* StoredAs[f]: the attachment that the backend makes of f
    Regular,      \* files whose name in lower case is the name of that attachment
    Query,        \* what is searched for, or documents the sidebar is shown with
    Self,         \* the account of the session
    None,
    MaxWrites,    \* bound: changes asked for
    MaxOthers,    \* bound: changes made by others
    MaxFailures,  \* bound: answers lost
    MaxQueries    \* bound: searches, or documents shown

ASSUME PanelsAssumption ==
    /\ StoredAs \in [File -> Entry] /\ Regular \subseteq File
    /\ Self \in Entry
    /\ None \notin Entry \cup File \cup Query
    /\ {MaxWrites, MaxOthers, MaxFailures, MaxQueries} \subseteq Nat

VARIABLES
    kind,     \* which of the components it is
    stored,   \* what the backend holds
    panel,    \* the component
    reads,    \* requests for the list in flight
    writes,   \* other requests in flight
    sent,     \* events so far, for the bounds
    excuses   \* history: why the list may differ from what the backend holds

vars == <<kind, stored, panel, reads, writes, sent, excuses>>

----------------------------------------------------------------------------
Kind == {"attachments", "versions", "trash", "accounts", "search", "sidebar"}

\* loading stands for isRefreshing, isLoading and loading; of: what the list was
\* asked for, where there is a query; sequence: the requests made so far, and in
\* the search requestSequence.
PanelState ==
    [open : BOOLEAN, list : SUBSET Entry, of : Query \cup {None}, query : Query \cup {None},
     loading : BOOLEAN, uploading : BOOLEAN, processing : BOOLEAN,
     deleting : Entry \cup {None}, selected : File \cup {None},
     canDelete : BOOLEAN, sequence : Nat,
     dialog : [op : {"none", "overwrite", "delete", "recover", "create", "edit"},
               entry : Entry \cup {None}]]

NoDialog == [op |-> "none", entry |-> None]

Read == [id : Nat, of : Query \cup {None}, served : BOOLEAN, found : SUBSET Entry]

\* excused: the user has agreed to what the write replaces, or could not know it.
Write == [id : Nat, op : {"upload", "delete", "load", "recover", "save"}, of : Entry \cup File,
          outcome : {"open", "done", "refused"}, excused : BOOLEAN]

TypeOK ==
    /\ kind \in Kind
    /\ stored \subseteq Entry
    /\ panel \in PanelState
    /\ reads \subseteq Read
    /\ writes \subseteq Write
    /\ sent \in [{"writes", "others", "failures", "queries"} -> Nat]
    /\ excuses \subseteq {"others", "failure", "crossing", "left"}

x0 == [p |-> panel, r |-> reads, w |-> writes]

\* Two lists of attachments may be under way, and answered in the other order.
Become(x, causes) ==
    /\ panel' = x.p /\ reads' = x.r /\ writes' = x.w
    /\ excuses' = excuses \cup causes \cup
           (IF kind = "attachments" /\ Cardinality(x.r) > 1 THEN {"crossing"} ELSE {})

Counted(event, max) == sent[event] < max /\ sent' = [sent EXCEPT ![event] = @ + 1]

\* A request for the list: refreshAttachments, refreshVersions, loadTrash,
\* loadAccounts, and the requests of the search and the sidebar.
Requested(x) ==
    [x EXCEPT !.p.sequence = @ + 1, !.p.loading = TRUE,
              !.r = @ \cup {[id |-> x.p.sequence + 1, of |-> x.p.query,
                             served |-> FALSE, found |-> {}]}]

\* A request to change of, an entry or a file.  Of two uploads at once, which only
\* the answer to another request lets the user send, either may replace the other.
Submitted(x, op, of, agreed) ==
    LET new     == [id |-> x.p.sequence + 1, op |-> op, of |-> of, outcome |-> "open",
                    excused |-> agreed \/ excuses # {} \/ x.r # {}]
        overlap == op = "upload" /\ \E w \in x.w : w.op = "upload"
    IN  [x EXCEPT !.p.sequence = @ + 1, !.p.dialog = NoDialog,
                  !.w = {[w EXCEPT !.excused = @ \/ overlap] : w \in @ \cup {new}}]

\* What a handler does on its own, and what it does by sending a write.
Do(x, causes) == Become(x, causes) /\ UNCHANGED <<kind, stored, sent>>

Submit(x, op, of, agreed) ==
    /\ Counted("writes", MaxWrites)
    /\ Become(Submitted(x, op, of, agreed), {})
    /\ UNCHANGED <<kind, stored>>

NewPanel(list, canDelete) ==
    [open |-> TRUE, list |-> list, of |-> None, query |-> None, loading |-> FALSE,
     uploading |-> FALSE, processing |-> FALSE, deleting |-> None, selected |-> None,
     canDelete |-> canDelete, sequence |-> 0, dialog |-> NoDialog]

\* Attachments and versions begin with the list of the page below them; trash,
\* accounts and attachments ask for theirs at once.
Init ==
    /\ kind \in Kind
    /\ stored \in SUBSET Entry
    /\ \E canDelete \in BOOLEAN :
           LET new == NewPanel(IF kind \in {"attachments", "versions"} THEN stored ELSE {},
                               canDelete)
               x == [p |-> new, r |-> {}, w |-> {}]
               y == IF kind \in {"attachments", "trash", "accounts"} THEN Requested(x) ELSE x
           IN  panel = y.p /\ reads = y.r
    /\ writes = {}
    /\ sent = [event \in {"writes", "others", "failures", "queries"} |-> 0]
    /\ excuses = {}

----------------------------------------------------------------------------
(* The backend.                                                            *)

\* A list that is served while nothing else is under way is one to rely on,
\* unless the search no longer waits for it.
ServeRead(r) ==
    /\ ~r.served
    /\ reads' = (reads \ {r}) \cup {[r EXCEPT !.served = TRUE, !.found = stored]}
    /\ excuses' = IF reads = {r} /\ writes = {} /\ (kind = "search" => r.id = panel.sequence)
                  THEN {} ELSE excuses
    /\ UNCHANGED <<kind, stored, panel, writes, sent>>

\* Any request may be refused: the document has gone, the destination of a
\* recovery is taken, an account that has gone is stored without a password.
ServeWrite(w) ==
    LET entry   == IF w.op = "upload" THEN StoredAs[w.of] ELSE w.of
        missing == w.op \notin {"upload", "save"} /\ entry \notin stored
    IN  /\ w.outcome = "open"
        /\ \/ /\ ~missing
              /\ stored' = CASE w.op \in {"upload", "save"}    -> stored \cup {entry}
                             [] w.op \in {"delete", "recover"} -> stored \ {entry}
                             [] OTHER                          -> stored
              /\ writes' = (writes \ {w}) \cup {[w EXCEPT !.outcome = "done"]}
           \/ /\ stored' = stored
              /\ writes' = (writes \ {w}) \cup {[w EXCEPT !.outcome = "refused"]}
        /\ UNCHANGED <<kind, panel, reads, sent, excuses>>

\* Another user, another tab, or another page.
Others(e) ==
    /\ Counted("others", MaxOthers)
    /\ stored' = IF e \in stored THEN stored \ {e} ELSE stored \cup {e}
    /\ writes' = {[w EXCEPT !.excused = TRUE] : w \in writes}
    /\ excuses' = excuses \cup {"others"}
    /\ UNCHANGED <<kind, panel, reads>>

On(k) == kind = k /\ panel.open /\ panel.dialog = NoDialog

Shown(op, e) == Do([x0 EXCEPT !.p.dialog = [op |-> op, entry |-> e]], {})

Dismiss == panel.dialog # NoDialog /\ Do([x0 EXCEPT !.p.dialog = NoDialog], {})

\* A dialog is closed with its list; nothing that is under way reaches the page.
Closed(x) == [x EXCEPT !.p.open = FALSE, !.r = {}]

Left(x) == IF x.r = {} /\ x.w = {} THEN {} ELSE {"left"}

----------------------------------------------------------------------------
(* Attachments.                                                            *)

Busy == panel.uploading \/ panel.loading

\* onFileSelected, perhaps with no file.
ChooseFile(f) ==
    On("attachments") /\ ~Busy /\ Do([x0 EXCEPT !.p.selected = f], {})

storeAttachment(agreed) ==
    Submit([x0 EXCEPT !.p.uploading = TRUE], "upload", panel.selected, agreed)

\* A faulty test, which finds no conflict.
NoConflict(f) == FALSE

\* The list is searched for the name of the file, in lower case; the backend
\* replaces other characters as well.
hasConflictingName(f) == f \in Regular /\ StoredAs[f] \in panel.list

Upload ==
    LET f == panel.selected
    IN  /\ On("attachments") /\ ~Busy /\ f # None
        /\ \/ hasConflictingName(f) /\ Shown("overwrite", StoredAs[f])
           \/ ~hasConflictingName(f) /\ storeAttachment(FALSE)

\* A faulty confirmation, which relies on the file being there still.
ConfirmOverwriteAnyway ==
    panel.dialog.op = "overwrite" /\ storeAttachment(TRUE)

\* The answer to an earlier upload may have cleared the selected file.
ConfirmOverwrite ==
    panel.dialog.op = "overwrite" /\ panel.selected # None /\ storeAttachment(TRUE)

requestDeleteAttachment(e) ==
    /\ On("attachments") /\ ~Busy /\ e \in panel.list /\ panel.deleting # e
    /\ Shown("delete", e)

\* removeAttachment; while another one is being removed nothing is sent.
ConfirmRemoval ==
    /\ kind = "attachments" /\ panel.dialog.op = "delete" /\ panel.deleting = None
    /\ Submit([x0 EXCEPT !.p.deleting = panel.dialog.entry], "delete", panel.dialog.entry, FALSE)

CloseAttachments ==
    On("attachments") /\ ~Busy /\ Do(Closed(x0), Left(x0))

InsertAttachment(e) == e \in panel.list /\ CloseAttachments

UploadAnswered(x, ok) ==
    IF ok THEN Requested([x EXCEPT !.p.selected = None])
    ELSE [x EXCEPT !.p.uploading = FALSE]

RemovalAnswered(x, ok) ==
    LET y == [x EXCEPT !.p.deleting = None] IN IF ok THEN Requested(y) ELSE y

\* Whatever refresh it is, isUploading is lowered with it.
AttachmentsListed(x, list) ==
    [x EXCEPT !.p.list = list, !.p.uploading = FALSE, !.p.loading = FALSE]

----------------------------------------------------------------------------
(* Versions.                                                               *)

VersionsIdle == On("versions") /\ ~panel.loading /\ panel.deleting = None

loadVersion(e) ==
    VersionsIdle /\ e \in panel.list /\ Submit([x0 EXCEPT !.p.loading = TRUE], "load", e, FALSE)

requestDeleteVersion(e) ==
    VersionsIdle /\ panel.canDelete /\ e \in panel.list /\ Shown("delete", e)

deleteVersion ==
    /\ kind = "versions" /\ panel.dialog.op = "delete"
    /\ Submit([x0 EXCEPT !.p.deleting = panel.dialog.entry], "delete", panel.dialog.entry, FALSE)

CloseVersions == VersionsIdle /\ Do(Closed(x0), Left(x0))

\* The version goes to the editor; a failure is taken for a list that is old.
VersionLoaded(x, ok) == IF ok THEN Closed(x) ELSE Requested(x)

\* The list is asked for again on failure too: the deletion may have happened.
VersionDeleted(x, ok) == Requested([x EXCEPT !.p.deleting = None])

VersionsListed(x, list) == [x EXCEPT !.p.list = list, !.p.loading = FALSE]

----------------------------------------------------------------------------
(* Trash and accounts: no list is shown while one is loading.              *)

AskAboutEntry(op, e) ==
    /\ On("trash") /\ ~panel.loading /\ ~panel.processing /\ e \in panel.list
    /\ Shown(op, e)

\* recoverToDestination and remove.
ChangeTrash ==
    /\ kind = "trash" /\ panel.dialog # NoDialog
    /\ Submit([x0 EXCEPT !.p.processing = TRUE], panel.dialog.op, panel.dialog.entry, FALSE)

TrashChanged(x, ok) ==
    [(IF ok THEN Requested(x) ELSE x) EXCEPT !.p.processing = FALSE]

TrashListed(x, list) == [x EXCEPT !.p.list = list, !.p.loading = FALSE]

openCreateDialog ==
    On("accounts") /\ ~panel.loading /\ ~panel.processing /\ Shown("create", None)

openEditDialog(e) ==
    /\ On("accounts") /\ ~panel.loading /\ ~panel.processing /\ e \in panel.list
    /\ Shown("edit", e)

\* An account that is created under a name that exists replaces its data.
saveAccount(e) ==
    /\ kind = "accounts"
    /\ \/ panel.dialog.op = "create"
       \/ panel.dialog = [op |-> "edit", entry |-> e]
    /\ Submit([x0 EXCEPT !.p.processing = TRUE], "save", e, FALSE)

\* The dialog and the page refuse the account of the session.
deleteAccount ==
    /\ kind = "accounts" /\ panel.dialog.op = "edit" /\ panel.dialog.entry # Self
    /\ Submit([x0 EXCEPT !.p.processing = TRUE], "delete", panel.dialog.entry, FALSE)

AccountsChanged(x, ok) ==
    [(IF ok THEN Requested(x) ELSE x) EXCEPT !.p.processing = FALSE]

AccountsListed(x, list) == [x EXCEPT !.p.list = list, !.p.loading = FALSE]

----------------------------------------------------------------------------
(* Search and sidebar: what is shown is what was asked for last.           *)

\* load, with the number of the request.
Searched(x, q) ==
    LET y == [x EXCEPT !.p.query = q, !.p.list = {}, !.p.of = None]
    IN  IF q = None THEN [y EXCEPT !.p.sequence = @ + 1, !.p.loading = FALSE]
        ELSE Requested(y)

Search(q) ==
    /\ On("search") /\ q # panel.query
    /\ Counted("queries", MaxQueries)
    /\ Become(Searched(x0, q), {})
    /\ UNCHANGED <<kind, stored>>

\* A faulty answer, which any request may give.
SearchListedLate(x, r) ==
    [x EXCEPT !.p.list = r.found, !.p.of = r.of, !.p.loading = FALSE]

SearchListed(x, r) ==
    IF r.id # x.p.sequence THEN x
    ELSE [x EXCEPT !.p.list = r.found, !.p.of = r.of, !.p.loading = FALSE]

\* The effect of the sidebar: the answer for the document before is not heard.
Siblings(x, q) ==
    LET y == [x EXCEPT !.p.query = q, !.r = {}]
    IN  IF q = None THEN y ELSE Requested(y)

ShowDocument(q) ==
    /\ On("sidebar")
    /\ Counted("queries", MaxQueries)
    /\ Become(Siblings(x0, q), {})
    /\ UNCHANGED <<kind, stored>>

SiblingsListed(x, r) == [x EXCEPT !.p.list = r.found, !.p.of = r.of]

----------------------------------------------------------------------------
(* Answers.                                                                *)

Listed(x, r) ==
    CASE kind = "attachments" -> AttachmentsListed(x, r.found)
      [] kind = "versions"    -> VersionsListed(x, r.found)
      [] kind = "trash"       -> TrashListed(x, r.found)
      [] kind = "accounts"    -> AccountsListed(x, r.found)
      [] kind = "search"      -> SearchListed(x, r)
      [] kind = "sidebar"     -> SiblingsListed(x, r)

\* A dialog keeps the list it has, a page shows none.
Unlisted(x, r) ==
    Listed(x, [r EXCEPT !.found = IF kind \in {"attachments", "versions"} THEN x.p.list ELSE {}])

Answered(x, w, ok) ==
    CASE w.op = "upload"                           -> UploadAnswered(x, ok)
      [] kind = "attachments" /\ w.op = "delete"   -> RemovalAnswered(x, ok)
      [] w.op = "load"                             -> VersionLoaded(x, ok)
      [] kind = "versions" /\ w.op = "delete"      -> VersionDeleted(x, ok)
      [] kind = "trash"                            -> TrashChanged(x, ok)
      [] kind = "accounts"                         -> AccountsChanged(x, ok)

AnswerRead(r) ==
    r.served /\ Do(Listed([x0 EXCEPT !.r = @ \ {r}], r), {})

LoseRead(r) ==
    /\ Counted("failures", MaxFailures)
    /\ Become(Unlisted([x0 EXCEPT !.r = @ \ {r}], r), {"failure"})
    /\ UNCHANGED <<kind, stored>>

AnswerWrite(w) ==
    LET x == [x0 EXCEPT !.w = @ \ {w}]
    IN  /\ w.outcome # "open"
        /\ Do(IF panel.open THEN Answered(x, w, w.outcome = "done") ELSE x, {})

\* Only the versions look again at what has become of the request.
LoseWrite(w) ==
    LET x == [x0 EXCEPT !.w = @ \ {w}]
    IN  /\ Counted("failures", MaxFailures)
        /\ Become(IF panel.open THEN Answered(x, w, FALSE) ELSE x,
                  IF kind = "versions" THEN {} ELSE {"failure"})
        /\ UNCHANGED <<kind, stored>>

----------------------------------------------------------------------------
Next ==
    \/ \E r \in reads : ServeRead(r) \/ AnswerRead(r) \/ LoseRead(r)
    \/ \E w \in writes : ServeWrite(w) \/ AnswerWrite(w) \/ LoseWrite(w)
    \/ \E f \in File \cup {None} : ChooseFile(f)
    \/ \E e \in Entry :
          \/ Others(e) \/ requestDeleteAttachment(e) \/ InsertAttachment(e)
          \/ loadVersion(e) \/ requestDeleteVersion(e) \/ openEditDialog(e) \/ saveAccount(e)
          \/ \E op \in {"recover", "delete"} : AskAboutEntry(op, e)
    \/ \E q \in Query \cup {None} : Search(q) \/ ShowDocument(q)
    \/ Upload \/ ConfirmOverwrite \/ ConfirmRemoval \/ CloseAttachments
    \/ deleteVersion \/ CloseVersions \/ ChangeTrash
    \/ openCreateDialog \/ deleteAccount \/ Dismiss

Spec == Init /\ [][Next]_vars

----------------------------------------------------------------------------
(* Properties.                                                             *)

Settled == reads = {} /\ writes = {}

\* Once every answer has come, a component shows what the backend holds, and of
\* what was asked for last, whatever the order of the answers.  The exceptions are
\* changes by others, lists that could not be had, changes whose answer was lost
\* (except in the versions, which ask again), two lists of attachments under way
\* at a time, and a dialog of attachments closed while one is being removed.
ListIsCurrent ==
    Settled =>
        /\ excuses = {} /\ (panel.query # None \/ kind \notin {"search", "sidebar"})
           => panel.list = stored
        /\ panel.list # {} /\ panel.query # None => panel.of = panel.query

\* An upload never replaces an attachment unasked: where its name was taken when
\* it arrived, the user had agreed, or the list could not show it.  The exception
\* is a file whose name the backend changes beyond its case, since the component
\* looks for the name as it was.
NoSilentOverwrite ==
    [][ \A w \in writes :
          (/\ w.op = "upload" /\ w.of \in Regular /\ w.outcome = "open"
           /\ StoredAs[w.of] \in stored
           /\ [w EXCEPT !.outcome = "done"] \in writes')
          => w.excused ]_vars

============================================================================
