---------------------------- MODULE PanelsProofs ----------------------------
(***************************************************************************)
(* Proofs about the components that show a list kept by the backend, for   *)
(* any entries, files and queries, and any number of requests under way.   *)
(*                                                                         *)
(* A handler is a function on a state of the component, so the proof has   *)
(* two parts.  The first says field by field what each handler makes of    *)
(* the state it is given, and sums the 27 actions up in nine kinds of step *)
(* (Steps).  The second shows the invariants, one lemma each, kind by      *)
(* kind.  ListIsCurrent needs to know who waits for which answer           *)
(* (ControlInv, QueryInv), NoSilentOverwrite what the list may hide from   *)
(* the user who chooses a file (NothingHidden).                            *)
(***************************************************************************)
EXTENDS Panels, FiniteSetTheorems, TLAPS

----------------------------------------------------------------------------
(* The inductive invariants.                                               *)

\* What each component asks of the backend besides its list, and the dialogs it opens.
OpsOf ==
    [attachments |-> {"upload", "delete"}, versions |-> {"load", "delete"},
     trash |-> {"recover", "delete"}, accounts |-> {"save", "delete"},
     search |-> {}, sidebar |-> {}]

DialogsOf ==
    [attachments |-> {"overwrite", "delete"}, versions |-> {"delete"},
     trash |-> {"recover", "delete"}, accounts |-> {"create", "edit"},
     search |-> {}, sidebar |-> {}]

\* A write changes a file that is uploaded, or an entry.
IsWrite(w) ==
    /\ w \in Write /\ w.op \in OpsOf[kind]
    /\ IF w.op = "upload" THEN w.of \in File ELSE w.of \in Entry

IsDialog(d) ==
    \/ d = NoDialog
    \/ d.op \in DialogsOf[kind] /\ (d.op # "create" => d.entry \in Entry)

TypeInv ==
    /\ TypeOK
    /\ IsFiniteSet(reads)
    /\ \A w \in writes : IsWrite(w)
    /\ IsDialog(panel.dialog)

\* Where the page waits for every request, one is under way at a time, which a
\* flag shows; a dialog is open only when there is none.
Waits == {"versions", "trash", "accounts"}

Flagged(w) ==
    IF kind # "versions" THEN panel.processing
    ELSE IF w.op = "load" THEN panel.loading ELSE panel.deleting # None

OneRequest ==
    /\ reads # {} => panel.loading
    /\ \A w \in writes : Flagged(w)
    /\ \A r, s \in reads : r = s
    /\ \A v, w \in writes : v = w
    /\ reads = {} \/ writes = {}
    /\ panel.dialog # NoDialog => reads = {} /\ writes = {}

\* Only dialogs are closed, without one of their own before them; no list is awaited
\* then, and if something else is, there is an excuse.
ClosedInv ==
    ~panel.open =>
        /\ kind \in {"attachments", "versions"}
        /\ panel.dialog = NoDialog /\ reads = {}
        /\ excuses = {} => writes = {}

ControlInv == (kind \in Waits => OneRequest) /\ ClosedInv

----------------------------------------------------------------------------
(* What the list shows.                                                    *)

\* The search awaits the last request only.
Awaited(r) == kind = "search" => r.id = panel.sequence

\* A change has been made that the component is going to hear of, and then ask
\* for the list again.
Unheard == \E w \in writes : w.outcome = "done" /\ w.op # "load"

Queried == kind \in {"search", "sidebar"}

\* Without an excuse the list is the backend's, or a list is awaited.
CurrentInv ==
    excuses = {} =>
        \/ Unheard
        \/ /\ \A r \in reads : Awaited(r) /\ r.served => r.found = stored
           /\ \/ \E r \in reads : Awaited(r)
              \/ panel.list = stored
              \/ Queried /\ panel.query = None

\* It belongs to the query, or a list that does is awaited.
QueryInv ==
    /\ ~Queried => panel.query = None
    /\ \A r \in reads : r.id <= panel.sequence /\ (Awaited(r) => r.of = panel.query)
    /\ \/ panel.list = {} \/ panel.query = None \/ panel.of = panel.query
       \/ \E r \in reads : Awaited(r)

\* Of two uploads under way either may replace the other.
UploadsOverlap ==
    \A v, w \in writes : v.op = "upload" /\ w.op = "upload" /\ v # w => v.excused /\ w.excused

\* Without an excuse no attachment is missing from the list, unless an answer to an
\* upload or a list is awaited.
NothingHidden ==
    kind = "attachments" /\ excuses = {} =>
        \/ \E w \in writes : w.op = "upload" /\ w.outcome = "done"
        \/ /\ \A r \in reads : r.served => stored \subseteq r.found
           /\ reads # {} \/ stored \subseteq panel.list

ReplacesNothing ==
    \A w \in writes :
        /\ w.op = "upload" /\ w.of \in Regular /\ w.outcome = "open"
        /\ StoredAs[w.of] \in stored
        => w.excused

UploadInv == UploadsOverlap /\ NothingHidden /\ ReplacesNothing
----------------------------------------------------------------------------
(* What the handlers do, by field.                                         *)

State == [p : PanelState, r : SUBSET Read, w : SUBSET Write]

\* The fields that requests and answers leave alone.
Steady(p, q) ==
    /\ q.open = p.open /\ q.query = p.query /\ q.canDelete = p.canDelete

LEMMA RequestedEffect ==
    ASSUME NEW x \in State
    PROVE  /\ Requested(x) \in State
           /\ Steady(x.p, Requested(x).p)
           /\ Requested(x).p.list = x.p.list /\ Requested(x).p.of = x.p.of
           /\ Requested(x).p.dialog = x.p.dialog /\ Requested(x).p.selected = x.p.selected
           /\ Requested(x).p.processing = x.p.processing
           /\ Requested(x).p.deleting = x.p.deleting
           /\ Requested(x).p.sequence = x.p.sequence + 1
           /\ Requested(x).p.loading = TRUE
           /\ Requested(x).w = x.w
           /\ Requested(x).r = x.r \cup {[id |-> x.p.sequence + 1, of |-> x.p.query,
                                          served |-> FALSE, found |-> {}]}
<1>1. x.p.sequence + 1 \in Nat
  BY DEF State, PanelState
<1>2. [id |-> x.p.sequence + 1, of |-> x.p.query, served |-> FALSE, found |-> {}] \in Read
  BY <1>1 DEF State, PanelState, Read
<1> QED
  BY <1>1, <1>2 DEF State, PanelState, Requested, Steady

LEMMA ClosedEffect ==
    ASSUME NEW x \in State
    PROVE  /\ Closed(x) \in State
           /\ Closed(x).p.query = x.p.query /\ Closed(x).p.list = x.p.list
           /\ Closed(x).p.of = x.p.of /\ Closed(x).p.dialog = x.p.dialog
           /\ Closed(x).p.sequence = x.p.sequence
           /\ Closed(x).p.open = FALSE
           /\ Closed(x).w = x.w /\ Closed(x).r = {}
<1> DEFINE p == [x.p EXCEPT !.open = FALSE]
<1>1. p \in PanelState
  BY DEF State, PanelState
<1>2. Closed(x).p = p /\ Closed(x).r = {} /\ Closed(x).w = x.w
  BY DEF Closed, State
<1>3. Closed(x) \in State
  BY DEF Closed, State, PanelState
<1> QED
  BY <1>2, <1>3 DEF State, PanelState

\* What a write is sent as.
LEMMA SubmittedWrites ==
    ASSUME NEW x \in State, NEW op, NEW of, NEW agreed \in BOOLEAN,
           op \in {"upload", "delete", "load", "recover", "save"}, of \in Entry \cup File
    PROVE  LET new == [id |-> x.p.sequence + 1, op |-> op, of |-> of, outcome |-> "open",
                       excused |-> agreed \/ excuses # {} \/ x.r # {}]
               overlap == op = "upload" /\ \E w \in x.w : w.op = "upload"
           IN  /\ new \in Write
               /\ Submitted(x, op, of, agreed).w
                    = {[w EXCEPT !.excused = @ \/ overlap] : w \in x.w \cup {new}}
<1> DEFINE new == [id |-> x.p.sequence + 1, op |-> op, of |-> of, outcome |-> "open",
                   excused |-> agreed \/ excuses # {} \/ x.r # {}]
           overlap == op = "upload" /\ \E w \in x.w : w.op = "upload"
           W == {[w EXCEPT !.excused = @ \/ overlap] : w \in x.w \cup {new}}
<1>1. x.p.sequence + 1 \in Nat
  BY DEF State, PanelState
<1>2. new \in Write
  BY <1>1 DEF Write
<1>3. Submitted(x, op, of, agreed)
        = [x EXCEPT !.p.sequence = @ + 1, !.p.dialog = NoDialog, !.w = W]
  BY DEF Submitted
<1> HIDE DEF W
<1>4. Submitted(x, op, of, agreed).w = W
  BY <1>3 DEF State
<1> QED
  BY <1>2, <1>4 DEF W

LEMMA SubmittedEffect ==
    ASSUME NEW x \in State, NEW op, NEW of, NEW agreed \in BOOLEAN,
           op \in {"upload", "delete", "load", "recover", "save"}, of \in Entry \cup File
    PROVE  LET y == Submitted(x, op, of, agreed)
           IN  /\ y \in State
               /\ Steady(x.p, y.p)
               /\ y.p.list = x.p.list /\ y.p.of = x.p.of
               /\ y.p.selected = x.p.selected /\ y.p.loading = x.p.loading
               /\ y.p.processing = x.p.processing /\ y.p.deleting = x.p.deleting
               /\ y.p.sequence = x.p.sequence + 1
               /\ y.p.dialog = NoDialog
               /\ y.r = x.r
<1> DEFINE new == [id |-> x.p.sequence + 1, op |-> op, of |-> of, outcome |-> "open",
                   excused |-> agreed \/ excuses # {} \/ x.r # {}]
           overlap == op = "upload" /\ \E w \in x.w : w.op = "upload"
           W == {[w EXCEPT !.excused = @ \/ overlap] : w \in x.w \cup {new}}
<1>1. x.p.sequence + 1 \in Nat /\ x.p \in PanelState /\ x.w \subseteq Write /\ x.r \subseteq Read
  BY DEF State, PanelState
<1>2. new \in Write
  BY <1>1 DEF Write
<1>3. overlap \in BOOLEAN
  OBVIOUS
<1>4. W \subseteq Write
  <2>1. ASSUME NEW w \in Write, NEW b \in BOOLEAN
        PROVE  [w EXCEPT !.excused = b] \in Write
    BY <2>1 DEF Write
  <2>2. ASSUME NEW w \in Write
        PROVE  (w.excused \/ overlap) \in BOOLEAN
    BY <1>3 DEF Write
  <2> HIDE DEF overlap
  <2> QED
    BY <1>1, <1>2, <2>1, <2>2
<1>5. NoDialog \in [op : {"none", "overwrite", "delete", "recover", "create", "edit"},
                    entry : Entry \cup {None}]
  BY DEF NoDialog
<1> DEFINE P == [[x.p EXCEPT !.sequence = @ + 1] EXCEPT !.dialog = NoDialog]
<1>6. /\ P \in PanelState
      /\ Steady(x.p, P)
      /\ P.list = x.p.list /\ P.of = x.p.of
      /\ P.selected = x.p.selected /\ P.loading = x.p.loading
      /\ P.processing = x.p.processing /\ P.deleting = x.p.deleting
      /\ P.sequence = x.p.sequence + 1
      /\ P.dialog = NoDialog
  BY <1>1, <1>5 DEF PanelState, Steady
<1>7. Submitted(x, op, of, agreed)
        = [x EXCEPT !.p.sequence = @ + 1, !.p.dialog = NoDialog, !.w = W]
  BY DEF Submitted
<1> HIDE DEF W
<1> DEFINE y == [x EXCEPT !.p.sequence = @ + 1, !.p.dialog = NoDialog, !.w = W]
<1>8. y.p = P
  BY DEF State
<1>9. y.r = x.r /\ y.w = W
  BY DEF State
<1>10. y \in State
  BY <1>1, <1>4, <1>5 DEF State, PanelState
<1> HIDE DEF P, y
<1>11. Submitted(x, op, of, agreed) = y
  BY <1>7 DEF y
<1> QED
  BY <1>6, <1>8, <1>9, <1>10, <1>11

\* The answer to a request for the list: one that the search no longer waits for changes
\* nothing.
LEMMA ListedEffect ==
    ASSUME NEW x \in State, NEW r \in Read, kind \in Kind
    PROVE  LET y == Listed(x, r)
               heard == kind = "search" => r.id = x.p.sequence
           IN  /\ y \in State
               /\ Steady(x.p, y.p)
               /\ y.p.selected = x.p.selected /\ y.p.processing = x.p.processing
               /\ y.p.deleting = x.p.deleting /\ y.p.dialog = x.p.dialog
               /\ y.p.sequence = x.p.sequence
               /\ heard => y.p.list = r.found
               /\ ~heard => y.p.list = x.p.list /\ y.p.of = x.p.of
               /\ Queried /\ heard => y.p.of = r.of
               /\ ~Queried => y.p.of = x.p.of
               /\ y.r = x.r /\ y.w = x.w
<1>1. /\ r.found \in SUBSET Entry /\ r.of \in Query \cup {None}
      /\ x.p \in PanelState /\ x.w \subseteq Write /\ x.r \subseteq Read
  BY DEF Read, State
<1>2. CASE kind = "attachments"
  BY <1>1, <1>2 DEF Listed, AttachmentsListed, State, PanelState, Steady, Queried
<1>3. CASE kind = "versions"
  BY <1>1, <1>3 DEF Listed, VersionsListed, State, PanelState, Steady, Queried
<1>4. CASE kind = "trash"
  BY <1>1, <1>4 DEF Listed, TrashListed, State, PanelState, Steady, Queried
<1>5. CASE kind = "accounts"
  BY <1>1, <1>5 DEF Listed, AccountsListed, State, PanelState, Steady, Queried
<1>6. CASE kind = "search"
  BY <1>1, <1>6 DEF Listed, SearchListed, State, PanelState, Steady, Queried
<1>7. CASE kind = "sidebar"
  BY <1>1, <1>7 DEF Listed, SiblingsListed, State, PanelState, Steady, Queried
<1> QED
  BY <1>2, <1>3, <1>4, <1>5, <1>6, <1>7 DEF Kind

\* After the answer to a write the list is asked for again, or the dialog is closed.
Asks(w, ok) ==
    \/ ok /\ w.op # "load"
    \/ kind = "versions" /\ (w.op = "load" => ~ok)

Closes(w, ok) == w.op = "load" /\ ok

\* What the answer to w makes of x.
AnsweredTo(x, w, ok, y) ==
    /\ y \in State
    /\ y.p.query = x.p.query /\ y.p.list = x.p.list /\ y.p.of = x.p.of
    /\ y.p.dialog = x.p.dialog
    /\ Closes(w, ok) => y.p.open = FALSE
    /\ ~Closes(w, ok) => y.p.open = x.p.open
    /\ y.w = x.w
    /\ Asks(w, ok) =>
          /\ y.p.sequence = x.p.sequence + 1 /\ y.p.loading = TRUE
          /\ y.r = x.r \cup {[id |-> x.p.sequence + 1, of |-> x.p.query,
                              served |-> FALSE, found |-> {}]}
    /\ ~Asks(w, ok) => y.p.sequence = x.p.sequence
    /\ Closes(w, ok) => y.r = {}
    /\ ~Asks(w, ok) /\ ~Closes(w, ok) => y.r = x.r

LEMMA AnsweredEffect ==
    ASSUME NEW x \in State, NEW w, IsWrite(w), NEW ok \in BOOLEAN, kind \in Kind
    PROVE  AnsweredTo(x, w, ok, Answered(x, w, ok))
<1> USE DEF AnsweredTo
<1>1. /\ x.p \in PanelState /\ x.w \subseteq Write /\ x.r \subseteq Read
  BY DEF State
<1>2. w.op \in OpsOf[kind]
  BY DEF IsWrite
<1>3. CASE w.op = "upload"
  <2>1. kind = "attachments"
    BY <1>2, <1>3 DEF Kind, OpsOf
  <2>2. ~Closes(w, ok) /\ (Asks(w, ok) <=> ok)
    BY <1>3, <2>1 DEF Closes, Asks
  <2>3. Answered(x, w, ok) = UploadAnswered(x, ok)
    BY <1>3, <2>1 DEF Answered
  <2> DEFINE y == [x EXCEPT !.p.selected = None]
             z == [x EXCEPT !.p.uploading = FALSE]
  <2>4. /\ y \in State /\ y.p.query = x.p.query /\ y.p.list = x.p.list /\ y.p.of = x.p.of
        /\ y.p.dialog = x.p.dialog /\ y.p.open = x.p.open /\ y.w = x.w /\ y.r = x.r
        /\ y.p.sequence = x.p.sequence
    BY <1>1 DEF State, PanelState
  <2>5. /\ z \in State /\ z.p.query = x.p.query /\ z.p.list = x.p.list /\ z.p.of = x.p.of
        /\ z.p.dialog = x.p.dialog /\ z.p.open = x.p.open /\ z.w = x.w /\ z.r = x.r
        /\ z.p.sequence = x.p.sequence
    BY <1>1 DEF State, PanelState
  <2>6. CASE ok
    <3>1. Answered(x, w, ok) = Requested(y)
      BY <2>3, <2>6 DEF UploadAnswered
    <3> HIDE DEF y
    <3> QED
      BY <2>2, <2>4, <2>6, <3>1, RequestedEffect DEF Steady
  <2>7. CASE ~ok
    <3>1. Answered(x, w, ok) = z
      BY <2>3, <2>7 DEF UploadAnswered
    <3> HIDE DEF z
    <3> QED
      BY <2>2, <2>5, <2>7, <3>1
  <2> QED
    BY <2>6, <2>7
<1>4. CASE kind = "attachments" /\ w.op = "delete"
  <2>2. ~Closes(w, ok) /\ (Asks(w, ok) <=> ok)
    BY <1>4 DEF Closes, Asks
  <2>3. Answered(x, w, ok) = RemovalAnswered(x, ok)
    BY <1>4 DEF Answered
  <2> DEFINE y == [x EXCEPT !.p.deleting = None]
  <2>4. /\ y \in State /\ y.p.query = x.p.query /\ y.p.list = x.p.list /\ y.p.of = x.p.of
        /\ y.p.dialog = x.p.dialog /\ y.p.open = x.p.open /\ y.w = x.w /\ y.r = x.r
        /\ y.p.sequence = x.p.sequence
    BY <1>1 DEF State, PanelState
  <2>5. Answered(x, w, ok) = IF ok THEN Requested(y) ELSE y
    BY <2>3 DEF RemovalAnswered
  <2> HIDE DEF y
  <2>6. CASE ok
    BY <2>2, <2>4, <2>5, <2>6, RequestedEffect DEF Steady
  <2>7. CASE ~ok
    BY <2>2, <2>4, <2>5, <2>7
  <2> QED
    BY <2>6, <2>7
<1>5. CASE w.op = "load"
  <2>1. kind = "versions"
    BY <1>2, <1>5 DEF Kind, OpsOf
  <2>2. (Closes(w, ok) <=> ok) /\ (Asks(w, ok) <=> ~ok)
    BY <1>5, <2>1 DEF Closes, Asks
  <2>3. Answered(x, w, ok) = VersionLoaded(x, ok)
    BY <1>5, <2>1 DEF Answered
  <2>4. CASE ok
    <3>1. Answered(x, w, ok) = Closed(x)
      BY <2>3, <2>4 DEF VersionLoaded
    <3> QED
      BY <2>2, <2>4, <3>1, ClosedEffect
  <2>5. CASE ~ok
    <3>1. Answered(x, w, ok) = Requested(x)
      BY <2>3, <2>5 DEF VersionLoaded
    <3> QED
      BY <2>2, <2>5, <3>1, RequestedEffect DEF Steady
  <2> QED
    BY <2>4, <2>5
<1>6. CASE kind = "versions" /\ w.op = "delete"
  <2>1. ~Closes(w, ok) /\ Asks(w, ok)
    BY <1>6 DEF Closes, Asks
  <2> DEFINE y == [x EXCEPT !.p.deleting = None]
  <2>2. /\ y \in State /\ y.p.query = x.p.query /\ y.p.list = x.p.list /\ y.p.of = x.p.of
        /\ y.p.dialog = x.p.dialog /\ y.p.open = x.p.open /\ y.w = x.w /\ y.r = x.r
        /\ y.p.sequence = x.p.sequence
    BY <1>1 DEF State, PanelState
  <2>3. Answered(x, w, ok) = Requested(y)
    BY <1>6 DEF Answered, VersionDeleted
  <2> HIDE DEF y
  <2> QED
    BY <2>1, <2>2, <2>3, RequestedEffect DEF Steady
<1>7. CASE kind \in {"trash", "accounts"}
  <2>1. w.op \in {"recover", "save", "delete"}
    BY <1>2, <1>7 DEF OpsOf
  <2>2. ~Closes(w, ok) /\ (Asks(w, ok) <=> ok)
    BY <1>7, <2>1 DEF Closes, Asks
  <2> DEFINE y == IF ok THEN Requested(x) ELSE x
             z == [y EXCEPT !.p.processing = FALSE]
  <2>3. Answered(x, w, ok) = z
    BY <1>7, <2>1 DEF Answered, TrashChanged, AccountsChanged
  <2>4. /\ y \in State
        /\ y.p.query = x.p.query /\ y.p.list = x.p.list /\ y.p.of = x.p.of
        /\ y.p.dialog = x.p.dialog /\ y.p.open = x.p.open /\ y.w = x.w
        /\ ok => y.r = x.r \cup {[id |-> x.p.sequence + 1, of |-> x.p.query,
                                  served |-> FALSE, found |-> {}]}
        /\ ok => y.p.sequence = x.p.sequence + 1 /\ y.p.loading = TRUE
        /\ ~ok => y.r = x.r /\ y.p.sequence = x.p.sequence
    BY RequestedEffect DEF Steady
  <2> HIDE DEF y
  <2>5. /\ z \in State /\ z.p.query = y.p.query /\ z.p.list = y.p.list /\ z.p.of = y.p.of
        /\ z.p.dialog = y.p.dialog /\ z.p.open = y.p.open /\ z.w = y.w /\ z.r = y.r
        /\ z.p.sequence = y.p.sequence /\ z.p.loading = y.p.loading
    BY <2>4 DEF State, PanelState
  <2> HIDE DEF z
  <2> QED
    BY <2>2, <2>3, <2>4, <2>5
<1>8. \/ w.op \in {"upload", "load"}
      \/ kind \in {"attachments", "versions"} /\ w.op = "delete"
      \/ kind \in {"trash", "accounts"}
  BY <1>2 DEF Kind, OpsOf
<1> QED
  BY <1>3, <1>4, <1>5, <1>6, <1>7, <1>8

LEMMA SearchedEffect ==
    ASSUME NEW x \in State, NEW q \in Query \cup {None}
    PROVE  LET y == Searched(x, q)
           IN  /\ y \in State
               /\ y.p.open = x.p.open /\ y.p.dialog = x.p.dialog
               /\ y.p.query = q /\ y.p.list = {}
               /\ y.p.sequence = x.p.sequence + 1
               /\ y.w = x.w
               /\ q = None => y.r = x.r
               /\ q # None => y.r = x.r \cup {[id |-> x.p.sequence + 1, of |-> q,
                                               served |-> FALSE, found |-> {}]}
<1> DEFINE y == [x EXCEPT !.p.query = q, !.p.list = {}, !.p.of = None]
           z == [y EXCEPT !.p.sequence = @ + 1, !.p.loading = FALSE]
<1>1. /\ x.p \in PanelState /\ x.w \subseteq Write /\ x.r \subseteq Read
  BY DEF State
<1>2. /\ y \in State
      /\ y.p.open = x.p.open /\ y.p.dialog = x.p.dialog
      /\ y.p.query = q /\ y.p.list = {} /\ y.p.sequence = x.p.sequence
      /\ y.w = x.w /\ y.r = x.r
  BY <1>1 DEF State, PanelState
<1> HIDE DEF y
<1>3. Searched(x, q) = IF q = None THEN z ELSE Requested(y)
  BY DEF Searched, y
<1>4. y \in State /\ y.p.sequence + 1 \in Nat
  BY <1>2 DEF State, PanelState
<1>5. /\ z \in State
      /\ z.p.open = y.p.open /\ z.p.dialog = y.p.dialog
      /\ z.p.query = y.p.query /\ z.p.list = y.p.list /\ z.p.sequence = y.p.sequence + 1
      /\ z.w = y.w /\ z.r = y.r
  BY <1>4 DEF State, PanelState
<1> HIDE DEF z
<1>6. CASE q = None
  BY <1>2, <1>3, <1>5, <1>6
<1>7. CASE q # None
  BY <1>2, <1>3, <1>7, RequestedEffect DEF Steady
<1> QED
  BY <1>6, <1>7

LEMMA SiblingsEffect ==
    ASSUME NEW x \in State, NEW q \in Query \cup {None}
    PROVE  LET y == Siblings(x, q)
           IN  /\ y \in State
               /\ y.p.open = x.p.open /\ y.p.dialog = x.p.dialog
               /\ y.p.query = q /\ y.p.list = x.p.list /\ y.p.of = x.p.of
               /\ y.w = x.w
               /\ q = None => y.r = {} /\ y.p.sequence = x.p.sequence
               /\ q # None =>
                     /\ y.p.sequence = x.p.sequence + 1
                     /\ y.r = {[id |-> x.p.sequence + 1, of |-> q,
                                served |-> FALSE, found |-> {}]}
<1> DEFINE y == [x EXCEPT !.p.query = q, !.r = {}]
<1>1. /\ x.p \in PanelState /\ x.w \subseteq Write /\ x.r \subseteq Read
  BY DEF State
<1>2. /\ y \in State
      /\ y.p.open = x.p.open /\ y.p.dialog = x.p.dialog
      /\ y.p.query = q /\ y.p.list = x.p.list /\ y.p.of = x.p.of
      /\ y.p.sequence = x.p.sequence
      /\ y.w = x.w /\ y.r = {}
  BY <1>1 DEF State, PanelState
<1>3. Siblings(x, q) = IF q = None THEN y ELSE Requested(y)
  BY DEF Siblings
<1> HIDE DEF y
<1>6. CASE q = None
  BY <1>2, <1>3, <1>6
<1>7. CASE q # None
  BY <1>2, <1>3, <1>7, RequestedEffect DEF Steady
<1> QED
  BY <1>6, <1>7

----------------------------------------------------------------------------
(* What the actions do.                                                    *)

Excuse == {"others", "failure", "crossing", "left"}

LEMMA StateOfPanel ==
    ASSUME TypeInv
    PROVE  /\ x0 \in State /\ x0.p = panel /\ x0.r = reads /\ x0.w = writes
           /\ panel \in PanelState /\ reads \subseteq Read /\ writes \subseteq Write
           /\ kind \in Kind /\ stored \subseteq Entry /\ excuses \subseteq Excuse
           /\ IsFiniteSet(reads)
           /\ sent \in [{"writes", "others", "failures", "queries"} -> Nat]
  BY DEF TypeInv, TypeOK, State, x0, Excuse

LEMMA AtMostOne ==
    ASSUME NEW S, IsFiniteSet(S), ~(Cardinality(S) > 1)
    PROVE  \A a, b \in S : a = b
<1> SUFFICES ASSUME NEW a \in S, NEW b \in S, a # b
             PROVE  FALSE
  OBVIOUS
<1>1. IsFiniteSet({a}) /\ Cardinality({a}) = 1
  BY FS_Singleton
<1>2. IsFiniteSet({a} \cup {b}) /\ Cardinality({a} \cup {b}) = Cardinality({a}) + 1
  BY <1>1, FS_AddElement
<1>3. Cardinality({a} \cup {b}) <= Cardinality(S)
  BY FS_Subset
<1>4. Cardinality(S) \in Nat
  BY FS_CardinalityType
<1> QED
  BY <1>1, <1>2, <1>3, <1>4

\* Excuses are only added, and two lists of attachments under way are one.
LEMMA BecomeEffect ==
    ASSUME TypeInv, NEW x \in State, IsFiniteSet(x.r), NEW causes \in SUBSET Excuse,
           Become(x, causes)
    PROVE  /\ panel' = x.p /\ reads' = x.r /\ writes' = x.w
           /\ panel' \in PanelState /\ reads' \subseteq Read /\ writes' \subseteq Write
           /\ IsFiniteSet(reads)'
           /\ excuses' \subseteq Excuse
           /\ excuses' = {} =>
                 /\ excuses = {} /\ causes = {}
                 /\ kind = "attachments" => \A a, b \in reads' : a = b
<1>1. /\ panel' = x.p /\ reads' = x.r /\ writes' = x.w
      /\ excuses' = excuses \cup causes \cup
           (IF kind = "attachments" /\ Cardinality(x.r) > 1 THEN {"crossing"} ELSE {})
  BY DEF Become
<1>2. /\ x.p \in PanelState /\ x.r \subseteq Read /\ x.w \subseteq Write
  BY DEF State
<1>3. excuses \subseteq Excuse
  BY StateOfPanel
<1>4. excuses' \subseteq Excuse
  BY <1>1, <1>3 DEF Excuse
<1>5. excuses' = {} => excuses = {} /\ causes = {}
  BY <1>1
<1>6. excuses' = {} /\ kind = "attachments" => ~(Cardinality(x.r) > 1)
  BY <1>1
<1> QED
  BY <1>1, <1>2, <1>4, <1>5, <1>6, AtMostOne

\* What both requests and changes of the panel leave alone.
Typed ==
    /\ kind' = kind /\ stored' \subseteq Entry
    /\ panel' \in PanelState /\ reads' \subseteq Read /\ writes' \subseteq Write
    /\ IsFiniteSet(reads)'
    /\ sent' \in [{"writes", "others", "failures", "queries"} -> Nat]
    /\ excuses' \subseteq Excuse

\* Only the panel changes: a file is chosen, or a dialog is shown or dismissed.
PanelStep ==
    /\ Typed /\ stored' = stored /\ reads' = reads /\ writes' = writes
    /\ panel'.open = panel.open /\ panel'.list = panel.list /\ panel'.of = panel.of
    /\ panel'.query = panel.query /\ panel'.sequence = panel.sequence
    /\ panel'.loading = panel.loading /\ panel'.processing = panel.processing
    /\ panel'.deleting = panel.deleting
    /\ \/ panel'.dialog = NoDialog
       \/ /\ panel.open /\ IsDialog(panel'.dialog)
          /\ kind \in Waits => reads = {} /\ writes = {}
    /\ excuses' = {} => excuses = {}

\* A step of Do.
LEMMA DoEffect ==
    ASSUME TypeInv, NEW x \in State, IsFiniteSet(x.r), NEW causes \in SUBSET Excuse, Do(x, causes)
    PROVE  /\ Typed /\ stored' = stored
           /\ panel' = x.p /\ reads' = x.r /\ writes' = x.w
           /\ excuses' = {} =>
                 /\ excuses = {} /\ causes = {}
                 /\ kind = "attachments" => \A a, b \in reads' : a = b
  BY BecomeEffect, StateOfPanel DEF Do, Typed

\* While a page waits, nothing can be clicked.
LEMMA IdleProcess ==
    ASSUME ControlInv, kind \in {"trash", "accounts"}, ~panel.loading, ~panel.processing
    PROVE  reads = {} /\ writes = {}
  BY DEF ControlInv, OneRequest, Flagged, Waits

LEMMA ShownStep ==
    ASSUME TypeInv, NEW op, NEW e, Shown(op, e), panel.open, op \in DialogsOf[kind],
           IF op = "create" THEN e = None ELSE e \in Entry,
           kind \in Waits => reads = {} /\ writes = {}
    PROVE  PanelStep
<1> DEFINE d == [op |-> op, entry |-> e]
           x == [x0 EXCEPT !.p.dialog = d]
<1>1. /\ x0 \in State /\ x0.p = panel /\ x0.r = reads /\ x0.w = writes /\ kind \in Kind
      /\ IsFiniteSet(reads)
  BY StateOfPanel
<1>2. op \in {"none", "overwrite", "delete", "recover", "create", "edit"}
  BY <1>1 DEF DialogsOf, Kind
<1>3. d \in [op : {"none", "overwrite", "delete", "recover", "create", "edit"},
             entry : Entry \cup {None}]
  BY <1>2
<1>4. /\ x \in State
      /\ x.p.open = panel.open /\ x.p.list = panel.list /\ x.p.of = panel.of
      /\ x.p.query = panel.query /\ x.p.sequence = panel.sequence
      /\ x.p.loading = panel.loading /\ x.p.processing = panel.processing
      /\ x.p.deleting = panel.deleting /\ x.p.dialog = d
      /\ x.r = reads /\ x.w = writes
  <2> HIDE DEF d
  <2> QED
    BY <1>1, <1>3 DEF State, PanelState
<1>5. IsDialog(d)
  BY DEF IsDialog
<1>6. Do(x, {})
  BY DEF Shown
<1> HIDE DEF d, x
<1>7. /\ Typed /\ stored' = stored
      /\ panel' = x.p /\ reads' = x.r /\ writes' = x.w
      /\ excuses' = {} => excuses = {}
  BY <1>1, <1>4, <1>6, DoEffect
<1> QED
  BY <1>4, <1>5, <1>7 DEF PanelStep

LEMMA ChooseFileStep ==
    ASSUME TypeInv, ControlInv, NEW f \in File \cup {None}, ChooseFile(f)
    PROVE  PanelStep
<1> DEFINE x == [x0 EXCEPT !.p.selected = f]
<1>1. /\ x0 \in State /\ x0.p = panel /\ x0.r = reads /\ x0.w = writes /\ kind \in Kind
      /\ IsFiniteSet(reads)
  BY StateOfPanel
<1>4. /\ x \in State
      /\ x.p.open = panel.open /\ x.p.list = panel.list /\ x.p.of = panel.of
      /\ x.p.query = panel.query /\ x.p.sequence = panel.sequence
      /\ x.p.loading = panel.loading /\ x.p.processing = panel.processing
      /\ x.p.deleting = panel.deleting /\ x.p.dialog = panel.dialog
      /\ x.r = reads /\ x.w = writes
  BY <1>1 DEF State, PanelState
<1>6. Do(x, {}) /\ panel.dialog = NoDialog
  BY DEF ChooseFile, On
<1> HIDE DEF x
<1>7. /\ Typed /\ stored' = stored
      /\ panel' = x.p /\ reads' = x.r /\ writes' = x.w
      /\ excuses' = {} => excuses = {}
  BY <1>1, <1>4, <1>6, DoEffect
<1> QED
  BY <1>4, <1>6, <1>7 DEF PanelStep

LEMMA DismissStep ==
    ASSUME TypeInv, ControlInv, Dismiss
    PROVE  PanelStep
<1> DEFINE x == [x0 EXCEPT !.p.dialog = NoDialog]
<1>1. /\ x0 \in State /\ x0.p = panel /\ x0.r = reads /\ x0.w = writes /\ kind \in Kind
      /\ IsFiniteSet(reads)
  BY StateOfPanel
<1>3. NoDialog \in [op : {"none", "overwrite", "delete", "recover", "create", "edit"},
                    entry : Entry \cup {None}]
  BY DEF NoDialog
<1>4. /\ x \in State
      /\ x.p.open = panel.open /\ x.p.list = panel.list /\ x.p.of = panel.of
      /\ x.p.query = panel.query /\ x.p.sequence = panel.sequence
      /\ x.p.loading = panel.loading /\ x.p.processing = panel.processing
      /\ x.p.deleting = panel.deleting /\ x.p.dialog = NoDialog
      /\ x.r = reads /\ x.w = writes
  BY <1>1, <1>3 DEF State, PanelState
<1>6. Do(x, {})
  BY DEF Dismiss
<1> HIDE DEF x
<1>7. /\ Typed /\ stored' = stored
      /\ panel' = x.p /\ reads' = x.r /\ writes' = x.w
      /\ excuses' = {} => excuses = {}
  BY <1>1, <1>4, <1>6, DoEffect
<1> QED
  BY <1>4, <1>7 DEF PanelStep

\* The steps that show a dialog.
Asking ==
    \/ \E e \in Entry :
          \/ requestDeleteAttachment(e) \/ requestDeleteVersion(e) \/ openEditDialog(e)
          \/ \E op \in {"recover", "delete"} : AskAboutEntry(op, e)
    \/ openCreateDialog
    \/ /\ On("attachments") /\ panel.selected # None
       /\ hasConflictingName(panel.selected) /\ Shown("overwrite", StoredAs[panel.selected])

LEMMA AskingStep ==
    ASSUME TypeInv, ControlInv, Asking
    PROVE  PanelStep
<1>1. /\ panel.selected \in File \cup {None} /\ kind \in Kind
  BY StateOfPanel DEF PanelState
<1>2. ASSUME NEW e \in Entry, requestDeleteAttachment(e)
      PROVE  PanelStep
  <2>1. panel.open /\ kind = "attachments" /\ Shown("delete", e)
    BY <1>2 DEF requestDeleteAttachment, On
  <2>2. "delete" \in DialogsOf[kind] /\ kind \notin Waits
    BY <2>1 DEF DialogsOf, Waits
  <2> QED
    BY <2>1, <2>2, ShownStep
<1>3. ASSUME NEW e \in Entry, requestDeleteVersion(e)
      PROVE  PanelStep
  <2>1. /\ panel.open /\ kind = "versions" /\ Shown("delete", e)
        /\ ~panel.loading /\ panel.deleting = None
    BY <1>3 DEF requestDeleteVersion, VersionsIdle, On
  <2>2. "delete" \in DialogsOf[kind]
    BY <2>1 DEF DialogsOf
  <2>3. reads = {} /\ writes = {}
    BY <2>1 DEF ControlInv, OneRequest, Flagged, Waits
  <2> QED
    BY <2>1, <2>2, <2>3, ShownStep
<1>4. ASSUME NEW e \in Entry, openEditDialog(e)
      PROVE  PanelStep
  <2>1. /\ panel.open /\ kind = "accounts" /\ Shown("edit", e)
        /\ ~panel.loading /\ ~panel.processing
    BY <1>4 DEF openEditDialog, On
  <2>2. "edit" \in DialogsOf[kind]
    BY <2>1 DEF DialogsOf
  <2> QED
    BY <2>1, <2>2, IdleProcess, ShownStep
<1>5. ASSUME NEW e \in Entry, NEW op \in {"recover", "delete"}, AskAboutEntry(op, e)
      PROVE  PanelStep
  <2>1. /\ panel.open /\ kind = "trash" /\ Shown(op, e)
        /\ ~panel.loading /\ ~panel.processing
    BY <1>5 DEF AskAboutEntry, On
  <2>2. op \in DialogsOf[kind] /\ op # "create"
    BY <2>1 DEF DialogsOf
  <2> QED
    BY <2>1, <2>2, IdleProcess, ShownStep
<1>6. ASSUME openCreateDialog
      PROVE  PanelStep
  <2>1. /\ panel.open /\ kind = "accounts" /\ Shown("create", None)
        /\ ~panel.loading /\ ~panel.processing
    BY <1>6 DEF openCreateDialog, On
  <2>2. "create" \in DialogsOf[kind]
    BY <2>1 DEF DialogsOf
  <2> QED
    BY <2>1, <2>2, IdleProcess, ShownStep
<1>7. ASSUME On("attachments"), panel.selected # None,
             Shown("overwrite", StoredAs[panel.selected])
      PROVE  PanelStep
  <2>1. panel.open /\ kind = "attachments"
    BY <1>7 DEF On
  <2>2. "overwrite" \in DialogsOf[kind] /\ kind \notin Waits
    BY <2>1 DEF DialogsOf, Waits
  <2>3. StoredAs[panel.selected] \in Entry
    BY <1>1, <1>7, PanelsAssumption
  <2> QED
    BY <1>7, <2>1, <2>2, <2>3, ShownStep
<1> QED
  BY <1>2, <1>3, <1>4, <1>5, <1>6, <1>7 DEF Asking

----------------------------------------------------------------------------
\* A write is sent.
NewWrite(op, of, agreed) ==
    [id |-> panel.sequence + 1, op |-> op, of |-> of, outcome |-> "open",
     excused |-> agreed \/ excuses # {} \/ reads # {}]

Overlap(op) == op = "upload" /\ \E w \in writes : w.op = "upload"

Excusing(w, b) == [w EXCEPT !.excused = @ \/ b]

LEMMA ExcusingEffect ==
    ASSUME NEW w \in Write, NEW b \in BOOLEAN
    PROVE  /\ Excusing(w, b) \in Write
           /\ Excusing(w, b).op = w.op /\ Excusing(w, b).of = w.of
           /\ Excusing(w, b).outcome = w.outcome
           /\ Excusing(w, b).excused <=> w.excused \/ b
<1>1. w.excused \in BOOLEAN /\ (w.excused \/ b) \in BOOLEAN
  BY DEF Write
<1>2. /\ Excusing(w, b) \in Write
      /\ Excusing(w, b).op = w.op /\ Excusing(w, b).of = w.of
      /\ Excusing(w, b).outcome = w.outcome
      /\ Excusing(w, b).excused = (w.excused \/ b)
  <2> DEFINE v == w.excused \/ b
  <2>1. Excusing(w, b) = [w EXCEPT !.excused = v]
    BY DEF Excusing
  <2>2. v \in BOOLEAN
    BY <1>1
  <2> HIDE DEF v
  <2>3. /\ [w EXCEPT !.excused = v] \in Write
        /\ [w EXCEPT !.excused = v].op = w.op /\ [w EXCEPT !.excused = v].of = w.of
        /\ [w EXCEPT !.excused = v].outcome = w.outcome
        /\ [w EXCEPT !.excused = v].excused = v
    BY <2>2 DEF Write
  <2> QED
    BY <2>1, <2>3 DEF v
<1> QED
  BY <1>2

\* One write is sent, which may replace an upload under way and be replaced.
SubmitStep(op, of, agreed) ==
    /\ Typed /\ stored' = stored /\ reads' = reads
    /\ IsWrite(NewWrite(op, of, agreed))
    /\ writes' = {Excusing(w, Overlap(op)) : w \in writes \cup {NewWrite(op, of, agreed)}}
    /\ panel.open /\ panel'.open = panel.open /\ panel'.dialog = NoDialog
    /\ panel'.list = panel.list /\ panel'.of = panel.of /\ panel'.query = panel.query
    /\ panel'.sequence = panel.sequence + 1
    /\ kind \in Waits =>
          /\ reads = {} /\ writes = {}
          /\ IF kind # "versions" THEN panel'.processing
             ELSE IF op = "load" THEN panel'.loading ELSE panel'.deleting # None
    /\ op = "upload" => agreed \/ ~hasConflictingName(of)
    /\ excuses' = {} => excuses = {}

LEMMA SubmitEffect ==
    ASSUME TypeInv, NEW x \in State, NEW op, NEW of, NEW agreed \in BOOLEAN,
           Submit(x, op, of, agreed), op \in OpsOf[kind],
           IF op = "upload" THEN of \in File ELSE of \in Entry,
           x.r = reads, x.w = writes,
           panel.open, x.p.open = panel.open, x.p.list = panel.list, x.p.of = panel.of,
           x.p.query = panel.query, x.p.sequence = panel.sequence,
           kind \in Waits =>
              /\ reads = {} /\ writes = {}
              /\ IF kind # "versions" THEN x.p.processing
                 ELSE IF op = "load" THEN x.p.loading ELSE x.p.deleting # None,
           op = "upload" => agreed \/ ~hasConflictingName(of)
    PROVE  SubmitStep(op, of, agreed)
<1> DEFINE y == Submitted(x, op, of, agreed)
           new == NewWrite(op, of, agreed)
           o == op = "upload" /\ \E w \in x.w : w.op = "upload"
<1>1. kind \in Kind /\ IsFiniteSet(reads) /\ panel \in PanelState /\ writes \subseteq Write
  BY StateOfPanel
<1>2. op \in {"upload", "delete", "load", "recover", "save"} /\ of \in Entry \cup File
  BY <1>1 DEF OpsOf, Kind
<1>3. new = [id |-> x.p.sequence + 1, op |-> op, of |-> of, outcome |-> "open",
             excused |-> agreed \/ excuses # {} \/ x.r # {}]
  BY DEF NewWrite
<1>4. /\ y \in State
      /\ Steady(x.p, y.p)
      /\ y.p.list = x.p.list /\ y.p.of = x.p.of
      /\ y.p.loading = x.p.loading
      /\ y.p.processing = x.p.processing /\ y.p.deleting = x.p.deleting
      /\ y.p.sequence = x.p.sequence + 1
      /\ y.p.dialog = NoDialog
      /\ y.r = x.r
  <2> HIDE DEF y, new, o
  <2>1. y = Submitted(x, op, of, agreed)
    BY DEF y
  <2> QED
    BY <1>2, <2>1, SubmittedEffect
<1>5. new \in Write /\ y.w = {[w EXCEPT !.excused = @ \/ o] : w \in x.w \cup {new}}
  <2> HIDE DEF y
  <2> QED
    BY <1>2, <1>3, SubmittedWrites DEF y
<1>6. y.w = {Excusing(w, Overlap(op)) : w \in writes \cup {new}}
  BY <1>5 DEF Excusing, Overlap
<1>7. Become(y, {}) /\ sent' \in [{"writes", "others", "failures", "queries"} -> Nat]
      /\ kind' = kind /\ stored' = stored
  <2>1. Become(y, {}) /\ Counted("writes", MaxWrites) /\ kind' = kind /\ stored' = stored
    BY DEF Submit
  <2> QED
    BY <2>1, StateOfPanel DEF Counted
<1>8. IsWrite(new)
  <2> HIDE DEF new
  <2>1. new.op = op /\ new.of = of
    BY DEF new, NewWrite
  <2> QED
    BY <1>5, <2>1 DEF IsWrite
<1> HIDE DEF y, new
<1>9. /\ panel' = y.p /\ reads' = y.r /\ writes' = y.w
      /\ panel' \in PanelState /\ reads' \subseteq Read /\ writes' \subseteq Write
      /\ IsFiniteSet(reads)'
      /\ excuses' \subseteq Excuse
      /\ excuses' = {} => excuses = {}
  BY <1>1, <1>4, <1>7, BecomeEffect
<1>10. Typed /\ stored' = stored /\ reads' = reads
  BY <1>4, <1>7, <1>9, StateOfPanel DEF Typed
<1>11. /\ panel'.open = panel.open /\ panel'.dialog = NoDialog
       /\ panel'.list = panel.list /\ panel'.of = panel.of /\ panel'.query = panel.query
       /\ panel'.sequence = panel.sequence + 1
       /\ panel'.loading = x.p.loading /\ panel'.processing = x.p.processing
       /\ panel'.deleting = x.p.deleting
  BY <1>4, <1>9 DEF Steady
<1>12. writes' = {Excusing(w, Overlap(op)) : w \in writes \cup {NewWrite(op, of, agreed)}}
  BY <1>6, <1>9 DEF new
<1>13. kind \in Waits =>
          /\ reads = {} /\ writes = {}
          /\ IF kind # "versions" THEN panel'.processing
             ELSE IF op = "load" THEN panel'.loading ELSE panel'.deleting # None
  BY <1>11
<1> QED
  BY <1>8, <1>9, <1>10, <1>11, <1>12, <1>13 DEF SubmitStep, new

\* The steps that send a write.
Submitting ==
    \/ /\ On("attachments") /\ panel.selected # None
       /\ ~hasConflictingName(panel.selected) /\ storeAttachment(FALSE)
    \/ ConfirmOverwrite \/ ConfirmRemoval \/ deleteVersion \/ ChangeTrash \/ deleteAccount
    \/ \E e \in Entry : loadVersion(e) \/ saveAccount(e)

\* A dialog is only shown by what is open, and where the page waits only when nothing
\* is under way.
LEMMA DialogShown ==
    ASSUME TypeInv, ControlInv, panel.dialog.op # "none"
    PROVE  /\ panel.open
           /\ kind \in Waits => reads = {} /\ writes = {}
           /\ panel.dialog.op \in DialogsOf[kind]
           /\ panel.dialog.op # "create" => panel.dialog.entry \in Entry
<1>1. panel.dialog # NoDialog
  BY DEF NoDialog
<1>2. panel.open \in BOOLEAN
  BY StateOfPanel DEF PanelState
<1> QED
  BY <1>1, <1>2 DEF TypeInv, IsDialog, ControlInv, ClosedInv, OneRequest

LEMMA SubmittingStep ==
    ASSUME TypeInv, ControlInv, Submitting
    PROVE  \E op \in {"upload", "delete", "load", "recover", "save"}, of \in Entry \cup File,
              agreed \in BOOLEAN : SubmitStep(op, of, agreed)
<1>1. /\ x0 \in State /\ x0.p = panel /\ x0.r = reads /\ x0.w = writes /\ kind \in Kind
      /\ panel \in PanelState
  BY StateOfPanel
<1>2. /\ panel.selected \in File \cup {None} /\ panel.open \in BOOLEAN
      /\ None \notin Entry
  BY <1>1, PanelsAssumption DEF PanelState
<1>3. ASSUME NEW agreed \in BOOLEAN, kind = "attachments", panel.open, panel.selected # None,
             agreed \/ ~hasConflictingName(panel.selected), storeAttachment(agreed)
      PROVE  SubmitStep("upload", panel.selected, agreed)
  <2> DEFINE x == [x0 EXCEPT !.p.uploading = TRUE]
  <2>1. /\ x \in State /\ x.r = reads /\ x.w = writes
        /\ x.p.open = panel.open /\ x.p.list = panel.list /\ x.p.of = panel.of
        /\ x.p.query = panel.query /\ x.p.sequence = panel.sequence
    BY <1>1 DEF State, PanelState
  <2>2. Submit(x, "upload", panel.selected, agreed)
    BY <1>3 DEF storeAttachment
  <2>3. "upload" \in OpsOf[kind] /\ kind \notin Waits /\ panel.selected \in File
    BY <1>2, <1>3 DEF OpsOf, Waits
  <2> HIDE DEF x
  <2> QED
    BY <1>3, <2>1, <2>2, <2>3, SubmitEffect
<1>4. CASE On("attachments") /\ panel.selected # None
           /\ ~hasConflictingName(panel.selected) /\ storeAttachment(FALSE)
  <2>1. panel.open /\ kind = "attachments"
    BY <1>4 DEF On
  <2> QED
    BY <1>2, <1>3, <1>4, <2>1
<1>5. CASE ConfirmOverwrite
  <2>1. panel.dialog.op = "overwrite" /\ panel.selected # None /\ storeAttachment(TRUE)
    BY <1>5 DEF ConfirmOverwrite
  <2>2. panel.open /\ kind = "attachments"
    BY <1>1, <2>1, DialogShown DEF DialogsOf, Kind
  <2> QED
    BY <1>2, <1>3, <2>1, <2>2
<1>6. ASSUME NEW e \in Entry, kind \in {"attachments", "versions"}, panel.open,
             kind = "versions" => reads = {} /\ writes = {},
             Submit([x0 EXCEPT !.p.deleting = e], "delete", e, FALSE)
      PROVE  SubmitStep("delete", e, FALSE)
  <2> DEFINE x == [x0 EXCEPT !.p.deleting = e]
  <2>1. /\ x \in State /\ x.r = reads /\ x.w = writes
        /\ x.p.open = panel.open /\ x.p.list = panel.list /\ x.p.of = panel.of
        /\ x.p.query = panel.query /\ x.p.sequence = panel.sequence
        /\ x.p.deleting # None
    BY <1>1, <1>2 DEF State, PanelState
  <2>2. Submit(x, "delete", e, FALSE)
    BY <1>6
  <2>3. "delete" \in OpsOf[kind] /\ (kind \in Waits => kind = "versions")
    BY <1>6 DEF OpsOf, Waits
  <2> HIDE DEF x
  <2> QED
    BY <1>6, <2>1, <2>2, <2>3, SubmitEffect
<1>7. CASE ConfirmRemoval
  <2>1. /\ kind = "attachments" /\ panel.dialog.op = "delete"
        /\ Submit([x0 EXCEPT !.p.deleting = panel.dialog.entry], "delete",
                  panel.dialog.entry, FALSE)
    BY <1>7 DEF ConfirmRemoval
  <2>2. panel.open /\ panel.dialog.entry \in Entry
    BY <2>1, DialogShown
  <2> QED
    BY <1>6, <2>1, <2>2
<1>8. CASE deleteVersion
  <2>1. /\ kind = "versions" /\ panel.dialog.op = "delete"
        /\ Submit([x0 EXCEPT !.p.deleting = panel.dialog.entry], "delete",
                  panel.dialog.entry, FALSE)
    BY <1>8 DEF deleteVersion
  <2>2. panel.open /\ panel.dialog.entry \in Entry /\ reads = {} /\ writes = {}
    BY <2>1, DialogShown DEF Waits
  <2> QED
    BY <1>6, <2>1, <2>2
<1>9. ASSUME NEW op \in {"recover", "save", "delete"}, NEW e \in Entry,
             kind \in {"trash", "accounts"}, op \in OpsOf[kind], panel.open,
             reads = {}, writes = {},
             Submit([x0 EXCEPT !.p.processing = TRUE], op, e, FALSE)
      PROVE  SubmitStep(op, e, FALSE)
  <2> DEFINE x == [x0 EXCEPT !.p.processing = TRUE]
  <2>1. /\ x \in State /\ x.r = reads /\ x.w = writes
        /\ x.p.open = panel.open /\ x.p.list = panel.list /\ x.p.of = panel.of
        /\ x.p.query = panel.query /\ x.p.sequence = panel.sequence
        /\ x.p.processing = TRUE
    BY <1>1, <1>2 DEF State, PanelState
  <2>2. Submit(x, op, e, FALSE)
    BY <1>9
  <2>3. op # "upload" /\ kind # "versions"
    BY <1>9
  <2> HIDE DEF x
  <2> QED
    BY <1>9, <2>1, <2>2, <2>3, SubmitEffect
<1>10. CASE ChangeTrash
  <2>1. /\ kind = "trash" /\ panel.dialog # NoDialog
        /\ Submit([x0 EXCEPT !.p.processing = TRUE], panel.dialog.op, panel.dialog.entry, FALSE)
    BY <1>10 DEF ChangeTrash
  <2>2. panel.dialog.op # "none"
    BY <2>1 DEF TypeInv, IsDialog, DialogsOf
  <2>3. /\ panel.open /\ panel.dialog.op \in {"recover", "delete"} /\ panel.dialog.entry \in Entry
        /\ reads = {} /\ writes = {}
    BY <2>1, <2>2, DialogShown DEF Waits, DialogsOf
  <2>4. panel.dialog.op \in OpsOf[kind]
    BY <2>1, <2>3 DEF OpsOf
  <2> QED
    BY <1>9, <2>1, <2>3, <2>4
<1>11. CASE deleteAccount
  <2>1. /\ kind = "accounts" /\ panel.dialog.op = "edit"
        /\ Submit([x0 EXCEPT !.p.processing = TRUE], "delete", panel.dialog.entry, FALSE)
    BY <1>11 DEF deleteAccount
  <2>2. panel.open /\ panel.dialog.entry \in Entry /\ reads = {} /\ writes = {}
    BY <2>1, DialogShown DEF Waits
  <2>3. "delete" \in OpsOf[kind]
    BY <2>1 DEF OpsOf
  <2> QED
    BY <1>9, <2>1, <2>2, <2>3
<1>12. ASSUME NEW e \in Entry, saveAccount(e)
       PROVE  SubmitStep("save", e, FALSE)
  <2>1. /\ kind = "accounts"
        /\ panel.dialog.op = "create" \/ panel.dialog = [op |-> "edit", entry |-> e]
        /\ Submit([x0 EXCEPT !.p.processing = TRUE], "save", e, FALSE)
    BY <1>12 DEF saveAccount
  <2>4. panel.dialog.op # "none"
    BY ONLY <2>1
  <2>2. panel.open /\ reads = {} /\ writes = {}
    BY <2>1, <2>4, DialogShown DEF Waits
  <2>3. "save" \in OpsOf[kind]
    BY <2>1 DEF OpsOf
  <2> QED
    BY <1>9, <2>1, <2>2, <2>3
<1>13. ASSUME NEW e \in Entry, loadVersion(e)
       PROVE  SubmitStep("load", e, FALSE)
  <2> DEFINE x == [x0 EXCEPT !.p.loading = TRUE]
  <2>1. /\ x \in State /\ x.r = reads /\ x.w = writes
        /\ x.p.open = panel.open /\ x.p.list = panel.list /\ x.p.of = panel.of
        /\ x.p.query = panel.query /\ x.p.sequence = panel.sequence
        /\ x.p.loading = TRUE
    BY <1>1 DEF State, PanelState
  <2>2. /\ Submit(x, "load", e, FALSE)
        /\ kind = "versions" /\ panel.open /\ ~panel.loading /\ panel.deleting = None
    BY <1>13 DEF loadVersion, VersionsIdle, On
  <2>3. "load" \in OpsOf[kind]
    BY <2>2 DEF OpsOf
  <2>4. reads = {} /\ writes = {}
    BY <2>2 DEF ControlInv, OneRequest, Flagged, Waits
  <2> HIDE DEF x
  <2> QED
    BY <2>1, <2>2, <2>3, <2>4, SubmitEffect
<1> QED
  BY <1>2, <1>4, <1>5, <1>7, <1>8, <1>10, <1>11, <1>12, <1>13 DEF Submitting

----------------------------------------------------------------------------
\* A dialog is closed.
CloseStep ==
    /\ Typed /\ stored' = stored /\ writes' = writes /\ reads' = {}
    /\ kind \in {"attachments", "versions"}
    /\ kind = "versions" => writes = {}
    /\ panel'.open = FALSE /\ panel.dialog = NoDialog /\ panel'.dialog = NoDialog
    /\ panel'.list = panel.list /\ panel'.of = panel.of /\ panel'.query = panel.query
    /\ panel'.sequence = panel.sequence
    /\ excuses' = {} => excuses = {} /\ reads = {} /\ writes = {}

LEMMA ClosingStep ==
    ASSUME TypeInv, ControlInv, CloseAttachments \/ CloseVersions
    PROVE  CloseStep
<1>1. /\ x0 \in State /\ x0.p = panel /\ x0.r = reads /\ x0.w = writes
  BY StateOfPanel
<1>2. /\ panel.dialog = NoDialog /\ Do(Closed(x0), Left(x0))
      /\ kind \in {"attachments", "versions"}
  BY DEF CloseAttachments, CloseVersions, VersionsIdle, On
<1>3. kind = "versions" => reads = {} /\ writes = {}
  BY DEF CloseVersions, VersionsIdle, ControlInv, OneRequest, Flagged, Waits, CloseAttachments, On
<1>4. Left(x0) \in SUBSET Excuse /\ (Left(x0) = {} => reads = {} /\ writes = {})
  BY <1>1 DEF Left, Excuse
<1>5. /\ Closed(x0) \in State
      /\ Closed(x0).p.query = panel.query /\ Closed(x0).p.list = panel.list
      /\ Closed(x0).p.of = panel.of /\ Closed(x0).p.dialog = panel.dialog
      /\ Closed(x0).p.sequence = panel.sequence
      /\ Closed(x0).p.open = FALSE
      /\ Closed(x0).w = writes /\ Closed(x0).r = {}
  BY <1>1, ClosedEffect
<1>6. IsFiniteSet(Closed(x0).r)
  BY <1>5, FS_EmptySet
<1>7. /\ Typed /\ stored' = stored
      /\ panel' = Closed(x0).p /\ reads' = Closed(x0).r /\ writes' = Closed(x0).w
      /\ excuses' = {} => excuses = {} /\ Left(x0) = {}
  BY <1>2, <1>4, <1>5, <1>6, DoEffect
<1> QED
  BY <1>2, <1>3, <1>4, <1>5, <1>7 DEF CloseStep

\* A list arrives, or is lost.
ListStep(r, found) ==
    /\ Typed /\ stored' = stored /\ writes' = writes /\ reads' = reads \ {r}
    /\ panel'.open = panel.open /\ panel'.query = panel.query
    /\ panel'.dialog = panel.dialog /\ panel'.sequence = panel.sequence
    /\ panel'.processing = panel.processing /\ panel'.deleting = panel.deleting
    /\ Awaited(r) => panel'.list = found
    /\ ~Awaited(r) => panel'.list = panel.list /\ panel'.of = panel.of
    /\ Queried /\ Awaited(r) => panel'.of = r.of
    /\ excuses' = {} => excuses = {}

LEMMA FewerReads ==
    ASSUME TypeInv, NEW r \in reads
    PROVE  /\ [x0 EXCEPT !.r = @ \ {r}] \in State
           /\ [x0 EXCEPT !.r = @ \ {r}].p = panel
           /\ [x0 EXCEPT !.r = @ \ {r}].r = reads \ {r}
           /\ [x0 EXCEPT !.r = @ \ {r}].w = writes
           /\ IsFiniteSet(reads \ {r})
<1>1. /\ x0 \in State /\ x0.p = panel /\ x0.r = reads /\ x0.w = writes
      /\ IsFiniteSet(reads)
  BY StateOfPanel
<1>2. IsFiniteSet(reads \ {r})
  BY <1>1, FS_RemoveElement
<1> QED
  BY <1>1, <1>2 DEF State

LEMMA AnswerReadStep ==
    ASSUME TypeInv, NEW r \in reads, AnswerRead(r)
    PROVE  r.served /\ ListStep(r, r.found)
<1> DEFINE x == [x0 EXCEPT !.r = @ \ {r}]
           y == Listed(x, r)
<1>1. /\ x \in State /\ x.p = panel /\ x.r = reads \ {r} /\ x.w = writes
      /\ IsFiniteSet(reads \ {r})
  BY FewerReads
<1>2. r.served /\ Do(y, {})
  BY DEF AnswerRead
<1>3. r \in Read /\ kind \in Kind
  BY StateOfPanel
<1> HIDE DEF x
<1>4. /\ y \in State
      /\ Steady(panel, y.p)
      /\ y.p.processing = panel.processing
      /\ y.p.deleting = panel.deleting /\ y.p.dialog = panel.dialog
      /\ y.p.sequence = panel.sequence
      /\ Awaited(r) => y.p.list = r.found
      /\ ~Awaited(r) => y.p.list = panel.list /\ y.p.of = panel.of
      /\ Queried /\ Awaited(r) => y.p.of = r.of
      /\ y.r = x.r /\ y.w = x.w
  BY <1>1, <1>3, ListedEffect DEF Awaited
<1> HIDE DEF y
<1>5. /\ Typed /\ stored' = stored
      /\ panel' = y.p /\ reads' = y.r /\ writes' = y.w
      /\ excuses' = {} => excuses = {}
  BY <1>1, <1>2, <1>4, DoEffect
<1> QED
  BY <1>1, <1>2, <1>4, <1>5 DEF ListStep, Steady

LEMMA LoseReadStep ==
    ASSUME TypeInv, NEW r \in reads, LoseRead(r)
    PROVE  /\ excuses' # {}
           /\ \E found \in SUBSET Entry : ListStep(r, found) /\ (Queried => found = {})
<1> DEFINE x == [x0 EXCEPT !.r = @ \ {r}]
           found == IF kind \in {"attachments", "versions"} THEN x.p.list ELSE {}
           q == [r EXCEPT !.found = found]
           y == Listed(x, q)
<1>1. /\ x \in State /\ x.p = panel /\ x.r = reads \ {r} /\ x.w = writes
      /\ IsFiniteSet(reads \ {r})
  BY FewerReads
<1>2. /\ Become(y, {"failure"}) /\ Counted("failures", MaxFailures)
      /\ kind' = kind /\ stored' = stored
  BY DEF LoseRead, Unlisted
<1>3. r \in Read /\ kind \in Kind /\ panel \in PanelState /\ stored \subseteq Entry
  BY StateOfPanel
<1> HIDE DEF x
<1>4. found \in SUBSET Entry /\ (Queried => found = {})
  BY <1>1, <1>3 DEF PanelState, Queried
<1> HIDE DEF found
<1>5. q \in Read /\ q.id = r.id /\ q.of = r.of /\ q.found = found
  BY <1>3, <1>4 DEF Read
<1> HIDE DEF q
<1>6. /\ y \in State
      /\ Steady(panel, y.p)
      /\ y.p.processing = panel.processing
      /\ y.p.deleting = panel.deleting /\ y.p.dialog = panel.dialog
      /\ y.p.sequence = panel.sequence
      /\ Awaited(r) => y.p.list = found
      /\ ~Awaited(r) => y.p.list = panel.list /\ y.p.of = panel.of
      /\ Queried /\ Awaited(r) => y.p.of = r.of
      /\ y.r = x.r /\ y.w = x.w
  BY <1>1, <1>3, <1>5, ListedEffect DEF Awaited
<1> HIDE DEF y
<1>7. {"failure"} \in SUBSET Excuse
  BY DEF Excuse
<1>8. /\ panel' = y.p /\ reads' = y.r /\ writes' = y.w
      /\ panel' \in PanelState /\ reads' \subseteq Read /\ writes' \subseteq Write
      /\ IsFiniteSet(reads)'
      /\ excuses' \subseteq Excuse
      /\ excuses' = {} => excuses = {} /\ {"failure"} = {}
  BY <1>1, <1>2, <1>6, <1>7, BecomeEffect
<1>9. Typed
  BY <1>2, <1>3, <1>8, StateOfPanel DEF Typed, Counted
<1>10. ListStep(r, found)
  BY <1>1, <1>2, <1>6, <1>8, <1>9 DEF ListStep, Steady
<1> QED
  BY <1>4, <1>8, <1>10

----------------------------------------------------------------------------
\* A request for the list is sent.
NewRead(of) == [id |-> panel.sequence + 1, of |-> of, served |-> FALSE, found |-> {}]

\* A write is answered, or its answer is lost.
AnswerStep(w, ok) ==
    /\ Typed /\ stored' = stored /\ writes' = writes \ {w}
    /\ panel'.list = panel.list /\ panel'.of = panel.of /\ panel'.query = panel.query
    /\ panel'.dialog = panel.dialog
    /\ ~panel.open => /\ panel'.open = panel.open /\ reads' = reads
                      /\ panel'.sequence = panel.sequence
    /\ panel.open /\ Asks(w, ok) =>
          /\ panel'.open = panel.open
          /\ reads' = reads \cup {NewRead(panel.query)}
          /\ panel'.sequence = panel.sequence + 1 /\ panel'.loading = TRUE
    /\ panel.open /\ ~Asks(w, ok) => panel'.sequence = panel.sequence
    /\ panel.open /\ Closes(w, ok) => panel'.open = FALSE /\ reads' = {}
    /\ panel.open /\ ~Asks(w, ok) /\ ~Closes(w, ok) => panel'.open = panel.open /\ reads' = reads
    /\ excuses' = {} =>
          /\ excuses = {}
          /\ kind = "attachments" => \A a, b \in reads' : a = b

LEMMA FewerWrites ==
    ASSUME TypeInv, NEW w \in writes
    PROVE  /\ [x0 EXCEPT !.w = @ \ {w}] \in State
           /\ [x0 EXCEPT !.w = @ \ {w}].p = panel
           /\ [x0 EXCEPT !.w = @ \ {w}].r = reads
           /\ [x0 EXCEPT !.w = @ \ {w}].w = writes \ {w}
<1>1. /\ x0 \in State /\ x0.p = panel /\ x0.r = reads /\ x0.w = writes
  BY StateOfPanel
<1> QED
  BY <1>1 DEF State

\* What becomes of the panel, whatever else the answer excuses.
LEMMA AnswerEffect ==
    ASSUME TypeInv, NEW w \in writes, NEW ok \in BOOLEAN, NEW causes \in SUBSET Excuse, NEW y,
           y = IF panel.open THEN Answered([x0 EXCEPT !.w = @ \ {w}], w, ok)
               ELSE [x0 EXCEPT !.w = @ \ {w}],
           Become(y, causes), kind' = kind, stored' = stored,
           sent' \in [{"writes", "others", "failures", "queries"} -> Nat]
    PROVE  /\ AnswerStep(w, ok)
           /\ excuses' = {} => causes = {}
<1> DEFINE x == [x0 EXCEPT !.w = @ \ {w}]
<1>1. /\ x \in State /\ x.p = panel /\ x.r = reads /\ x.w = writes \ {w}
  BY FewerWrites
<1>2. /\ IsWrite(w) /\ kind \in Kind /\ IsFiniteSet(reads) /\ stored \subseteq Entry
      /\ panel.open \in BOOLEAN
  BY StateOfPanel DEF TypeInv, PanelState
<1>3. y = IF panel.open THEN Answered(x, w, ok) ELSE x
  OBVIOUS
<1> HIDE DEF x
<1>4. ~(Asks(w, ok) /\ Closes(w, ok))
  BY DEF Asks, Closes
<1> DEFINE z == Answered(x, w, ok)
<1>14. AnsweredTo(x, w, ok, z)
  BY <1>1, <1>2, AnsweredEffect
<1>15. y = IF panel.open THEN z ELSE x
  BY <1>3
<1> HIDE DEF z
<1>5. /\ y \in State
      /\ y.p.list = panel.list /\ y.p.of = panel.of /\ y.p.query = panel.query
      /\ y.p.dialog = panel.dialog /\ y.w = writes \ {w}
  BY <1>1, <1>14, <1>15 DEF AnsweredTo
<1>6. ~panel.open => y.p.open = panel.open /\ y.r = reads /\ y.p.sequence = panel.sequence
  BY <1>1, <1>3
<1>7. panel.open /\ Asks(w, ok) =>
         /\ y.p.open = panel.open
         /\ y.r = reads \cup {NewRead(panel.query)}
         /\ y.p.sequence = panel.sequence + 1 /\ y.p.loading = TRUE
  BY <1>1, <1>4, <1>14, <1>15 DEF AnsweredTo, NewRead
<1>8. panel.open /\ ~Asks(w, ok) => y.p.sequence = panel.sequence
  BY <1>1, <1>14, <1>15 DEF AnsweredTo
<1>9. panel.open /\ Closes(w, ok) => y.p.open = FALSE /\ y.r = {}
  BY <1>1, <1>14, <1>15 DEF AnsweredTo
<1>10. panel.open /\ ~Asks(w, ok) /\ ~Closes(w, ok) => y.p.open = panel.open /\ y.r = reads
  BY <1>1, <1>14, <1>15 DEF AnsweredTo
<1>11. IsFiniteSet(y.r)
  <2>1. IsFiniteSet(reads \cup {NewRead(panel.query)})
    BY <1>2, FS_AddElement
  <2> QED
    BY <1>2, <1>6, <1>7, <1>9, <1>10, <2>1, FS_EmptySet
<1>12. /\ panel' = y.p /\ reads' = y.r /\ writes' = y.w
       /\ panel' \in PanelState /\ reads' \subseteq Read /\ writes' \subseteq Write
       /\ IsFiniteSet(reads)'
       /\ excuses' \subseteq Excuse
       /\ excuses' = {} =>
             /\ excuses = {} /\ causes = {}
             /\ kind = "attachments" => \A a, b \in reads' : a = b
  BY <1>5, <1>11, BecomeEffect
<1>13. Typed
  BY <1>2, <1>12 DEF Typed
<1> QED
  BY <1>5, <1>6, <1>7, <1>8, <1>9, <1>10, <1>12, <1>13 DEF AnswerStep

LEMMA AnswerWriteStep ==
    ASSUME TypeInv, NEW w \in writes, AnswerWrite(w)
    PROVE  \E ok \in BOOLEAN :
              AnswerStep(w, ok) /\ (ok <=> w.outcome = "done") /\ w.outcome # "open"
<1> DEFINE ok == w.outcome = "done"
           x == [x0 EXCEPT !.w = @ \ {w}]
<1>1. w.outcome # "open" /\ Do(IF panel.open THEN Answered(x, w, ok) ELSE x, {})
  BY DEF AnswerWrite
<1>2. /\ Become(IF panel.open THEN Answered(x, w, ok) ELSE x, {})
      /\ kind' = kind /\ stored' = stored /\ sent' = sent
  BY <1>1 DEF Do
<1>3. sent \in [{"writes", "others", "failures", "queries"} -> Nat]
  BY StateOfPanel
<1>4. ok \in BOOLEAN
  OBVIOUS
<1> HIDE DEF ok
<1>5. AnswerStep(w, ok)
  BY <1>2, <1>3, <1>4, AnswerEffect
<1> QED
  BY <1>1, <1>4, <1>5 DEF ok

LEMMA LoseWriteStep ==
    ASSUME TypeInv, NEW w \in writes, LoseWrite(w)
    PROVE  /\ AnswerStep(w, FALSE)
           /\ kind # "versions" => excuses' # {}
<1> DEFINE x == [x0 EXCEPT !.w = @ \ {w}]
           causes == IF kind = "versions" THEN {} ELSE {"failure"}
<1>1. /\ Become(IF panel.open THEN Answered(x, w, FALSE) ELSE x, causes)
      /\ kind' = kind /\ stored' = stored /\ Counted("failures", MaxFailures)
  BY DEF LoseWrite
<1>2. sent' \in [{"writes", "others", "failures", "queries"} -> Nat]
  BY <1>1, StateOfPanel DEF Counted
<1>3. causes \in SUBSET Excuse /\ (kind # "versions" => causes # {})
  BY DEF Excuse
<1> HIDE DEF causes
<1> QED
  BY <1>1, <1>2, <1>3, AnswerEffect

\* Something else is searched for, or the sidebar is shown with another document.
QueryStep(q) ==
    /\ Typed /\ stored' = stored /\ writes' = writes
    /\ panel.open /\ panel.dialog = NoDialog
    /\ panel'.open = panel.open /\ panel'.dialog = panel.dialog
    /\ panel'.query = q
    /\ \/ /\ kind = "search" /\ panel'.list = {} /\ panel'.sequence = panel.sequence + 1
          /\ IF q = None THEN reads' = reads ELSE reads' = reads \cup {NewRead(q)}
       \/ /\ kind = "sidebar" /\ panel'.list = panel.list /\ panel'.of = panel.of
          /\ IF q = None THEN reads' = {} /\ panel'.sequence = panel.sequence
             ELSE reads' = {NewRead(q)} /\ panel'.sequence = panel.sequence + 1
    /\ excuses' = {} => excuses = {}

LEMMA SearchStep ==
    ASSUME TypeInv, NEW q \in Query \cup {None}, Search(q)
    PROVE  QueryStep(q)
<1> DEFINE y == Searched(x0, q)
<1>1. /\ x0 \in State /\ x0.p = panel /\ x0.r = reads /\ x0.w = writes
      /\ IsFiniteSet(reads) /\ stored \subseteq Entry
  BY StateOfPanel
<1>2. /\ kind = "search" /\ panel.open /\ panel.dialog = NoDialog
      /\ Become(y, {}) /\ Counted("queries", MaxQueries) /\ kind' = kind /\ stored' = stored
  BY DEF Search, On
<1>3. /\ y \in State
      /\ y.p.open = panel.open /\ y.p.dialog = panel.dialog
      /\ y.p.query = q /\ y.p.list = {}
      /\ y.p.sequence = panel.sequence + 1
      /\ y.w = writes
      /\ q = None => y.r = reads
      /\ q # None => y.r = reads \cup {NewRead(q)}
  BY <1>1, SearchedEffect DEF NewRead
<1> HIDE DEF y
<1>4. IsFiniteSet(y.r)
  BY <1>1, <1>3, FS_AddElement
<1>5. /\ panel' = y.p /\ reads' = y.r /\ writes' = y.w
      /\ panel' \in PanelState /\ reads' \subseteq Read /\ writes' \subseteq Write
      /\ IsFiniteSet(reads)'
      /\ excuses' \subseteq Excuse
      /\ excuses' = {} => excuses = {}
  BY <1>2, <1>3, <1>4, BecomeEffect
<1>6. sent' \in [{"writes", "others", "failures", "queries"} -> Nat]
  BY <1>2, StateOfPanel DEF Counted
<1>7. Typed
  BY <1>1, <1>2, <1>5, <1>6 DEF Typed
<1> QED
  BY <1>2, <1>3, <1>5, <1>7 DEF QueryStep

LEMMA ShowDocumentStep ==
    ASSUME TypeInv, NEW q \in Query \cup {None}, ShowDocument(q)
    PROVE  QueryStep(q)
<1> DEFINE y == Siblings(x0, q)
<1>1. /\ x0 \in State /\ x0.p = panel /\ x0.r = reads /\ x0.w = writes
      /\ IsFiniteSet(reads) /\ stored \subseteq Entry
  BY StateOfPanel
<1>2. /\ kind = "sidebar" /\ panel.open /\ panel.dialog = NoDialog
      /\ Become(y, {}) /\ Counted("queries", MaxQueries) /\ kind' = kind /\ stored' = stored
  BY DEF ShowDocument, On
<1>3. /\ y \in State
      /\ y.p.open = panel.open /\ y.p.dialog = panel.dialog
      /\ y.p.query = q /\ y.p.list = panel.list /\ y.p.of = panel.of
      /\ y.w = writes
      /\ q = None => y.r = {} /\ y.p.sequence = panel.sequence
      /\ q # None => y.r = {NewRead(q)} /\ y.p.sequence = panel.sequence + 1
  BY <1>1, SiblingsEffect DEF NewRead
<1> HIDE DEF y
<1>4. IsFiniteSet(y.r)
  <2>1. IsFiniteSet({NewRead(q)}) /\ IsFiniteSet({})
    BY FS_EmptySet, FS_Singleton
  <2> QED
    BY <1>3, <2>1
<1>5. /\ panel' = y.p /\ reads' = y.r /\ writes' = y.w
      /\ panel' \in PanelState /\ reads' \subseteq Read /\ writes' \subseteq Write
      /\ IsFiniteSet(reads)'
      /\ excuses' \subseteq Excuse
      /\ excuses' = {} => excuses = {}
  BY <1>2, <1>3, <1>4, BecomeEffect
<1>6. sent' \in [{"writes", "others", "failures", "queries"} -> Nat]
  BY <1>2, StateOfPanel DEF Counted
<1>7. Typed
  BY <1>1, <1>2, <1>5, <1>6 DEF Typed
<1> QED
  BY <1>2, <1>3, <1>5, <1>7 DEF QueryStep

----------------------------------------------------------------------------
\* The backend answers a request for the list.  What it answers while nothing else is
\* under way settles what there was to excuse.
Served(r) == [r EXCEPT !.served = TRUE, !.found = stored]

ServeReadStep(r) ==
    /\ Typed /\ stored' = stored /\ writes' = writes /\ panel' = panel
    /\ reads' = (reads \ {r}) \cup {Served(r)}
    /\ Served(r).served = TRUE /\ Served(r).found = stored
    /\ Served(r).id = r.id /\ Served(r).of = r.of
    /\ excuses' = {} => excuses = {} \/ (reads = {r} /\ writes = {} /\ Awaited(r))

LEMMA ServeReadEffect ==
    ASSUME TypeInv, NEW r \in reads, ServeRead(r)
    PROVE  ServeReadStep(r)
<1>1. r \in Read /\ stored \subseteq Entry /\ IsFiniteSet(reads) /\ reads \subseteq Read
  BY StateOfPanel
<1>2. /\ Served(r) \in Read /\ Served(r).served = TRUE /\ Served(r).found = stored
      /\ Served(r).id = r.id /\ Served(r).of = r.of
  BY <1>1 DEF Served, Read
<1> DEFINE settled == reads = {r} /\ writes = {} /\ (kind = "search" => r.id = panel.sequence)
<1>3. /\ reads' = (reads \ {r}) \cup {Served(r)}
      /\ excuses' = IF settled THEN {} ELSE excuses
      /\ kind' = kind /\ stored' = stored /\ panel' = panel /\ writes' = writes /\ sent' = sent
  BY DEF ServeRead, Served
<1>7. settled => reads = {r} /\ writes = {} /\ Awaited(r)
  BY DEF Awaited
<1> HIDE DEF settled
<1>4. IsFiniteSet((reads \ {r}) \cup {Served(r)})
  BY <1>1, FS_RemoveElement, FS_AddElement
<1>5. Typed
  BY <1>1, <1>2, <1>3, <1>4, StateOfPanel DEF Typed
<1>6. excuses' = {} => excuses = {} \/ (reads = {r} /\ writes = {} /\ Awaited(r))
  BY <1>3, <1>7
<1> QED
  BY <1>2, <1>3, <1>5, <1>6 DEF ServeReadStep

\* It carries out a write, or refuses it.
Decided(w, outcome) == [w EXCEPT !.outcome = outcome]

ServeWriteStep(w, outcome) ==
    LET v == Decided(w, outcome) IN
    /\ Typed /\ reads' = reads /\ panel' = panel /\ excuses' = excuses
    /\ w.outcome = "open"
    /\ writes' = (writes \ {w}) \cup {v}
    /\ v.op = w.op /\ v.of = w.of /\ v.outcome = outcome /\ v.excused = w.excused
    /\ outcome = "refused" \/ w.op = "load" => stored' = stored
    /\ w.op = "upload" => stored' \subseteq stored \cup {StoredAs[w.of]}
    /\ w.op \notin {"upload", "save"} => stored' \subseteq stored

LEMMA ServeWriteEffect ==
    ASSUME TypeInv, NEW w \in writes, ServeWrite(w)
    PROVE  \E outcome \in {"done", "refused"} : ServeWriteStep(w, outcome)
<1> DEFINE entry == IF w.op = "upload" THEN StoredAs[w.of] ELSE w.of
           missing == w.op \notin {"upload", "save"} /\ entry \notin stored
<1>1. /\ w \in Write /\ IsWrite(w) /\ stored \subseteq Entry /\ writes \subseteq Write
      /\ kind \in Kind
  BY StateOfPanel DEF TypeInv
<1>2. entry \in Entry
  BY <1>1, PanelsAssumption DEF IsWrite
<1>3. w.op \in {"upload", "delete", "load", "recover", "save"}
  BY <1>1 DEF Write
<1>4. ASSUME NEW outcome \in {"done", "refused"}
      PROVE  /\ Decided(w, outcome) \in Write
             /\ Decided(w, outcome).op = w.op /\ Decided(w, outcome).of = w.of
             /\ Decided(w, outcome).outcome = outcome
             /\ Decided(w, outcome).excused = w.excused
  BY <1>1 DEF Decided, Write
<1>5. /\ w.outcome = "open"
      /\ kind' = kind /\ reads' = reads /\ panel' = panel /\ sent' = sent /\ excuses' = excuses
      /\ \/ /\ stored' = CASE w.op \in {"upload", "save"}    -> stored \cup {entry}
                           [] w.op \in {"delete", "recover"} -> stored \ {entry}
                           [] OTHER                          -> stored
            /\ writes' = (writes \ {w}) \cup {Decided(w, "done")}
         \/ /\ stored' = stored
            /\ writes' = (writes \ {w}) \cup {Decided(w, "refused")}
  BY DEF ServeWrite, Decided
<1>6. PICK outcome \in {"done", "refused"} :
         /\ writes' = (writes \ {w}) \cup {Decided(w, outcome)}
         /\ outcome = "refused" => stored' = stored
         /\ outcome = "done" => stored' = CASE w.op \in {"upload", "save"}    -> stored \cup {entry}
                                            [] w.op \in {"delete", "recover"} -> stored \ {entry}
                                            [] OTHER                          -> stored
  BY <1>5
<1> HIDE DEF entry
<1>7. /\ stored' \subseteq Entry
      /\ outcome = "refused" \/ w.op = "load" => stored' = stored
      /\ w.op = "upload" => stored' \subseteq stored \cup {entry}
      /\ w.op \notin {"upload", "save"} => stored' \subseteq stored
  BY <1>1, <1>2, <1>3, <1>6
<1>8. Typed
  BY <1>1, <1>4, <1>5, <1>6, <1>7, StateOfPanel DEF Typed
<1> QED
  BY <1>4, <1>5, <1>6, <1>7, <1>8 DEF ServeWriteStep, entry

\* Others change what the backend holds.
OthersStep ==
    /\ Typed /\ reads' = reads /\ panel' = panel
    /\ writes' = {Excusing(w, TRUE) : w \in writes}
    /\ excuses' # {}

LEMMA OthersEffect ==
    ASSUME TypeInv, NEW e \in Entry, Others(e)
    PROVE  OthersStep
<1>1. /\ writes \subseteq Write /\ stored \subseteq Entry /\ excuses \subseteq Excuse
  BY StateOfPanel
<1>2. /\ stored' = IF e \in stored THEN stored \ {e} ELSE stored \cup {e}
      /\ writes' = {[w EXCEPT !.excused = TRUE] : w \in writes}
      /\ excuses' = excuses \cup {"others"}
      /\ kind' = kind /\ panel' = panel /\ reads' = reads /\ Counted("others", MaxOthers)
  BY DEF Others
<1>3. ASSUME NEW w \in Write
      PROVE  [w EXCEPT !.excused = TRUE] = Excusing(w, TRUE)
  BY DEF Excusing
<1>4. writes' = {Excusing(w, TRUE) : w \in writes}
  BY <1>1, <1>2, <1>3
<1>5. writes' \subseteq Write
  BY <1>1, <1>4, ExcusingEffect
<1>6. sent' \in [{"writes", "others", "failures", "queries"} -> Nat]
  BY <1>2, StateOfPanel DEF Counted
<1>7. Typed
  BY <1>1, <1>2, <1>5, <1>6, StateOfPanel DEF Typed, Excuse
<1> QED
  BY <1>2, <1>4, <1>7 DEF OthersStep

\* What a step does.
LEMMA Steps ==
    ASSUME TypeInv, ControlInv, Next
    PROVE  \/ PanelStep \/ CloseStep \/ OthersStep
           \/ \E op \in {"upload", "delete", "load", "recover", "save"}, of \in Entry \cup File,
                 agreed \in BOOLEAN : SubmitStep(op, of, agreed)
           \/ \E q \in Query \cup {None} : QueryStep(q)
           \/ \E r \in reads :
                 \/ ServeReadStep(r)
                 \/ r.served /\ ListStep(r, r.found)
                 \/ /\ excuses' # {}
                    /\ \E found \in SUBSET Entry : ListStep(r, found) /\ (Queried => found = {})
           \/ \E w \in writes :
                 \/ \E outcome \in {"done", "refused"} : ServeWriteStep(w, outcome)
                 \/ \E ok \in BOOLEAN :
                       /\ AnswerStep(w, ok)
                       /\ \/ (ok <=> w.outcome = "done") /\ w.outcome # "open"
                          \/ ~ok /\ (kind # "versions" => excuses' # {})
<1>1. ASSUME NEW r \in reads, ServeRead(r) \/ AnswerRead(r) \/ LoseRead(r)
      PROVE  \/ ServeReadStep(r)
             \/ r.served /\ ListStep(r, r.found)
             \/ /\ excuses' # {}
                /\ \E found \in SUBSET Entry : ListStep(r, found) /\ (Queried => found = {})
  BY <1>1, ServeReadEffect, AnswerReadStep, LoseReadStep
<1>2. ASSUME NEW w \in writes, ServeWrite(w)
      PROVE  \E outcome \in {"done", "refused"} : ServeWriteStep(w, outcome)
  BY <1>2, ServeWriteEffect
<1>3. ASSUME NEW w \in writes, AnswerWrite(w)
      PROVE  \E ok \in BOOLEAN :
                AnswerStep(w, ok) /\ (ok <=> w.outcome = "done") /\ w.outcome # "open"
  BY <1>3, AnswerWriteStep
<1>4. ASSUME NEW w \in writes, LoseWrite(w)
      PROVE  AnswerStep(w, FALSE) /\ (kind # "versions" => excuses' # {})
  BY <1>4, LoseWriteStep
<1>5. ASSUME NEW f \in File \cup {None}, ChooseFile(f)
      PROVE  PanelStep
  BY <1>5, ChooseFileStep
<1>6. ASSUME NEW e \in Entry, Others(e)
      PROVE  OthersStep
  BY <1>6, OthersEffect
<1>7. ASSUME NEW e \in Entry, InsertAttachment(e)
      PROVE  CloseStep
  BY <1>7, ClosingStep DEF InsertAttachment
<1>8. ASSUME NEW q \in Query \cup {None}, Search(q) \/ ShowDocument(q)
      PROVE  QueryStep(q)
  BY <1>8, SearchStep, ShowDocumentStep
<1>9. Upload => Asking \/ Submitting
  BY DEF Upload, Asking, Submitting
<1>10. (\E e \in Entry :
          \/ requestDeleteAttachment(e) \/ requestDeleteVersion(e) \/ openEditDialog(e)
          \/ \E op \in {"recover", "delete"} : AskAboutEntry(op, e))
       \/ openCreateDialog => Asking
  BY DEF Asking
<1>11. (\E e \in Entry : loadVersion(e) \/ saveAccount(e))
       \/ ConfirmOverwrite \/ ConfirmRemoval \/ deleteVersion \/ ChangeTrash \/ deleteAccount
       => Submitting
  BY DEF Submitting
<1>12. Dismiss => PanelStep
  BY DismissStep
<1>13. CloseAttachments \/ CloseVersions => CloseStep
  BY ClosingStep
<1>14. Asking => PanelStep
  BY AskingStep
<1>15. Submitting => \E op \in {"upload", "delete", "load", "recover", "save"},
                        of \in Entry \cup File, agreed \in BOOLEAN : SubmitStep(op, of, agreed)
  BY SubmittingStep
<1> QED
  BY <1>1, <1>2, <1>3, <1>4, <1>5, <1>6, <1>7, <1>8, <1>9, <1>10, <1>11, <1>12, <1>13,
     <1>14, <1>15 DEF Next

----------------------------------------------------------------------------
(* Types.                                                                  *)

NewState(list, canDelete) == [p |-> NewPanel(list, canDelete), r |-> {}, w |-> {}]

LEMMA NewPanelState ==
    ASSUME NEW list \in SUBSET Entry, NEW canDelete \in BOOLEAN
    PROVE  /\ NewState(list, canDelete) \in State
           /\ NewState(list, canDelete).r = {}
           /\ NewState(list, canDelete).p.dialog = NoDialog
           /\ NewState(list, canDelete).p.sequence = 0
           /\ NewState(list, canDelete).p.query = None
           /\ NewState(list, canDelete).p.list = list
<1>1. NoDialog \in [op : {"none", "overwrite", "delete", "recover", "create", "edit"},
                    entry : Entry \cup {None}]
  BY DEF NoDialog
<1>2. /\ NewPanel(list, canDelete) \in PanelState
      /\ NewPanel(list, canDelete).dialog = NoDialog
      /\ NewPanel(list, canDelete).open = TRUE /\ NewPanel(list, canDelete).sequence = 0
      /\ NewPanel(list, canDelete).query = None /\ NewPanel(list, canDelete).list = list
  BY <1>1 DEF NewPanel, PanelState
<1> QED
  BY <1>2 DEF State, NewState

LEMMA InitType == Init => TypeInv
<1> SUFFICES ASSUME Init
             PROVE  TypeInv
  OBVIOUS
<1>1. PICK canDelete \in BOOLEAN :
         LET new == NewPanel(IF kind \in {"attachments", "versions"} THEN stored ELSE {},
                             canDelete)
             x == [p |-> new, r |-> {}, w |-> {}]
             y == IF kind \in {"attachments", "trash", "accounts"} THEN Requested(x) ELSE x
         IN  panel = y.p /\ reads = y.r
  BY DEF Init
<1> DEFINE list == IF kind \in {"attachments", "versions"} THEN stored ELSE {}
           x == NewState(list, canDelete)
           y == IF kind \in {"attachments", "trash", "accounts"} THEN Requested(x) ELSE x
<1>2. /\ kind \in Kind /\ stored \subseteq Entry /\ writes = {} /\ excuses = {}
      /\ sent = [event \in {"writes", "others", "failures", "queries"} |-> 0]
      /\ panel = y.p /\ reads = y.r
  BY <1>1 DEF Init, NewState
<1>3. list \in SUBSET Entry
  BY <1>2
<1> HIDE DEF list
<1>6. x \in State /\ x.r = {} /\ x.p.dialog = NoDialog
  BY <1>3, NewPanelState
<1> HIDE DEF x
<1>7. /\ Requested(x) \in State /\ Requested(x).p.dialog = NoDialog
      /\ Requested(x).r = {[id |-> x.p.sequence + 1, of |-> x.p.query,
                            served |-> FALSE, found |-> {}]}
  BY <1>6, RequestedEffect
<1>8. y \in State /\ IsFiniteSet(y.r) /\ y.p.dialog = NoDialog
  <2>1. y = Requested(x) \/ y = x
    OBVIOUS
  <2>2. IsFiniteSet(x.r) /\ IsFiniteSet(Requested(x).r)
    <3>1. IsFiniteSet({[id |-> x.p.sequence + 1, of |-> x.p.query, served |-> FALSE, found |-> {}]})
      BY FS_Singleton
    <3> QED
      BY <1>6, <1>7, <3>1, FS_EmptySet
  <2> QED
    BY <1>6, <1>7, <2>1, <2>2
<1> HIDE DEF y
<1>9. panel \in PanelState /\ reads \subseteq Read
  BY <1>2, <1>8 DEF State
<1>10. TypeOK
  BY <1>2, <1>9 DEF TypeOK
<1> QED
  BY <1>2, <1>8, <1>10 DEF TypeInv, IsDialog

LEMMA TypeFollows ==
    ASSUME TypeInv, Typed, \A w \in writes' : IsWrite(w), IsDialog(panel'.dialog)
    PROVE  TypeInv'
<1>1. TypeOK'
  BY StateOfPanel DEF Typed, TypeOK, Excuse
<1>2. (\A w \in writes : IsWrite(w))'
  BY DEF Typed, IsWrite
<1>3. IsDialog(panel.dialog)'
  BY DEF Typed, IsDialog
<1> QED
  BY <1>1, <1>2, <1>3 DEF TypeInv, Typed

LEMMA NoDialogIsDialog == IsDialog(NoDialog)
  BY DEF IsDialog

\* What is excused is the write it was.
LEMMA ExcusedIsWrite ==
    ASSUME NEW w, IsWrite(w), NEW b \in BOOLEAN
    PROVE  IsWrite(Excusing(w, b))
  BY ExcusingEffect DEF IsWrite

LEMMA StepType ==
    ASSUME TypeInv, ControlInv, [Next]_vars
    PROVE  TypeInv'
<1>0. (\A w \in writes : IsWrite(w)) /\ IsDialog(panel.dialog) /\ writes \subseteq Write
  BY StateOfPanel DEF TypeInv
<1>1. CASE PanelStep
  BY <1>0, <1>1, TypeFollows, NoDialogIsDialog DEF PanelStep
<1>2. CASE CloseStep
  BY <1>0, <1>2, TypeFollows, NoDialogIsDialog DEF CloseStep
<1>3. CASE OthersStep
  BY <1>0, <1>3, TypeFollows, ExcusedIsWrite DEF OthersStep
<1>4. ASSUME NEW op \in {"upload", "delete", "load", "recover", "save"},
             NEW of \in Entry \cup File, NEW agreed \in BOOLEAN, SubmitStep(op, of, agreed)
      PROVE  TypeInv'
  <2>1. Overlap(op) \in BOOLEAN
    BY DEF Overlap
  <2> QED
    BY <1>0, <1>4, <2>1, TypeFollows, NoDialogIsDialog, ExcusedIsWrite DEF SubmitStep
<1>5. ASSUME NEW q \in Query \cup {None}, QueryStep(q)
      PROVE  TypeInv'
  BY <1>0, <1>5, TypeFollows DEF QueryStep
<1>6. ASSUME NEW r \in reads, ServeReadStep(r)
      PROVE  TypeInv'
  BY <1>0, <1>6, TypeFollows DEF ServeReadStep
<1>7. ASSUME NEW r \in reads, NEW found, ListStep(r, found)
      PROVE  TypeInv'
  BY <1>0, <1>7, TypeFollows DEF ListStep
<1>8. ASSUME NEW w \in writes, NEW outcome \in {"done", "refused"}, ServeWriteStep(w, outcome)
      PROVE  TypeInv'
  <2>1. Decided(w, outcome) \in Write
    BY <1>8 DEF ServeWriteStep, Typed
  <2>2. IsWrite(Decided(w, outcome))
    BY <1>0, <1>8, <2>1 DEF ServeWriteStep, IsWrite
  <2> QED
    BY <1>0, <1>8, <2>2, TypeFollows DEF ServeWriteStep
<1>9. ASSUME NEW w \in writes, NEW ok \in BOOLEAN, AnswerStep(w, ok)
      PROVE  TypeInv'
  BY <1>0, <1>9, TypeFollows DEF AnswerStep
<1>10. CASE UNCHANGED vars
  BY <1>10 DEF vars, TypeInv, TypeOK, IsWrite, IsDialog
<1> QED
  BY <1>1, <1>2, <1>3, <1>4, <1>5, <1>6, <1>7, <1>8, <1>9, <1>10, Steps

----------------------------------------------------------------------------
(* Requests, flags and dialogs.                                            *)

LEMMA InitControl == Init => ControlInv
<1> SUFFICES ASSUME Init
             PROVE  ControlInv
  OBVIOUS
<1>1. PICK canDelete \in BOOLEAN :
         LET new == NewPanel(IF kind \in {"attachments", "versions"} THEN stored ELSE {},
                             canDelete)
             x == [p |-> new, r |-> {}, w |-> {}]
             y == IF kind \in {"attachments", "trash", "accounts"} THEN Requested(x) ELSE x
         IN  panel = y.p /\ reads = y.r
  BY DEF Init
<1>2. panel.open = TRUE /\ panel.dialog = NoDialog
  BY <1>1 DEF NewPanel, Requested
<1>3. reads # {} => panel.loading
  BY <1>1 DEF NewPanel, Requested
<1>4. \A r, s \in reads : r = s
  BY <1>1 DEF NewPanel, Requested
<1>5. writes = {}
  BY DEF Init
<1> QED
  BY <1>2, <1>3, <1>4, <1>5 DEF ControlInv, ClosedInv, OneRequest

LEMMA StepControl ==
    ASSUME TypeInv, ControlInv, [Next]_vars
    PROVE  ControlInv'
<1>0. /\ (\A w \in writes : IsWrite(w)) /\ writes \subseteq Write
      /\ kind \in Kind /\ panel.open \in BOOLEAN
  BY StateOfPanel DEF TypeInv, PanelState
<1>1. CASE PanelStep
  <2>1. ClosedInv'
    BY <1>1 DEF PanelStep, Typed, ControlInv, ClosedInv
  <2>2. kind' \in Waits => OneRequest'
    BY <1>1 DEF PanelStep, Typed, ControlInv, OneRequest, Flagged
  <2> QED
    BY <2>1, <2>2 DEF ControlInv
<1>2. CASE CloseStep
  <2>1. ClosedInv'
    BY <1>2 DEF CloseStep, Typed, ClosedInv
  <2>2. kind' \in Waits => OneRequest'
    BY <1>2 DEF CloseStep, Typed, Waits, OneRequest
  <2> QED
    BY <2>1, <2>2 DEF ControlInv
<1>3. CASE OthersStep
  <2>1. ClosedInv'
    BY <1>3 DEF OthersStep, Typed, ControlInv, ClosedInv
  <2>2. ASSUME kind \in Waits
        PROVE  OneRequest'
    <3>1. OneRequest
      BY <2>2 DEF ControlInv
    <3>2. \A v \in writes' : \E w \in writes : v = Excusing(w, TRUE) /\ v.op = w.op
      <4>1. \A w \in writes : Excusing(w, TRUE).op = w.op
        BY <1>0, ExcusingEffect
      <4> QED
        BY <1>3, <4>1 DEF OthersStep
    <3>3. \A v \in writes' : Flagged(v)'
      BY <1>3, <3>1, <3>2 DEF OthersStep, Typed, OneRequest, Flagged
    <3>4. \A v, w \in writes' : v = w
      BY <3>1, <3>2 DEF OneRequest
    <3>5. writes = {} => writes' = {}
      BY <3>2
    <3> QED
      BY <1>3, <3>1, <3>3, <3>4, <3>5 DEF OthersStep, OneRequest
  <2> QED
    BY <1>3, <2>1, <2>2 DEF ControlInv, OthersStep, Typed
<1>4. ASSUME NEW op \in {"upload", "delete", "load", "recover", "save"},
             NEW of \in Entry \cup File, NEW agreed \in BOOLEAN, SubmitStep(op, of, agreed)
      PROVE  ControlInv'
  <2>1. ClosedInv'
    BY <1>0, <1>4 DEF SubmitStep, Typed, ClosedInv
  <2>2. ASSUME kind \in Waits
        PROVE  OneRequest'
    <3> DEFINE new == NewWrite(op, of, agreed)
    <3>1. reads' = {} /\ writes' = {Excusing(new, Overlap(op))}
      BY <1>4, <2>2 DEF SubmitStep
    <3>2. new \in Write /\ new.op = op
      BY <1>4 DEF SubmitStep, IsWrite, NewWrite
    <3>3. Overlap(op) \in BOOLEAN
      BY DEF Overlap
    <3>4. Excusing(new, Overlap(op)).op = op
      BY <3>2, <3>3, ExcusingEffect
    <3> HIDE DEF new
    <3>5. \A w \in writes' : Flagged(w)'
      BY <1>4, <2>2, <3>1, <3>4 DEF SubmitStep, Typed, Flagged
    <3> QED
      BY <1>4, <3>1, <3>5 DEF OneRequest, SubmitStep
  <2> QED
    BY <1>4, <2>1, <2>2 DEF ControlInv, SubmitStep, Typed
<1>5. ASSUME NEW q \in Query \cup {None}, QueryStep(q)
      PROVE  ControlInv'
  BY <1>0, <1>5 DEF QueryStep, Typed, ControlInv, ClosedInv, Waits
<1>6. ASSUME NEW r \in reads, ServeReadStep(r)
      PROVE  ControlInv'
  <2>1. ClosedInv'
    BY <1>6 DEF ServeReadStep, Typed, ControlInv, ClosedInv
  <2>2. kind \in Waits => OneRequest'
    BY <1>6 DEF ServeReadStep, Typed, ControlInv, OneRequest, Flagged
  <2> QED
    BY <1>6, <2>1, <2>2 DEF ControlInv, ServeReadStep, Typed
<1>7. ASSUME NEW r \in reads, NEW found, ListStep(r, found)
      PROVE  ControlInv'
  <2>1. ClosedInv'
    BY <1>7 DEF ListStep, Typed, ControlInv, ClosedInv
  <2>2. kind \in Waits => OneRequest'
    BY <1>7 DEF ListStep, Typed, ControlInv, OneRequest, Flagged
  <2> QED
    BY <1>7, <2>1, <2>2 DEF ControlInv, ListStep, Typed
<1>8. ASSUME NEW w \in writes, NEW outcome \in {"done", "refused"}, ServeWriteStep(w, outcome)
      PROVE  ControlInv'
  <2>1. ClosedInv'
    BY <1>8 DEF ServeWriteStep, Typed, ControlInv, ClosedInv
  <2>2. kind \in Waits => OneRequest'
    BY <1>8 DEF ServeWriteStep, Typed, ControlInv, OneRequest, Flagged
  <2> QED
    BY <1>8, <2>1, <2>2 DEF ControlInv, ServeWriteStep, Typed
<1>9. ASSUME NEW w \in writes, NEW ok \in BOOLEAN, AnswerStep(w, ok)
      PROVE  ControlInv'
  <2>0. w.op \in OpsOf[kind]
    BY <1>0 DEF IsWrite
  <2>1. CASE ~panel.open
    <3>1. ClosedInv'
      BY <1>9, <2>1 DEF AnswerStep, Typed, ControlInv, ClosedInv
    <3>2. kind \in Waits => OneRequest'
      BY <1>9, <2>1 DEF AnswerStep, Typed, ControlInv, OneRequest, ClosedInv
    <3> QED
      BY <1>9, <3>1, <3>2 DEF ControlInv, AnswerStep, Typed
  <2>2. CASE panel.open /\ kind \notin Waits
    <3>1. kind = "attachments"
      BY <1>0, <2>0, <2>2 DEF Waits, Kind, OpsOf
    <3>2. ~Closes(w, ok)
      BY <2>0, <3>1 DEF Closes, OpsOf
    <3>3. panel'.open
      BY <1>9, <2>2, <3>2 DEF AnswerStep
    <3> QED
      BY <1>9, <2>2, <3>3 DEF AnswerStep, Typed, ControlInv, ClosedInv
  <2>3. CASE panel.open /\ kind \in Waits
    <3>1. /\ reads = {} /\ panel.dialog = NoDialog /\ \A v \in writes : v = w
      BY <2>3 DEF ControlInv, OneRequest
    <3>2. writes' = {} /\ panel'.dialog = NoDialog
      BY <1>9, <3>1 DEF AnswerStep
    <3>3. /\ \A r, s \in reads' : r = s
          /\ reads' # {} => panel'.loading
      BY <1>9, <2>3, <3>1 DEF AnswerStep
    <3>4. OneRequest'
      BY <3>2, <3>3 DEF OneRequest
    <3>5. ~panel'.open => Closes(w, ok)
      BY <1>9, <2>3 DEF AnswerStep
    <3>6. Closes(w, ok) => kind = "versions" /\ reads' = {}
      BY <1>9, <2>0, <2>3 DEF AnswerStep, Closes, OpsOf, Waits
    <3>7. ClosedInv'
      BY <1>9, <3>2, <3>5, <3>6 DEF ClosedInv, AnswerStep, Typed
    <3> QED
      BY <3>4, <3>7 DEF ControlInv
  <2> QED
    BY <1>0, <2>1, <2>2, <2>3
<1>10. CASE UNCHANGED vars
  BY <1>10 DEF vars, ControlInv, ClosedInv, OneRequest, Flagged
<1> QED
  BY <1>1, <1>2, <1>3, <1>4, <1>5, <1>6, <1>7, <1>8, <1>9, <1>10, Steps

----------------------------------------------------------------------------
(* What the list shows.                                                    *)

\* The page as it is first shown.
LEMMA InitPanel ==
    ASSUME Init
    PROVE  /\ kind \in Kind /\ writes = {} /\ excuses = {}
           /\ panel.query = None /\ panel.sequence \in Nat
           /\ kind \in {"attachments", "versions"} => panel.list = stored
           /\ kind \notin {"attachments", "versions"} => panel.list = {}
           /\ kind \in {"trash", "accounts"} => reads # {}
           /\ \A r \in reads :
                 ~Queried /\ r.served = FALSE /\ r.id <= panel.sequence /\ r.of = None
<1>1. PICK canDelete \in BOOLEAN :
         LET new == NewPanel(IF kind \in {"attachments", "versions"} THEN stored ELSE {},
                             canDelete)
             x == [p |-> new, r |-> {}, w |-> {}]
             y == IF kind \in {"attachments", "trash", "accounts"} THEN Requested(x) ELSE x
         IN  panel = y.p /\ reads = y.r
  BY DEF Init
<1> DEFINE list == IF kind \in {"attachments", "versions"} THEN stored ELSE {}
           x == NewState(list, canDelete)
<1>2. list \in SUBSET Entry
  BY DEF Init
<1> HIDE DEF list
<1>3. /\ x \in State /\ x.r = {} /\ x.p.sequence = 0 /\ x.p.query = None /\ x.p.list = list
  BY <1>2, NewPanelState
<1>4. \/ /\ kind \in {"attachments", "trash", "accounts"}
         /\ panel = Requested(x).p /\ reads = Requested(x).r
      \/ /\ kind \notin {"attachments", "trash", "accounts"}
         /\ panel = x.p /\ reads = {}
  BY <1>1 DEF list, NewState
<1> HIDE DEF x
<1>5. /\ Requested(x).p.query = None /\ Requested(x).p.sequence = 1
      /\ Requested(x).p.list = list
      /\ Requested(x).r = {[id |-> 1, of |-> None, served |-> FALSE, found |-> {}]}
  <2>1. x.p.sequence + 1 = 1
    BY <1>3
  <2> QED
    BY <1>3, <2>1, RequestedEffect DEF Steady
<1>6. panel.query = None /\ panel.sequence \in {0, 1} /\ panel.list = list
  BY <1>3, <1>4, <1>5
<1>7. \A r \in reads :
         ~Queried /\ r.served = FALSE /\ r.id <= panel.sequence /\ r.of = None
  BY <1>4, <1>5 DEF Queried
<1>8. kind \in {"trash", "accounts"} => reads # {}
  BY <1>4, <1>5
<1>9. kind \in Kind /\ writes = {} /\ excuses = {}
  BY DEF Init
<1> QED
  BY <1>6, <1>7, <1>8, <1>9 DEF list

LEMMA StepQuery ==
    ASSUME TypeInv, ControlInv, QueryInv, [Next]_vars
    PROVE  QueryInv'
<1>0. /\ reads \subseteq Read /\ panel \in PanelState /\ kind \in Kind
      /\ panel.sequence \in Nat /\ \A r \in reads : r.id \in Nat
      /\ \A w \in writes : w.op \in OpsOf[kind]
  BY StateOfPanel DEF PanelState, Read, TypeInv, IsWrite
<1>1. CASE PanelStep
  BY <1>1 DEF PanelStep, Typed, QueryInv, Queried, Awaited
<1>2. CASE CloseStep
  BY <1>2 DEF CloseStep, Typed, QueryInv, Queried, Awaited
<1>3. CASE OthersStep
  BY <1>3 DEF OthersStep, Typed, QueryInv, Queried, Awaited
<1>4. ASSUME NEW op \in {"upload", "delete", "load", "recover", "save"},
             NEW of \in Entry \cup File, NEW agreed \in BOOLEAN, SubmitStep(op, of, agreed)
      PROVE  QueryInv'
  <2>1. kind # "search" /\ kind # "sidebar"
    BY <1>4 DEF SubmitStep, IsWrite, NewWrite, OpsOf
  <2>2. panel'.query = None /\ reads' = reads /\ panel'.sequence = panel.sequence + 1 /\ kind' = kind
    BY <1>4, <2>1 DEF SubmitStep, Typed, QueryInv, Queried
  <2>3. \A r \in reads : r.id <= panel.sequence + 1 /\ r.of = None
    BY <1>0, <2>1 DEF QueryInv, Awaited, Queried
  <2> QED
    BY <2>1, <2>2, <2>3 DEF QueryInv, Queried, Awaited
<1>5. ASSUME NEW q \in Query \cup {None}, QueryStep(q)
      PROVE  QueryInv'
  <2>1. NewRead(q).id = panel.sequence + 1 /\ NewRead(q).of = q
    BY DEF NewRead
  <2>2. Queried' /\ kind' = kind
    BY <1>5 DEF QueryStep, Typed, Queried
  <2>3. CASE kind = "search"
    <3>1. /\ panel'.query = q /\ panel'.list = {} /\ panel'.sequence = panel.sequence + 1
          /\ reads' \subseteq reads \cup {NewRead(q)}
      BY <1>5, <2>3 DEF QueryStep
    <3>2. \A r \in reads : r.id <= panel.sequence
      BY DEF QueryInv
    <3>3. \A r \in reads' : r.id <= panel'.sequence
                            /\ (r.id = panel'.sequence => r.of = panel'.query)
      BY <1>0, <2>1, <3>1, <3>2
    <3> QED
      BY <2>2, <2>3, <3>1, <3>3 DEF QueryInv, Awaited
  <2>4. CASE kind = "sidebar"
    <3>1. /\ panel'.query = q
          /\ \/ q = None /\ reads' = {}
             \/ reads' = {NewRead(q)} /\ panel'.sequence = panel.sequence + 1
      BY <1>5, <2>4 DEF QueryStep
    <3>2. \A r \in reads' : r.id <= panel'.sequence /\ r.of = panel'.query
      BY <1>0, <2>1, <3>1
    <3>3. panel'.query = None \/ \E r \in reads' : Awaited(r)'
      BY <2>2, <2>4, <3>1 DEF Awaited
    <3> QED
      BY <2>2, <3>2, <3>3 DEF QueryInv
  <2> QED
    BY <1>5, <2>3, <2>4 DEF QueryStep
<1>6. ASSUME NEW r \in reads, ServeReadStep(r)
      PROVE  QueryInv'
  BY <1>6 DEF ServeReadStep, Typed, QueryInv, Queried, Awaited
<1>7. ASSUME NEW r \in reads, NEW found, ListStep(r, found), r.served \/ (Queried => found = {})
      PROVE  QueryInv'
  <2>1. /\ panel'.query = panel.query /\ panel'.sequence = panel.sequence /\ kind' = kind
        /\ reads' = reads \ {r}
    BY <1>7 DEF ListStep, Typed
  <2>2. CASE Awaited(r)
    <3>1. r.of = panel.query
      BY <2>2 DEF QueryInv
    <3>2. \/ panel'.query = None
          \/ panel'.of = panel'.query
      BY <1>7, <2>1, <2>2, <3>1 DEF ListStep, QueryInv
    <3> QED
      BY <2>1, <3>2 DEF QueryInv, Queried, Awaited
  <2>3. CASE ~Awaited(r)
    BY <1>7, <2>1, <2>3 DEF ListStep, QueryInv, Queried, Awaited
  <2> QED
    BY <2>2, <2>3
<1>8. ASSUME NEW w \in writes, NEW outcome \in {"done", "refused"}, ServeWriteStep(w, outcome)
      PROVE  QueryInv'
  BY <1>8 DEF ServeWriteStep, Typed, QueryInv, Queried, Awaited
<1>9. ASSUME NEW w \in writes, NEW ok \in BOOLEAN, AnswerStep(w, ok)
      PROVE  QueryInv'
  <2>1. kind # "search" /\ kind # "sidebar"
    BY <1>0 DEF OpsOf
  <2>2. /\ panel'.query = None /\ kind' = kind
        /\ panel.query = None
    BY <1>9, <2>1 DEF AnswerStep, Typed, QueryInv, Queried
  <2>3. \A r \in reads : r.id <= panel.sequence /\ r.of = None
    BY <2>1, <2>2 DEF QueryInv, Awaited
  <2>4. NewRead(panel.query).id = panel.sequence + 1 /\ NewRead(panel.query).of = None
    BY <2>2 DEF NewRead
  <2>5. \/ reads' \subseteq reads /\ panel'.sequence = panel.sequence
        \/ reads' = reads \cup {NewRead(panel.query)} /\ panel'.sequence = panel.sequence + 1
    BY <1>9 DEF AnswerStep, Asks, Closes
  <2>6. \A r \in reads' : r.id <= panel'.sequence /\ r.of = None
    BY <1>0, <2>3, <2>4, <2>5
  <2> QED
    BY <2>1, <2>2, <2>6 DEF QueryInv, Queried, Awaited
<1>10. CASE UNCHANGED vars
  BY <1>10 DEF vars, QueryInv, Queried, Awaited
<1> QED
  BY <1>1, <1>2, <1>3, <1>4, <1>5, <1>6, <1>7, <1>8, <1>9, <1>10, Steps

LEMMA StepCurrent ==
    ASSUME TypeInv, ControlInv, QueryInv, CurrentInv, [Next]_vars
    PROVE  CurrentInv'
<1>0. /\ kind \in Kind /\ writes \subseteq Write /\ panel.sequence \in Nat
      /\ \A r \in reads : r.id \in Nat /\ r.id <= panel.sequence
      /\ \A w \in writes : w.op \in OpsOf[kind]
  BY StateOfPanel DEF PanelState, Read, TypeInv, IsWrite, QueryInv
<1> SUFFICES ASSUME excuses' = {}
             PROVE  \/ Unheard'
                    \/ /\ \A r \in reads' : Awaited(r)' /\ r.served => r.found = stored'
                       /\ \/ \E r \in reads' : Awaited(r)'
                          \/ panel'.list = stored'
                          \/ Queried' /\ panel'.query = None
  BY DEF CurrentInv
<1>1. CASE PanelStep
  BY <1>1 DEF PanelStep, Typed, CurrentInv, Queried, Awaited, Unheard
<1>2. CASE CloseStep
  BY <1>2 DEF CloseStep, Typed, CurrentInv, Queried, Unheard
<1>3. CASE OthersStep
  BY <1>3 DEF OthersStep
<1>4. ASSUME NEW op \in {"upload", "delete", "load", "recover", "save"},
             NEW of \in Entry \cup File, NEW agreed \in BOOLEAN, SubmitStep(op, of, agreed)
      PROVE  CurrentInv'
  <2>1. kind # "search" /\ kind' = kind
    BY <1>4 DEF SubmitStep, IsWrite, NewWrite, OpsOf, Typed
  <2>2. /\ excuses = {} /\ reads' = reads /\ stored' = stored
        /\ panel'.list = panel.list /\ panel'.query = panel.query
    BY <1>4 DEF SubmitStep
  <2>3. Unheard => Unheard'
    <3>1. Overlap(op) \in BOOLEAN
      BY DEF Overlap
    <3>2. \A w \in writes : /\ Excusing(w, Overlap(op)) \in writes'
                            /\ Excusing(w, Overlap(op)).op = w.op
                            /\ Excusing(w, Overlap(op)).outcome = w.outcome
      BY <1>0, <1>4, <3>1, ExcusingEffect DEF SubmitStep
    <3> QED
      BY <3>2 DEF Unheard
  <2> QED
    BY <2>1, <2>2, <2>3 DEF CurrentInv, Queried, Awaited
<1>5. ASSUME NEW q \in Query \cup {None}, QueryStep(q)
      PROVE  CurrentInv'
  <2>1. NewRead(q).id = panel.sequence + 1 /\ NewRead(q).served = FALSE
    BY DEF NewRead
  <2>2. Queried' /\ kind' = kind /\ panel'.query = q
    BY <1>5 DEF QueryStep, Typed, Queried
  <2>3. CASE kind = "search"
    <3>1. /\ panel'.sequence = panel.sequence + 1
          /\ IF q = None THEN reads' = reads ELSE reads' = reads \cup {NewRead(q)}
      BY <1>5, <2>3 DEF QueryStep
    <3>2. \A r \in reads' : r.id = panel'.sequence => r.served = FALSE
      BY <1>0, <2>1, <3>1
    <3>3. q = None \/ \E r \in reads' : Awaited(r)'
      BY <2>1, <2>2, <3>1 DEF Awaited
    <3> QED
      BY <2>2, <2>3, <3>2, <3>3 DEF CurrentInv, Awaited
  <2>4. CASE kind = "sidebar"
    <3>1. IF q = None THEN reads' = {} ELSE reads' = {NewRead(q)}
      BY <1>5, <2>4 DEF QueryStep
    <3>2. \A r \in reads' : r.served = FALSE
      BY <2>1, <3>1
    <3>3. q = None \/ \E r \in reads' : Awaited(r)'
      BY <2>2, <2>4, <3>1 DEF Awaited
    <3> QED
      BY <2>2, <3>2, <3>3 DEF CurrentInv
  <2> QED
    BY <1>5, <2>3, <2>4 DEF QueryStep
<1>6. ASSUME NEW r \in reads, ServeReadStep(r)
      PROVE  CurrentInv'
  <2> DEFINE served == Served(r)
  <2>1. /\ reads' = (reads \ {r}) \cup {served} /\ served.found = stored /\ served.id = r.id
        /\ stored' = stored /\ writes' = writes /\ panel' = panel /\ kind' = kind
    BY <1>6 DEF ServeReadStep, Typed
  <2> HIDE DEF served
  <2>2. \A s \in reads' : s.id = r.id => (Awaited(s)' <=> Awaited(r))
    BY <2>1 DEF Awaited
  <2>3. \A s \in reads : Awaited(s)' <=> Awaited(s)
    BY <2>1 DEF Awaited
  <2>4. CASE reads = {r} /\ writes = {} /\ Awaited(r)
    BY <2>1, <2>2, <2>4 DEF CurrentInv
  <2>5. CASE excuses = {}
    BY <2>1, <2>2, <2>3, <2>5 DEF CurrentInv, Unheard, Queried
  <2> QED
    BY <1>6, <2>4, <2>5 DEF ServeReadStep
<1>7. ASSUME NEW r \in reads, r.served, ListStep(r, r.found)
      PROVE  CurrentInv'
  <2>1. /\ panel'.query = panel.query /\ kind' = kind
        /\ reads' = reads \ {r} /\ stored' = stored /\ writes' = writes /\ excuses = {}
        /\ Awaited(r) => panel'.list = r.found
        /\ ~Awaited(r) => panel'.list = panel.list
    BY <1>7 DEF ListStep, Typed
  <2>2. \A s \in reads : Awaited(s)' <=> Awaited(s)
    BY <1>7, <2>1 DEF ListStep, Awaited
  <2> QED
    BY <1>7, <2>1, <2>2 DEF CurrentInv, Unheard, Queried
<1>8. ASSUME NEW w \in writes, NEW outcome \in {"done", "refused"}, ServeWriteStep(w, outcome)
      PROVE  CurrentInv'
  <2>1. /\ reads' = reads /\ panel' = panel /\ kind' = kind /\ excuses = {}
        /\ w.outcome = "open"
        /\ writes' = (writes \ {w}) \cup {Decided(w, outcome)}
        /\ Decided(w, outcome).op = w.op /\ Decided(w, outcome).outcome = outcome
        /\ outcome = "refused" \/ w.op = "load" => stored' = stored
    BY <1>8 DEF ServeWriteStep, Typed
  <2>2. Unheard => Unheard'
    BY <2>1 DEF Unheard
  <2>3. CASE outcome = "done" /\ w.op # "load"
    BY <2>1, <2>3 DEF Unheard, CurrentInv
  <2>4. CASE stored' = stored
    BY <2>1, <2>2, <2>4 DEF CurrentInv, Awaited, Queried
  <2> QED
    BY <2>1, <2>3, <2>4
<1>9. ASSUME NEW w \in writes, NEW ok \in BOOLEAN, AnswerStep(w, ok),
             \/ (ok <=> w.outcome = "done") /\ w.outcome # "open"
             \/ ~ok /\ kind = "versions"
      PROVE  CurrentInv'
  <2>1. /\ excuses = {} /\ panel.open /\ kind \notin {"search", "sidebar"} /\ kind' = kind
        /\ stored' = stored /\ panel'.list = panel.list /\ writes' = writes \ {w}
    BY <1>0, <1>9 DEF AnswerStep, Typed, ControlInv, ClosedInv, OpsOf
  <2>2. CASE Asks(w, ok)
    <3>1. reads' = reads \cup {NewRead(panel.query)}
      BY <1>9, <2>1, <2>2 DEF AnswerStep
    <3>2. reads' = {NewRead(panel.query)}
      <4>1. CASE kind = "attachments"
        <5>1. \A a, b \in reads' : a = b
          BY <1>9, <4>1 DEF AnswerStep
        <5> QED
          BY <3>1, <5>1
      <4>2. CASE kind \in Waits
        <5>1. reads = {}
          BY <1>9, <4>2 DEF ControlInv, OneRequest
        <5> QED
          BY <3>1, <5>1
      <4> QED
        BY <1>0, <2>1, <4>1, <4>2 DEF Kind, Waits
    <3>3. NewRead(panel.query).served = FALSE
      BY DEF NewRead
    <3> QED
      BY <2>1, <3>2, <3>3 DEF CurrentInv, Awaited
  <2>3. CASE Closes(w, ok)
    <3>1. kind = "versions" /\ w.op = "load" /\ reads' = {}
      BY <1>0, <1>9, <2>1, <2>3 DEF Closes, OpsOf, Kind, AnswerStep
    <3>2. reads = {} /\ \A v \in writes : v = w
      BY <1>9, <3>1 DEF ControlInv, OneRequest, Waits
    <3>3. ~Unheard /\ ~Queried
      BY <3>1, <3>2 DEF Unheard, Queried
    <3> QED
      BY <2>1, <3>1, <3>2, <3>3 DEF CurrentInv
  <2>4. CASE ~Asks(w, ok) /\ ~Closes(w, ok)
    <3>1. reads' = reads /\ ~(w.outcome = "done" /\ w.op # "load")
      BY <1>9, <2>1, <2>4 DEF AnswerStep, Asks
    <3>2. Unheard => Unheard'
      BY <2>1, <3>1 DEF Unheard
    <3> QED
      BY <2>1, <3>1, <3>2 DEF CurrentInv, Awaited, Queried
  <2> QED
    BY <2>2, <2>3, <2>4
<1>10. CASE UNCHANGED vars
  BY <1>10 DEF vars, CurrentInv, Queried, Awaited, Unheard
<1>11. CurrentInv' => \/ Unheard'
                      \/ /\ \A r \in reads' : Awaited(r)' /\ r.served => r.found = stored'
                         /\ \/ \E r \in reads' : Awaited(r)'
                            \/ panel'.list = stored'
                            \/ Queried' /\ panel'.query = None
  BY DEF CurrentInv
<1> QED
  BY <1>1, <1>2, <1>3, <1>4, <1>5, <1>6, <1>7, <1>8, <1>9, <1>10, <1>11, Steps

----------------------------------------------------------------------------
(* Uploads.                                                                *)

LEMMA StepOverlap ==
    ASSUME TypeInv, ControlInv, UploadsOverlap, [Next]_vars
    PROVE  UploadsOverlap'
<1>0. writes \subseteq Write
  BY StateOfPanel
<1>1. CASE writes' \subseteq writes
  BY <1>1 DEF UploadsOverlap
<1>2. CASE PanelStep \/ CloseStep
  BY <1>1, <1>2 DEF PanelStep, CloseStep
<1>3. CASE OthersStep
  <2>1. \A w \in writes : Excusing(w, TRUE).excused
    BY <1>0, ExcusingEffect
  <2>2. \A w \in writes' : w.excused
    BY <1>3, <2>1 DEF OthersStep
  <2> QED
    BY <2>2 DEF UploadsOverlap
<1>4. ASSUME NEW op \in {"upload", "delete", "load", "recover", "save"},
             NEW of \in Entry \cup File, NEW agreed \in BOOLEAN, SubmitStep(op, of, agreed)
      PROVE  UploadsOverlap'
  <2> DEFINE new == NewWrite(op, of, agreed)
  <2>1. new \in Write /\ new.op = op
    BY <1>4 DEF SubmitStep, IsWrite, NewWrite
  <2>2. Overlap(op) \in BOOLEAN
    BY DEF Overlap
  <2> HIDE DEF new
  <2>3. \A w \in writes \cup {new} :
           /\ Excusing(w, Overlap(op)).op = w.op
           /\ Excusing(w, Overlap(op)).excused <=> w.excused \/ Overlap(op)
    BY <1>0, <2>1, <2>2, ExcusingEffect
  <2>4. writes' = {Excusing(w, Overlap(op)) : w \in writes \cup {new}}
    BY <1>4 DEF SubmitStep, new
  <2>5. ASSUME NEW v \in writes \cup {new}, NEW w \in writes \cup {new},
               v.op = "upload", w.op = "upload", v # w
        PROVE  (v.excused \/ Overlap(op)) /\ (w.excused \/ Overlap(op))
    <3>1. CASE v \in writes /\ w \in writes
      BY <2>5, <3>1 DEF UploadsOverlap
    <3>2. CASE v = new \/ w = new
      BY <2>1, <2>5, <3>2 DEF Overlap
    <3> QED
      BY <3>1, <3>2
  <2>6. ASSUME NEW v \in writes', NEW w \in writes', v.op = "upload", w.op = "upload", v # w
        PROVE  v.excused /\ w.excused
    <3>1. PICK a \in writes \cup {new} : v = Excusing(a, Overlap(op))
      BY <2>4
    <3>2. PICK b \in writes \cup {new} : w = Excusing(b, Overlap(op))
      BY <2>4
    <3>3. a # b /\ a.op = "upload" /\ b.op = "upload"
      BY <2>3, <2>6, <3>1, <3>2
    <3> QED
      BY <2>3, <2>5, <3>1, <3>2, <3>3
  <2> QED
    BY <2>6 DEF UploadsOverlap
<1>5. ASSUME NEW q \in Query \cup {None}, QueryStep(q)
      PROVE  UploadsOverlap'
  BY <1>1, <1>5 DEF QueryStep
<1>6. ASSUME NEW r \in reads, ServeReadStep(r)
      PROVE  UploadsOverlap'
  BY <1>1, <1>6 DEF ServeReadStep
<1>7. ASSUME NEW r \in reads, NEW found, ListStep(r, found)
      PROVE  UploadsOverlap'
  BY <1>1, <1>7 DEF ListStep
<1>8. ASSUME NEW w \in writes, NEW outcome \in {"done", "refused"}, ServeWriteStep(w, outcome)
      PROVE  UploadsOverlap'
  BY <1>8 DEF ServeWriteStep, UploadsOverlap
<1>9. ASSUME NEW w \in writes, NEW ok \in BOOLEAN, AnswerStep(w, ok)
      PROVE  UploadsOverlap'
  BY <1>1, <1>9 DEF AnswerStep
<1>10. CASE UNCHANGED vars
  BY <1>1, <1>10 DEF vars
<1> QED
  BY <1>2, <1>3, <1>4, <1>5, <1>6, <1>7, <1>8, <1>9, <1>10, Steps

LEMMA StepHidden ==
    ASSUME TypeInv, ControlInv, NothingHidden, [Next]_vars
    PROVE  NothingHidden'
<1> DEFINE Answering(W) == \E w \in W : w.op = "upload" /\ w.outcome = "done"
<1>0. /\ kind \in Kind /\ writes \subseteq Write /\ panel.open \in BOOLEAN
      /\ \A w \in writes : w.op \in OpsOf[kind]
  BY StateOfPanel DEF PanelState, TypeInv, IsWrite
<1> SUFFICES ASSUME kind' = "attachments", excuses' = {}
             PROVE  \/ Answering(writes')
                    \/ /\ \A r \in reads' : r.served => stored' \subseteq r.found
                       /\ reads' # {} \/ stored' \subseteq panel'.list
  BY DEF NothingHidden
<1>a. kind = "attachments" /\ excuses = {} =>
        \/ Answering(writes)
        \/ /\ \A r \in reads : r.served => stored \subseteq r.found
           /\ reads # {} \/ stored \subseteq panel.list
  BY DEF NothingHidden
<1>1. CASE PanelStep
  BY <1>a, <1>1 DEF PanelStep, Typed
<1>2. CASE CloseStep
  BY <1>a, <1>2 DEF CloseStep, Typed
<1>3. CASE OthersStep
  BY <1>3 DEF OthersStep
<1>4. ASSUME NEW op \in {"upload", "delete", "load", "recover", "save"},
             NEW of \in Entry \cup File, NEW agreed \in BOOLEAN, SubmitStep(op, of, agreed)
      PROVE  NothingHidden'
  <2>1. /\ excuses = {} /\ reads' = reads /\ stored' = stored /\ panel'.list = panel.list
        /\ kind = "attachments"
    BY <1>4 DEF SubmitStep, Typed
  <2>2. Answering(writes) => Answering(writes')
    <3>1. Overlap(op) \in BOOLEAN
      BY DEF Overlap
    <3>2. \A w \in writes : /\ Excusing(w, Overlap(op)) \in writes'
                            /\ Excusing(w, Overlap(op)).op = w.op
                            /\ Excusing(w, Overlap(op)).outcome = w.outcome
      BY <1>0, <1>4, <3>1, ExcusingEffect DEF SubmitStep
    <3> QED
      BY <3>2
  <2> QED
    BY <1>a, <2>1, <2>2 DEF NothingHidden
<1>5. ASSUME NEW q \in Query \cup {None}, QueryStep(q)
      PROVE  FALSE
  BY <1>5 DEF QueryStep, Typed
<1>6. ASSUME NEW r \in reads, ServeReadStep(r)
      PROVE  NothingHidden'
  <2> DEFINE served == Served(r)
  <2>1. /\ reads' = (reads \ {r}) \cup {served} /\ served.found = stored
        /\ stored' = stored /\ writes' = writes /\ panel' = panel /\ kind' = kind
        /\ excuses = {} \/ reads = {r}
    BY <1>6 DEF ServeReadStep, Typed
  <2> HIDE DEF served
  <2>2. reads' # {}
    BY <2>1
  <2>3. CASE reads = {r}
    BY <2>1, <2>2, <2>3 DEF NothingHidden
  <2>4. CASE excuses = {}
    BY <1>a, <2>1, <2>2, <2>4 DEF NothingHidden
  <2> QED
    BY <2>1, <2>3, <2>4
<1>7. ASSUME NEW r \in reads, r.served, ListStep(r, r.found)
      PROVE  NothingHidden'
  <2>1. /\ reads' = reads \ {r} /\ stored' = stored /\ writes' = writes /\ excuses = {}
        /\ kind = "attachments" /\ panel'.list = r.found
    BY <1>7 DEF ListStep, Typed, Awaited
  <2> QED
    BY <1>a, <1>7, <2>1 DEF NothingHidden
<1>8. ASSUME NEW w \in writes, NEW outcome \in {"done", "refused"}, ServeWriteStep(w, outcome)
      PROVE  NothingHidden'
  <2> DEFINE v == Decided(w, outcome)
  <2>1. /\ reads' = reads /\ panel' = panel /\ excuses = {} /\ kind = "attachments"
        /\ w.outcome = "open"
        /\ writes' = (writes \ {w}) \cup {v} /\ v.op = w.op /\ v.outcome = outcome
        /\ outcome = "refused" => stored' = stored
        /\ w.op \notin {"upload", "save"} => stored' \subseteq stored
    BY <1>8 DEF ServeWriteStep, Typed
  <2>2. w.op \in {"upload", "delete"}
    BY <1>0, <2>1 DEF OpsOf
  <2> HIDE DEF v
  <2>3. Answering(writes) => Answering(writes')
    BY <2>1
  <2>4. CASE w.op = "upload" /\ outcome = "done"
    BY <2>1, <2>4 DEF NothingHidden
  <2>5. CASE stored' \subseteq stored
    BY <1>a, <2>1, <2>3, <2>5 DEF NothingHidden
  <2> QED
    BY <2>1, <2>2, <2>4, <2>5
<1>9. ASSUME NEW w \in writes, NEW ok \in BOOLEAN, AnswerStep(w, ok), ok <=> w.outcome = "done"
      PROVE  NothingHidden'
  <2>1. /\ excuses = {} /\ kind = "attachments" /\ panel.open
        /\ stored' = stored /\ panel'.list = panel.list /\ writes' = writes \ {w}
    BY <1>0, <1>9 DEF AnswerStep, Typed, ControlInv, ClosedInv
  <2>2. ~Closes(w, ok) /\ (Asks(w, ok) <=> ok)
    BY <1>0, <2>1 DEF Closes, Asks, OpsOf
  <2>3. CASE ok
    <3>1. reads' = reads \cup {NewRead(panel.query)} /\ \A a, b \in reads' : a = b
      BY <1>9, <2>1, <2>2, <2>3 DEF AnswerStep
    <3>2. reads' = {NewRead(panel.query)}
      BY <3>1
    <3>3. NewRead(panel.query).served = FALSE
      BY DEF NewRead
    <3> QED
      BY <3>2, <3>3 DEF NothingHidden
  <2>4. CASE ~ok
    <3>1. reads' = reads
      BY <1>9, <2>1, <2>2, <2>4 DEF AnswerStep
    <3>2. Answering(writes) => Answering(writes')
      BY <1>9, <2>1, <2>4
    <3> QED
      BY <1>a, <2>1, <3>1, <3>2 DEF NothingHidden
  <2> QED
    BY <2>3, <2>4
<1>10. CASE UNCHANGED vars
  BY <1>a, <1>10 DEF vars
<1>11. NothingHidden' => \/ Answering(writes')
                         \/ /\ \A r \in reads' : r.served => stored' \subseteq r.found
                            /\ reads' # {} \/ stored' \subseteq panel'.list
  BY DEF NothingHidden
<1>12. kind = "attachments"
  BY <1>10, Steps DEF PanelStep, CloseStep, OthersStep, SubmitStep, QueryStep, ServeReadStep,
     ListStep, ServeWriteStep, AnswerStep, Typed, vars
<1> HIDE DEF Answering
<1> QED
  BY <1>1, <1>2, <1>3, <1>4, <1>5, <1>6, <1>7, <1>8, <1>9, <1>10, <1>11, <1>12, Steps

LEMMA StepReplaces ==
    ASSUME TypeInv, ControlInv, UploadInv, [Next]_vars
    PROVE  ReplacesNothing'
<1> USE DEF ReplacesNothing
<1>0. writes \subseteq Write /\ ReplacesNothing /\ (\A w \in writes : w.op \in OpsOf[kind]) /\ kind \in Kind
  BY StateOfPanel DEF UploadInv, TypeInv, IsWrite
<1>1. CASE writes' \subseteq writes /\ stored' = stored
  BY <1>0, <1>1
<1>2. CASE PanelStep \/ CloseStep
  BY <1>1, <1>2 DEF PanelStep, CloseStep
<1>3. CASE OthersStep
  <2>1. \A w \in writes : Excusing(w, TRUE).excused
    BY <1>0, ExcusingEffect
  <2> QED
    BY <1>3, <2>1 DEF OthersStep
<1>4. ASSUME NEW op \in {"upload", "delete", "load", "recover", "save"},
             NEW of \in Entry \cup File, NEW agreed \in BOOLEAN, SubmitStep(op, of, agreed)
      PROVE  ReplacesNothing'
  <2> DEFINE new == NewWrite(op, of, agreed)
  <2>1. /\ new \in Write /\ new.op = op /\ new.of = of
        /\ new.excused <=> (agreed \/ excuses # {} \/ reads # {})
    BY <1>4 DEF SubmitStep, IsWrite, NewWrite
  <2>2. Overlap(op) \in BOOLEAN
    BY DEF Overlap
  <2>3. /\ stored' = stored /\ (op = "upload" => op \in OpsOf[kind])
        /\ op = "upload" => agreed \/ ~hasConflictingName(of)
        /\ writes' = {Excusing(w, Overlap(op)) : w \in writes \cup {new}}
    BY <1>4, <2>1 DEF SubmitStep, IsWrite
  <2> HIDE DEF new
  <2>4. \A w \in writes \cup {new} :
           /\ Excusing(w, Overlap(op)).op = w.op /\ Excusing(w, Overlap(op)).of = w.of
           /\ Excusing(w, Overlap(op)).outcome = w.outcome
           /\ Excusing(w, Overlap(op)).excused <=> w.excused \/ Overlap(op)
    BY <1>0, <2>1, <2>2, ExcusingEffect
  <2>5. ASSUME op = "upload", of \in Regular, StoredAs[of] \in stored, ~new.excused
        PROVE  Overlap(op)
    <3>1. excuses = {} /\ reads = {} /\ ~hasConflictingName(of)
      BY <2>1, <2>3, <2>5
    <3>2. kind = "attachments"
      BY <1>0, <2>3, <2>5 DEF Kind, OpsOf
    <3>3. StoredAs[of] \notin panel.list
      BY <2>5, <3>1 DEF hasConflictingName
    <3>4. ~(stored \subseteq panel.list)
      BY <2>5, <3>3
    <3> QED
      BY <2>5, <3>1, <3>2, <3>4 DEF UploadInv, NothingHidden, Overlap
  <2>6. ASSUME NEW v \in writes', v.op = "upload", v.of \in Regular, v.outcome = "open",
               StoredAs[v.of] \in stored'
        PROVE  v.excused
    <3>1. PICK w \in writes \cup {new} : v = Excusing(w, Overlap(op))
      BY <2>3
    <3>2. /\ w.op = "upload" /\ w.of \in Regular /\ w.outcome = "open" /\ StoredAs[w.of] \in stored
          /\ v.excused <=> w.excused \/ Overlap(op)
      BY <2>3, <2>4, <2>6, <3>1
    <3>3. CASE w \in writes
      BY <1>0, <3>2, <3>3
    <3>4. CASE w = new
      BY <2>1, <2>5, <3>2, <3>4
    <3> QED
      BY <3>3, <3>4
  <2> QED
    BY <2>6
<1>5. ASSUME NEW q \in Query \cup {None}, QueryStep(q)
      PROVE  ReplacesNothing'
  BY <1>1, <1>5 DEF QueryStep
<1>6. ASSUME NEW r \in reads, ServeReadStep(r)
      PROVE  ReplacesNothing'
  BY <1>1, <1>6 DEF ServeReadStep
<1>7. ASSUME NEW r \in reads, NEW found, ListStep(r, found)
      PROVE  ReplacesNothing'
  BY <1>1, <1>7 DEF ListStep
<1>8. ASSUME NEW w \in writes, NEW outcome \in {"done", "refused"}, ServeWriteStep(w, outcome)
      PROVE  ReplacesNothing'
  <2>1. /\ writes' = (writes \ {w}) \cup {Decided(w, outcome)}
        /\ Decided(w, outcome).outcome # "open"
        /\ w.op = "upload" => stored' \subseteq stored \cup {StoredAs[w.of]}
        /\ w.op \notin {"upload", "save"} => stored' \subseteq stored
    BY <1>8 DEF ServeWriteStep
  <2>2. ASSUME NEW v \in writes', v.op = "upload", v.of \in Regular, v.outcome = "open",
               StoredAs[v.of] \in stored'
        PROVE  v.excused
    <3>1. v \in writes /\ v # w
      BY <2>1, <2>2
    <3>2. CASE w.op = "upload"
      BY <2>2, <3>1, <3>2 DEF UploadInv, UploadsOverlap
    <3>3. CASE w.op # "upload"
      <4>1. w.op # "save"
        BY <1>0, <2>2, <3>1 DEF Kind, OpsOf
      <4>2. StoredAs[v.of] \in stored
        BY <2>1, <2>2, <3>3, <4>1
      <4> QED
        BY <1>0, <2>2, <3>1, <4>2
    <3> QED
      BY <3>2, <3>3
  <2> QED
    BY <2>2
<1>9. ASSUME NEW w \in writes, NEW ok \in BOOLEAN, AnswerStep(w, ok)
      PROVE  ReplacesNothing'
  BY <1>1, <1>9 DEF AnswerStep
<1>10. CASE UNCHANGED vars
  BY <1>1, <1>10 DEF vars
<1> QED
  BY <1>2, <1>3, <1>4, <1>5, <1>6, <1>7, <1>8, <1>9, <1>10, Steps

----------------------------------------------------------------------------
(* The theorems.                                                           *)

IInv == TypeInv /\ ControlInv /\ QueryInv /\ CurrentInv /\ UploadInv

\* The conjunction is inductive.
LEMMA InitInvariant == Init => IInv
<1> SUFFICES ASSUME Init
             PROVE  IInv
  OBVIOUS
<1>1. QueryInv
  BY InitPanel DEF QueryInv, Queried
<1>2. CurrentInv
  BY InitPanel DEF CurrentInv, Queried, Awaited, Kind
<1>3. UploadInv
  BY InitPanel DEF UploadInv, UploadsOverlap, NothingHidden, ReplacesNothing
<1> QED
  BY <1>1, <1>2, <1>3, InitType, InitControl DEF IInv

LEMMA StepInvariant == IInv /\ [Next]_vars => IInv'
<1> SUFFICES ASSUME IInv, [Next]_vars
             PROVE  IInv'
  OBVIOUS
<1>1. TypeInv /\ ControlInv /\ QueryInv /\ CurrentInv /\ UploadInv
  BY DEF IInv
<1>2. TypeInv' /\ ControlInv' /\ QueryInv' /\ CurrentInv'
  BY <1>1, StepType, StepControl, StepQuery, StepCurrent
<1>3. UploadInv'
  BY <1>1, StepOverlap, StepHidden, StepReplaces DEF UploadInv
<1> QED
  BY <1>2, <1>3 DEF IInv

\* What the four properties follow from: types, requests with their flags and
\* dialogs, what the list shows and what uploads are excused for, whatever the
\* order in which requests are served and answered.
THEOREM Invariance == Spec => []IInv
  BY InitInvariant, StepInvariant, PTL DEF Spec

\* Every variable stays within its type: panel, requests and history.
THEOREM TypeCorrect == Spec => []TypeOK
<1>1. IInv => TypeOK
  BY DEF IInv, TypeInv
<1> QED
  BY <1>1, Invariance, PTL

\* Once every answer has come, each of the six components shows what the backend
\* holds, and of what was asked for last, except where there is an excuse for it
\* (refreshAttachments, refreshVersions, loadTrash, loadAccounts, the search
\* with its requestSequence, the effect of the sidebar).
THEOREM ListsAreCurrent == Spec => []ListIsCurrent
<1>1. IInv => ListIsCurrent
  <2> SUFFICES ASSUME QueryInv, CurrentInv, reads = {}, writes = {}
               PROVE  /\ excuses = {} /\ (panel.query # None \/ kind \notin {"search", "sidebar"})
                         => panel.list = stored
                      /\ panel.list # {} /\ panel.query # None => panel.of = panel.query
    BY DEF IInv, ListIsCurrent, Settled
  <2>1. excuses = {} /\ (panel.query # None \/ kind \notin {"search", "sidebar"})
        => panel.list = stored
    BY DEF CurrentInv, Unheard, Queried
  <2>2. panel.list # {} /\ panel.query # None => panel.of = panel.query
    BY DEF QueryInv
  <2> QED
    BY <2>1, <2>2
<1> QED
  BY <1>1, Invariance, PTL

\* An upload that is stored over an attachment of its name had been agreed to, or
\* the list could not show that attachment (hasConflictingName and the overwrite
\* dialog of the attachments).
THEOREM UploadsReplaceNothingUnasked == Spec => NoSilentOverwrite
<1> DEFINE Replaced ==
              \A w \in writes :
                (/\ w.op = "upload" /\ w.of \in Regular /\ w.outcome = "open"
                 /\ StoredAs[w.of] \in stored
                 /\ [w EXCEPT !.outcome = "done"] \in writes')
                => w.excused
<1>1. IInv /\ [Next]_vars => [Replaced]_vars
  BY DEF IInv, UploadInv, ReplacesNothing
<1> QED
  BY <1>1, Invariance, PTL DEF Spec, NoSilentOverwrite

=============================================================================
