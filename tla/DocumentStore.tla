---------------------------- MODULE DocumentStore ---------------------------
(***************************************************************************)
(* The document store of a backend (backend/src/services/                  *)
(* document.service.ts) at the level of its file operations.  No lock is   *)
(* taken: the operations of concurrent requests interleave at every await. *)
(*                                                                         *)
(* A location is a sequence of directory names from "docs" or "trash".  A  *)
(* file operation is one action; the checks of permissions always succeed, *)
(* and a request that is refused before it changes a file is not started.  *)
(* Contents are numbers, each stored once.                                 *)
(***************************************************************************)
EXTENDS Naturals, SequencesExt

CONSTANTS
    Request,       \* slots for requests in progress
    Path,          \* the paths that clients ask for, sequences of names
    BeginsWith,    \* pairs of names, the first beginning with the second
    InitialDirs,   \* the possible initial directories
    NewContent,    \* the first content not in an initial directory
    Absent,        \* no file, or no _versions directory
    Damaged,       \* content that nobody stored
    MaxRequests,   \* bound: requests
    MaxNow,        \* bound: milliseconds
    MaxCrashes     \* bound: crashes of the backend

\* The name of a document; the root is called index in the trash.
Name == (UNION {Range(p) : p \in Path}) \cup {"index"}

Instant == 0 .. MaxNow

Content == Nat \cup {Damaged}

ASSUME DocumentStoreAssumption ==
    /\ Path \subseteq Seq(Name)
    /\ \A p \in Path : \A name \in Range(p) : <<name, name>> \in BeginsWith
    /\ Damaged \notin Nat /\ Absent \notin Content
    /\ \A named \in SUBSET Instant : Absent \notin [named -> Content]
    /\ {NewContent, MaxRequests, MaxCrashes} \subseteq Nat /\ MaxNow \in Nat \ {0}

\* Where a directory can be: "docs" or below, "trash", or in a trash entry, whose
\* name is made of the instant and the name of the document.
IsLocation(l) ==
    \/ l # <<>> /\ l = <<"docs">> \o Tail(l) /\ Tail(l) \in Seq(Name)
    \/ l = <<"trash">>
    \/ /\ Len(l) > 1
       /\ l = <<"trash", l[2]>> \o SubSeq(l, 3, Len(l))
       /\ l[2] \in Instant \X Name /\ SubSeq(l, 3, Len(l)) \in Seq(Name)

\* The files of a directory: content.md (torn once it has been truncated;
\* content is then what it held before), one attachment, of which only its
\* presence is kept, and _versions, whose files are named after instants.
Attached == 0

EmptyDir == [content |-> Absent, torn |-> FALSE, attachment |-> Absent, versions |-> Absent]

IsDirectory(d) ==
    /\ DOMAIN d = DOMAIN EmptyDir
    /\ d.content \in Content \cup {Absent} /\ d.torn \in BOOLEAN
    /\ d.attachment \in {Attached, Absent}
    /\ d.versions # Absent =>
          /\ DOMAIN d.versions \subseteq Instant
          /\ d.versions \in [DOMAIN d.versions -> Content]

\* Nothing has happened to the initial directories: what has is reached by
\* the actions.
ASSUME InitialDirsAssumption ==
    \A d \in InitialDirs :
        /\ {<<"docs">>, <<"trash">>} \subseteq DOMAIN d
        /\ \A l \in DOMAIN d :
              /\ IsLocation(l) /\ Prefixes(l) \ {<<>>} \subseteq DOMAIN d
              /\ IsDirectory(d[l]) /\ d[l].torn = FALSE
              /\ d[l].content \in (0 .. NewContent - 1) \cup {Absent}
              /\ d[l].versions # Absent => Damaged \notin Range(d[l].versions)

VARIABLES
    dirs,        \* dirs[l]: the files in the directory at l
    req,         \* req[r]: the request in slot r, or Idle
    now,         \* Date.now()
    issued,      \* requests so far, for MaxRequests
    crashes,     \* crashes so far, for MaxCrashes
    overlapped   \* history: a store has opened or copied what another was writing

vars == <<dirs, req, now, issued, crashes, overlapped>>

----------------------------------------------------------------------------
(* Directories.                                                            *)

Docs(path) == <<"docs">> \o path
Trash(ms, name) == <<"trash", <<ms, name>>>>
Basename(path) == IF path = <<>> THEN "index" ELSE Last(path)
Nowhere == <<>>

Exists(l) == l \in DOMAIN dirs
HasFile(l) == Exists(l) /\ (dirs[l].content # Absent \/ dirs[l].torn)

IsEmpty(l) == dirs[l] = EmptyDir /\ \A m \in DOMAIN dirs : ~IsStrictPrefix(l, m)

\* mkdir(l, { recursive: true })
WithDir(l) == [m \in DOMAIN dirs \cup (Prefixes(l) \ {<<>>}) |->
                 IF Exists(m) THEN dirs[m] ELSE EmptyDir]

With(l, field, value) == [dirs EXCEPT ![l] = [@ EXCEPT ![field] = value]]

Relocated(l, src, dst) ==
    IF IsPrefix(src, l) THEN dst \o SubSeq(l, Len(src) + 1, Len(l)) ELSE l

\* rename(src, dst) of a directory: dst must not exist, or be empty.
CanRename(src, dst) ==
    /\ Exists(src) /\ Exists(Front(dst)) /\ ~IsStrictPrefix(src, dst)
    /\ Exists(dst) /\ dst # src => IsEmpty(dst)

Renamed(src, dst) ==
    LET kept == (DOMAIN dirs \ {dst}) \cup {src}
        origin(m) == CHOOSE l \in kept : Relocated(l, src, dst) = m
    IN  [m \in {Relocated(l, src, dst) : l \in kept} |-> dirs[origin(m)]]

\* The version names of a directory; without _versions there are none.
VersionsOf(d) == IF d.versions = Absent THEN <<>> ELSE d.versions

WithVersion(versions, ms, content) ==
    [m \in DOMAIN versions \cup {ms} |-> IF m = ms THEN content ELSE versions[m]]

\* The contents that are kept as versions, in any directory of d.
Versioned(d) == UNION {Range(VersionsOf(d[l])) : l \in DOMAIN d}

----------------------------------------------------------------------------
(* Requests.                                                               *)

Kind == {"store", "move", "remove", "removeAlone", "recover", "purge",
         "upload", "detach", "retrieve", "tree", "trash"}

\* at is the file operation that comes next; src and dst are locations (dst
\* is the open file of a store that writes); entries are those that
\* removeAlone has listed; listed are the directories whose metadata is still
\* to be read, with what comes next, "check" or "read"; alone: no other request
\* has changed a file since this one began; seen: the content a store last
\* looked at, as long as some version of it is kept (both history).
Idle == [kind |-> "idle", at |-> "end", src |-> Nowhere, dst |-> Nowhere, ms |-> 0,
         versioning |-> FALSE, seen |-> Absent, entries |-> {}, listed |-> {}, id |-> 0,
         alone |-> TRUE]

New(kind, at, src, dst) ==
    [Idle EXCEPT !.kind = kind, !.at = at, !.src = src, !.dst = dst, !.ms = now,
                 !.id = NewContent + issued]

Begin(r, q) ==
    /\ req[r] = Idle /\ issued < MaxRequests
    /\ issued' = issued + 1
    /\ req' = [req EXCEPT ![r] = q]
    /\ UNCHANGED <<dirs, now, crashes, overlapped>>

\* What a store has seen, once the directories are newDirs.
StillSeen(seen, newDirs) ==
    IF seen \in Versioned(dirs) \ Versioned(newDirs) THEN Absent ELSE seen

\* What another request makes of q that makes of the directories newDirs.
Beside(q, newDirs, dst) ==
    IF q = Idle THEN Idle
    ELSE [q EXCEPT !.alone = @ /\ newDirs = dirs, !.seen = StillSeen(@, newDirs), !.dst = dst]

\* r does an operation that changes files and goes on as q; files that other
\* requests have open are afterwards at Where(l).
Change(r, q, newDirs, Where(_)) ==
    /\ dirs' = newDirs
    /\ req' = [x \in Request |->
                 IF x = r THEN q
                 ELSE Beside(req[x], newDirs,
                             IF req[x].at = "write" THEN Where(req[x].dst) ELSE req[x].dst)]
    /\ UNCHANGED <<now, issued, crashes>>

Here(l) == l

\* r does an operation that changes no file.
Look(r, q) ==
    /\ req' = [req EXCEPT ![r] = q]
    /\ UNCHANGED <<dirs, now, issued, crashes, overlapped>>

At(r, kind, at) == req[r].kind = kind /\ req[r].at = at
Going(r, at) == [req[r] EXCEPT !.at = at]

Writing(x, l) == req[x].at = "write" /\ req[x].dst = l

\* Another request has content.md of l open for writing.
OpenElsewhere(r, l) == \E x \in Request \ {r} : Writing(x, l)

TypeOK ==
    /\ now \in 1..MaxNow /\ issued \in 0..MaxRequests
    /\ crashes \in 0..MaxCrashes /\ overlapped \in BOOLEAN
    /\ \A l \in DOMAIN dirs :
          /\ Len(l) > 1 => Front(l) \in DOMAIN dirs
          /\ IsDirectory(dirs[l])
    /\ \A r \in Request :
          /\ req[r] = Idle \/ req[r].kind \in Kind
          /\ req[r].alone \in BOOLEAN /\ req[r].id \in Nat
          /\ req[r].entries \subseteq {"content", "attachment", "versions"}
          /\ \A e \in req[r].listed : e[2] \in {"check", "read"}

Init ==
    /\ dirs \in InitialDirs
    /\ req = [r \in Request |-> Idle]
    /\ now = 1 /\ issued = 0 /\ crashes = 0 /\ overlapped = FALSE

----------------------------------------------------------------------------
(* Beginnings: the checks of a request and its first look at the files.    *)

\* startsWith compares strings, so /foobar counts as inside /foo.
StartsWith(q, p) ==
    /\ p # <<>> /\ Len(q) >= Len(p)
    /\ IsPrefix(Front(p), q)
    /\ <<q[Len(p)], Last(p)>> \in BeginsWith

TrashEntries == {l \in DOMAIN dirs : Len(l) = 2 /\ Head(l) = "trash"}

BeginStore(r) ==
    \E p \in Path, versioning \in BOOLEAN :
        Begin(r, [New("store", "mkdir", Docs(p), Nowhere) EXCEPT !.versioning = versioning])

BeginMove(r) ==
    \E p \in Path \ {<<>>}, q \in Path :
        /\ ~StartsWith(q, p) /\ Exists(Docs(p))
        /\ Begin(r, New("move", "mkdir", Docs(p), Append(Docs(q), Last(p))))

BeginRemove(r) ==
    \E p \in Path \ {<<>>} :
        /\ Exists(Docs(p))
        /\ Begin(r, New("remove", "rename", Docs(p), Trash(now, Basename(p))))

\* As the import of a synchronization removes: the root too, not the children.
BeginRemoveAlone(r) ==
    \E p \in Path :
        /\ Exists(Docs(p))
        /\ Begin(r, New("removeAlone", "mkdir", Docs(p), Trash(now, Basename(p))))

BeginRecover(r) ==
    \E t \in TrashEntries, q \in Path :
        Begin(r, New("recover", "look", t, Append(Docs(q), t[2][2])))

BeginPurge(r) ==
    \E t \in TrashEntries : Begin(r, New("purge", "find", t, Nowhere))

BeginUpload(r) ==
    \E p \in Path :
        /\ HasFile(Docs(p))
        /\ Begin(r, New("upload", "write", Docs(p), Nowhere))

BeginDetach(r) ==
    \E p \in Path :
        /\ HasFile(Docs(p)) /\ dirs[Docs(p)].attachment # Absent
        /\ Begin(r, New("detach", "unlink", Docs(p), Nowhere))

\* checkIfDocumentExists has found the document.
BeginRetrieve(r) ==
    \E p \in Path :
        /\ HasFile(Docs(p))
        /\ Begin(r, [New("retrieve", "metadata", Docs(p), Nowhere)
                       EXCEPT !.listed = {<<Docs(p), "check">>}])

\* tree reads the metadata of its directory along with that of the children.
BeginTree(r) ==
    \E p \in Path :
        /\ Exists(Docs(p))
        /\ Begin(r, [New("tree", "list", Docs(p), Nowhere)
                       EXCEPT !.listed = {<<Docs(p), "check">>}])

BeginListTrash(r) == Begin(r, New("trash", "list", <<"trash">>, Nowhere))

----------------------------------------------------------------------------
(* Store.                                                                  *)

StoreMkdir(r) ==
    /\ At(r, "store", "mkdir")
    /\ Change(r, Going(r, "look"), WithDir(req[r].src), Here)
    /\ UNCHANGED overlapped

WholeContent(l) == IF HasFile(l) /\ ~dirs[l].torn THEN dirs[l].content ELSE Absent

\* Faulty variant: only documents that already have versions get one.
StoreLookForVersions(r) ==
    LET l == req[r].src IN
    /\ At(r, "store", "look")
    /\ Look(r, [req[r] EXCEPT
                  !.at = IF /\ req[r].versioning /\ HasFile(l)
                            /\ dirs[l].versions # Absent
                         THEN "mkdirVersions" ELSE "open",
                  !.ms = now, !.seen = WholeContent(l)])

\* A document that is there is versioned, under the current instant.
StoreLook(r) ==
    LET l == req[r].src IN
    /\ At(r, "store", "look")
    /\ Look(r, [req[r] EXCEPT
                  !.at = IF req[r].versioning /\ HasFile(l) THEN "mkdirVersions" ELSE "open",
                  !.ms = now, !.seen = WholeContent(l)])

\* mkdir of _versions is recursive too: it can bring a removed directory back.
StoreMkdirVersions(r) ==
    LET l == req[r].src
        made == WithDir(l)
    IN  /\ At(r, "store", "mkdirVersions")
        /\ Change(r, Going(r, "copy"),
                  [made EXCEPT ![l] = [@ EXCEPT !.versions = VersionsOf(made[l])]], Here)
        /\ UNCHANGED overlapped

\* Faulty variant: a document that has gone is copied as an empty one.
CanCopyNothing(l) == Exists(l) /\ dirs[l].versions # Absent

CanCopy(l) == HasFile(l) /\ dirs[l].versions # Absent

StoreCopy(r) ==
    LET l == req[r].src
        copied == IF dirs[l].torn THEN Damaged ELSE dirs[l].content
    IN  /\ At(r, "store", "copy") /\ CanCopy(l)
        /\ Change(r, [Going(r, "open") EXCEPT !.seen = WholeContent(l)],
                  With(l, "versions", WithVersion(VersionsOf(dirs[l]), req[r].ms, copied)), Here)
        /\ overlapped' = (overlapped \/ OpenElsewhere(r, l))

\* What a store that is under way replaces (history): the file, or what it
\* held before the stores that have it open truncated it.
Visible(l) ==
    IF dirs[l].torn /\ ~\E r \in Request : Writing(r, l) THEN Damaged ELSE dirs[l].content

Truncated(l) == [dirs EXCEPT ![l] = [@ EXCEPT !.content = Visible(l), !.torn = TRUE]]

\* Faulty variant: the answer is sent when the file is open.
StoreOpenOnly(r) ==
    LET l == req[r].src IN
    /\ At(r, "store", "open") /\ Exists(l)
    /\ Change(r, Idle, Truncated(l), Here)
    /\ overlapped' = (overlapped \/ OpenElsewhere(r, l))

\* writeFile opens: the file exists and is empty.
StoreOpen(r) ==
    LET l == req[r].src IN
    /\ At(r, "store", "open") /\ Exists(l)
    /\ Change(r, [Going(r, "write") EXCEPT !.dst = l], Truncated(l), Here)
    /\ overlapped' = (overlapped \/ OpenElsewhere(r, l))

\* ... and writes from the start of the file.  If another store has written
\* to it since, what was longer than the new text stays behind it.
StoreWrite(r) ==
    LET l == req[r].dst IN
    /\ At(r, "store", "write")
    /\ \E c \in {req[r].id, Damaged} :
          /\ c = Damaged => Exists(l) /\ ~dirs[l].torn
          /\ Change(r, Idle,
                    IF Exists(l)
                    THEN [dirs EXCEPT ![l] = [@ EXCEPT !.content = c, !.torn = FALSE]]
                    ELSE dirs, Here)
    /\ UNCHANGED overlapped

----------------------------------------------------------------------------
(* Move, removal, recovery.                                                *)

\* Move and recovery make the directory above the destination.
Mkdir(r) ==
    /\ req[r].kind \in {"move", "recover"} /\ req[r].at = "mkdir"
    /\ Change(r, Going(r, "rename"), WithDir(Front(req[r].dst)), Here)
    /\ UNCHANGED overlapped

Rename(r) ==
    LET src == req[r].src
        dst == req[r].dst
    IN  /\ req[r].at = "rename" /\ CanRename(src, dst)
        /\ Change(r, Idle, Renamed(src, dst), LAMBDA l : Relocated(l, src, dst))
        /\ UNCHANGED overlapped

\* Faulty variant: the directory above the destination is taken for granted.
RecoverLookOnly(r) ==
    /\ At(r, "recover", "look")
    /\ Look(r, IF Exists(req[r].dst) THEN Idle ELSE Going(r, "rename"))

\* A recovery is refused when its destination exists.
RecoverLook(r) ==
    /\ At(r, "recover", "look")
    /\ Look(r, IF Exists(req[r].dst) THEN Idle ELSE Going(r, "mkdir"))

RemoveAloneMkdir(r) ==
    /\ At(r, "removeAlone", "mkdir") /\ ~Exists(req[r].dst)
    /\ Change(r, Going(r, "list"), WithDir(req[r].dst), Here)
    /\ UNCHANGED overlapped

EntriesOf(l) ==
    {e \in {"content", "attachment", "versions"} :
        CASE e = "content"    -> HasFile(l)
          [] e = "attachment" -> dirs[l].attachment # Absent
          [] e = "versions"   -> dirs[l].versions # Absent}

RemoveAloneList(r) ==
    /\ At(r, "removeAlone", "list") /\ Exists(req[r].src)
    /\ Look(r, IF EntriesOf(req[r].src) = {} THEN Idle
               ELSE [Going(r, "entries") EXCEPT !.entries = EntriesOf(req[r].src)])

\* A file replaces one of its name; _versions only replaces an empty directory.
CanMoveEntry(e, src, dst) ==
    /\ Exists(src) /\ e \in EntriesOf(src) /\ Exists(dst)
    /\ e = "versions" => DOMAIN VersionsOf(dirs[dst]) = {}

\* Faulty variant: the files are copied.
EntryCopied(e, src, dst) ==
    CASE e = "content" ->
           [dirs EXCEPT ![dst] = [@ EXCEPT !.content = dirs[src].content, !.torn = dirs[src].torn]]
      [] OTHER -> [dirs EXCEPT ![dst] = [@ EXCEPT ![e] = dirs[src][e]]]

\* The directories after one entry of src has been renamed into dst.
EntryMoved(e, src, dst) ==
    CASE e = "content" ->
           [dirs EXCEPT ![dst] = [@ EXCEPT !.content = dirs[src].content, !.torn = dirs[src].torn],
                        ![src] = [@ EXCEPT !.content = Absent, !.torn = FALSE]]
      [] OTHER ->
           [dirs EXCEPT ![dst] = [@ EXCEPT ![e] = dirs[src][e]],
                        ![src] = [@ EXCEPT ![e] = Absent]]

RemoveAloneEntry(r) ==
    LET src == req[r].src
        dst == req[r].dst
        left(e) == req[r].entries \ {e}
    IN  /\ At(r, "removeAlone", "entries")
        /\ \E e \in req[r].entries :
              /\ CanMoveEntry(e, src, dst)
              /\ Change(r, IF left(e) = {} THEN Idle ELSE [req[r] EXCEPT !.entries = left(e)],
                        EntryMoved(e, src, dst),
                        LAMBDA l : IF e # "content" THEN l
                                   ELSE IF l = src THEN dst
                                   ELSE IF l = dst THEN Nowhere ELSE l)
        /\ UNCHANGED overlapped

----------------------------------------------------------------------------
(* Deletion for good, attachments, reading.                                *)

\* rm fails without the entry it is given ...
PurgeFind(r) ==
    /\ At(r, "purge", "find") /\ Exists(req[r].src)
    /\ Look(r, Going(r, "rm"))

\* ... then goes through it from the leaves up and ignores what has gone.
PurgeOne(r) ==
    /\ At(r, "purge", "rm")
    /\ \E l \in DOMAIN dirs :
          /\ IsPrefix(req[r].src, l)
          /\ \A m \in DOMAIN dirs : ~IsStrictPrefix(l, m)
          /\ Change(r, IF l = req[r].src THEN Idle ELSE req[r],
                    Restrict(dirs, DOMAIN dirs \ {l}),
                    LAMBDA m : IF m = l THEN Nowhere ELSE m)
    /\ UNCHANGED overlapped

PurgeEnds(r) ==
    /\ At(r, "purge", "rm") /\ ~Exists(req[r].src)
    /\ Look(r, Idle)

\* A single file operation.
RemoveVersion(r) ==
    \E p \in Path :
        LET l == Docs(p)
            versions == VersionsOf(dirs[l])
        IN
        /\ req[r] = Idle /\ issued < MaxRequests
        /\ Exists(l)
        /\ \E ms \in DOMAIN versions :
              /\ dirs' = With(l, "versions", Restrict(versions, DOMAIN versions \ {ms}))
              /\ req' = [x \in Request |-> Beside(req[x], dirs', req[x].dst)]
        /\ issued' = issued + 1
        /\ UNCHANGED <<now, crashes, overlapped>>

\* The file is there once writeFile has opened it.
Upload(r) ==
    /\ At(r, "upload", "write") /\ Exists(req[r].src)
    /\ Change(r, Idle, With(req[r].src, "attachment", Attached), Here)
    /\ UNCHANGED overlapped

HasAttachment(l) == Exists(l) /\ dirs[l].attachment # Absent

Detach(r) ==
    /\ At(r, "detach", "unlink") /\ HasAttachment(req[r].src)
    /\ Change(r, Idle, With(req[r].src, "attachment", Absent), Here)
    /\ UNCHANGED overlapped

Children(l) == {m \in DOMAIN dirs : Len(m) = Len(l) + 1 /\ Front(m) = l}

\* What follows once nothing listed is left to be read.
Described(q) ==
    CASE q.listed # {} \/ q.at \notin {"metadata", "describe"} -> q
      [] q.listed = {} /\ q.at = "metadata" -> [q EXCEPT !.at = "list"]
      [] q.listed = {} /\ q.at = "describe" ->
            IF q.kind = "retrieve" THEN [q EXCEPT !.at = "attachments"] ELSE Idle

\* readdir of the children, or of the trash.
List(r) ==
    LET q == req[r] IN
    /\ req[r].kind \in {"retrieve", "tree", "trash"} /\ req[r].at = "list" /\ Exists(q.src)
    /\ Look(r, Described([q EXCEPT !.at = "describe",
                                   !.listed = @ \cup {<<l, "check">> : l \in Children(q.src)}]))

\* buildDocumentMetadata: a directory whose document is found has its front
\* matter read.  The metadata of several directories is read concurrently.
Describe(r) ==
    LET q == req[r] IN
    \E e \in q.listed :
        LET rest == q.listed \ {e} IN
        \/ /\ e[2] = "check"
           /\ Look(r, Described([q EXCEPT !.listed = IF HasFile(e[1]) THEN rest \cup {<<e[1], "read">>}
                                                     ELSE rest]))
        \/ /\ e[2] = "read" /\ HasFile(e[1])
           /\ Look(r, Described([q EXCEPT !.listed = rest]))

RetrieveAttachments(r) ==
    /\ At(r, "retrieve", "attachments") /\ Exists(req[r].src)
    /\ Look(r, Going(r, "versions"))

\* Without a directory of versions there are none.
RetrieveVersions(r) ==
    /\ At(r, "retrieve", "versions")
    /\ Look(r, Going(r, "read"))

RetrieveRead(r) ==
    /\ At(r, "retrieve", "read") /\ HasFile(req[r].src)
    /\ Look(r, Idle)

----------------------------------------------------------------------------
(* Failures, time, crashes.                                                *)

\* The next file operation of r has an error.
Failing(r) ==
    LET src == req[r].src
        dst == req[r].dst
    IN  \/ At(r, "store", "copy") /\ ~CanCopy(src)
        \/ At(r, "store", "open") /\ ~Exists(src)
        \/ req[r].at = "rename" /\ ~CanRename(src, dst)
        \/ At(r, "removeAlone", "mkdir") /\ Exists(dst)
        \/ \E e \in req[r].entries : ~CanMoveEntry(e, src, dst)
        \/ At(r, "purge", "find") /\ ~Exists(src)
        \/ At(r, "upload", "write") /\ ~Exists(src)
        \/ At(r, "detach", "unlink") /\ ~HasAttachment(src)
        \/ req[r].at = "list" /\ ~Exists(src)
        \/ \E e \in req[r].listed : e[2] = "read" /\ ~HasFile(e[1])
        \/ At(r, "retrieve", "attachments") /\ ~Exists(src)
        \/ At(r, "retrieve", "read") /\ ~HasFile(src)

\* handleFsError: an answer 500, and what has been done stays done.
Fail(r) == Failing(r) /\ Look(r, Idle)

Tick ==
    /\ now < MaxNow
    /\ now' = now + 1
    /\ UNCHANGED <<dirs, req, issued, crashes, overlapped>>

\* The directories when the copies of versions by these requests are cut off.
CutOff(copying) ==
    LET cut(l) == {req[r].ms : r \in {x \in copying : req[x].src = l}}
        versions(l) == VersionsOf(dirs[l])
    IN  [l \in DOMAIN dirs |->
           IF cut(l) = {} THEN dirs[l]
           ELSE [dirs[l] EXCEPT !.versions =
                    [ms \in DOMAIN versions(l) \cup cut(l) |->
                       IF ms \in cut(l) THEN Damaged ELSE versions(l)[ms]]]]

Copying == {r \in Request : At(r, "store", "copy") /\ CanCopy(req[r].src)}

\* The backend stops and is started again; a version being copied can be cut off.
Crash ==
    /\ crashes < MaxCrashes
    /\ crashes' = crashes + 1
    /\ \E copying \in SUBSET Copying : dirs' = CutOff(copying)
    /\ req' = [r \in Request |-> Idle]
    /\ UNCHANGED <<now, issued, overlapped>>

StoreStep(r) ==
    \/ StoreMkdir(r) \/ StoreLook(r) \/ StoreMkdirVersions(r)
    \/ StoreCopy(r) \/ StoreOpen(r) \/ StoreWrite(r)

Step(r) ==
    \/ BeginStore(r) \/ BeginMove(r) \/ BeginRemove(r) \/ BeginRemoveAlone(r)
    \/ BeginRecover(r) \/ BeginPurge(r) \/ BeginUpload(r) \/ BeginDetach(r) \/ BeginRetrieve(r)
    \/ BeginTree(r) \/ BeginListTrash(r)
    \/ StoreStep(r)
    \/ Mkdir(r) \/ Rename(r) \/ RecoverLook(r)
    \/ RemoveAloneMkdir(r) \/ RemoveAloneList(r) \/ RemoveAloneEntry(r)
    \/ PurgeFind(r) \/ PurgeOne(r) \/ PurgeEnds(r) \/ RemoveVersion(r)
    \/ Upload(r) \/ Detach(r)
    \/ List(r) \/ Describe(r) \/ RetrieveAttachments(r) \/ RetrieveVersions(r) \/ RetrieveRead(r)
    \/ Fail(r)

Next == (\E r \in Request : Step(r)) \/ Tick \/ Crash

Spec == Init /\ [][Next]_vars

----------------------------------------------------------------------------
(* Properties.                                                             *)

Contents(l) ==
    ((IF dirs[l].torn THEN {} ELSE {dirs[l].content}) \cup Range(VersionsOf(dirs[l])))
        \ {Absent, Damaged}

Held == UNION {Contents(l) : l \in DOMAIN dirs}

HeldBelow(src) == UNION {Contents(l) : l \in {m \in DOMAIN dirs : IsPrefix(src, m)}}

\* Whatever the interleaving, content leaves the tree, its versions and the
\* trash only where somebody asks for it: the removal of a trash entry or of
\* a version, a store without versioning, a store over content that it has
\* not looked at because it came in between, or two stores that write to the
\* file at once; or because two things are named after the same millisecond,
\* versions or trash entries.  In particular a
\* versioned store keeps what it replaces, even if the backend then crashes.
ContentKept ==
    [][\A c \in Held \ Held' : \E r \in Request :
          \/ PurgeOne(r) /\ c \in HeldBelow(req[r].src)
          \/ RemoveVersion(r)
          \/ StoreOpen(r) /\ (~req[r].versioning \/ req[r].seen # c)
          \/ StoreWrite(r) /\ overlapped
          \/ /\ StoreCopy(r) \/ (Crash /\ r \in Copying)
             /\ req[r].ms \in DOMAIN VersionsOf(dirs[req[r].src])
          \/ RemoveAloneEntry(r) /\ c \in HeldBelow(req[r].dst)]_vars

\* Nobody finds a truncated or a mixed file unless a store of it is under
\* way, the backend crashed during one, or two stores of it overlapped.
DamageHasCause ==
    \A l \in DOMAIN dirs :
        /\ dirs[l].torn => crashes > 0 \/ \E r \in Request : Writing(r, l)
        /\ Damaged \in {dirs[l].content} \cup Range(VersionsOf(dirs[l]))
             => crashes > 0 \/ overlapped

\* A request that nobody disturbs does not fail half-way (answer 500), except
\* when the destination of a move is taken, which is only noticed by the
\* rename, or the name of a trash entry is, within the same millisecond.
AloneNeverFails ==
    \A r \in Request :
        req[r].alone /\ Failing(r) =>
            \/ req[r].kind \in {"move", "remove"} /\ Exists(req[r].dst)
            \/ At(r, "removeAlone", "mkdir")

DocsOf == [l \in {m \in DOMAIN dirs : HasFile(m) /\ Visible(m) # Absent} |-> Visible(l)]

Tree == INSTANCE DocumentTree WITH
            docs <- DocsOf,
            InitialDocs <- {[l \in {m \in DOMAIN d : d[m].content # Absent} |-> d[l].content]
                             : d \in InitialDirs}

\* The store implements the atomic tree: whatever overlaps, readers see
\* subtrees move whole and documents appear whole or damaged; nothing is
\* merged, duplicated or left behind.
AtomicTree == Tree!Spec

============================================================================
