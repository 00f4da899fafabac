------------------------ MODULE DocumentStoreProofs -------------------------
(***************************************************************************)
(* Proofs about the document store, for any number of requests, paths,     *)
(* initial directories and crashes: the properties of the run              *)
(* DocumentStore other than TypeOK, and the refinement of DocumentTree.    *)
(*                                                                         *)
(* 1. Most steps leave content.md of every directory alone (Quiet), or     *)
(*    carry it along with those who have it open (Carried); three steps of *)
(*    a store are left (QuietCases).  DamageInv, on files and those who    *)
(*    write them, gives DamageNeedsCause.                                  *)
(* 2. Content is lost only where somebody asks for it (NothingIsLost): a   *)
(*    store that is about to open has seen nothing, or what is still kept  *)
(*    as a version (SeenInv).                                              *)
(* 3. A request that nobody disturbs finds what it relies on at its next   *)
(*    operation (AloneInv, Relies), and does not fail half-way.            *)
(* 4. What a store writes is in no file until then (FreshInv), and every   *)
(*    step is one of the atomic tree, or none of it is seen                *)
(*    (StoreIsAtomic).                                                     *)
(***************************************************************************)
EXTENDS DocumentStoreTypes

----------------------------------------------------------------------------
(* The inductive invariants.                                               *)

\* An open file that has not been removed is there.
WritersInv ==
    \A x \in Request : req[x].at = "write" => req[x].dst = Nowhere \/ HasFile(req[x].dst)

\* A truncated file is being written, or was when the backend crashed.
TornInv == \A l \in DOMAIN dirs : dirs[l].torn => crashes > 0 \/ \E x \in Request : Writing(x, l)

\* A file that is open is truncated, and one request has it open.
ExclusiveInv ==
    overlapped \/ \A x \in Request, l \in DOMAIN dirs :
        Writing(x, l) => dirs[l].torn /\ \A y \in Request : Writing(y, l) => y = x

\* Nothing that is kept is a mixture.
UndamagedInv ==
    \A l \in DOMAIN dirs :
        Damaged \in {dirs[l].content} \cup Range(VersionsOf(dirs[l])) => crashes > 0 \/ overlapped

\* What a versioned store has seen when it opens the file is kept as a version.
SeenInv ==
    \A x \in Request :
        /\ req[x].kind = "store" /\ req[x].at = "open" /\ req[x].versioning
        /\ req[x].seen # Absent
        => req[x].seen \in Versioned(dirs)

\* Identities are the contents that stores write: they are of one request each,
\* and in no file yet.
FreshInv ==
    /\ \A x \in Request : req[x] # Idle =>
          /\ req[x].id < NewContent + issued
          /\ \A l \in DOMAIN dirs : dirs[l].content # req[x].id
          /\ \A y \in Request : req[y] # Idle /\ req[y].id = req[x].id => y = x
    /\ \A l \in DOMAIN dirs : dirs[l].content \in Nat => dirs[l].content < NewContent + issued

\* What a request q relies on: what it has found or made, which its next
\* operations need.
Relies(q) ==
    /\ q.kind = "store" =>
          /\ q.at \in {"look", "mkdirVersions", "copy", "open"} => Exists(q.src)
          /\ q.at \in {"mkdirVersions", "copy"} => HasFile(q.src)
          /\ q.at = "copy" => dirs[q.src].versions # Absent
    /\ q.kind \in {"move", "recover", "remove"} => Exists(q.src)
    /\ q.kind = "recover" /\ q.at \in {"mkdir", "rename"} => ~Exists(q.dst)
    /\ q.kind \in {"move", "recover"} /\ q.at = "rename" => Exists(Front(q.dst))
    /\ q.kind = "removeAlone" =>
          /\ Exists(q.src)
          /\ q.at # "entries" => q.entries = {}
          /\ q.at = "list" => Exists(q.dst) /\ dirs[q.dst] = EmptyDir
          /\ q.at = "entries" =>
                /\ Exists(q.dst) /\ q.entries \subseteq EntriesOf(q.src)
                /\ "versions" \in q.entries => dirs[q.dst].versions = Absent
    /\ q.kind = "purge" /\ q.at = "find" => Exists(q.src)
    /\ q.kind = "upload" => Exists(q.src)
    /\ q.kind = "detach" => HasAttachment(q.src)
    /\ q.kind = "tree" => Exists(q.src)
    /\ q.kind = "retrieve" => HasFile(q.src)
    /\ \A e \in q.listed : e[2] = "read" => HasFile(e[1])

\* It is there as long as nobody else has changed a file.
AloneInv == \A x \in Request : req[x].alone => Relies(req[x])

----------------------------------------------------------------------------
(* What a request relies on when it begins.                                *)

\* q is a request that begins now.
Begun(q) ==
    /\ q.kind \in Kind /\ q.id = NewContent + issued
    /\ q.at # "write" \/ q.dst = Nowhere
    /\ q.kind = "store" => q.at = "mkdir"
    /\ Relies(q)

LEMMA BeginIsBegun ==
    ASSUME TypeInv, NEW r \in Request, Beginning(r)
    PROVE  \E q : Begin(r, q) /\ Begun(q)
<1>1. CASE BeginStore(r)
  <2>1. PICK p \in Path, versioning \in BOOLEAN :
            Begin(r, [New("store", "mkdir", Docs(p), Nowhere) EXCEPT !.versioning = versioning])
    BY <1>1 DEF BeginStore
  <2> PICK n : n = New("store", "mkdir", Docs(p), Nowhere)
    OBVIOUS
  <2> PICK q : q = [n EXCEPT !.versioning = versioning]
    OBVIOUS
  <2>2. q.kind = "store" /\ q.at = "mkdir" /\ q.listed = {} /\ q.id = NewContent + issued
    BY IdleFields DEF New
  <2>3. Begun(q)
    BY <2>2 DEF Begun, Relies, Kind
  <2>4. QED
    BY <2>1, <2>3
<1>2. CASE BeginMove(r)
  <2>1. PICK p, dst : p \in Path /\ Exists(Docs(p)) /\ Begin(r, New("move", "mkdir", Docs(p), dst))
    BY <1>2 DEF BeginMove
  <2> PICK q : q = New("move", "mkdir", Docs(p), dst)
    OBVIOUS
  <2>2. /\ q.kind = "move" /\ q.at = "mkdir" /\ q.src = Docs(p) /\ q.listed = {}
        /\ q.id = NewContent + issued
    BY IdleFields DEF New
  <2>3. Begun(q)
    BY <2>1, <2>2 DEF Begun, Relies, Kind
  <2>4. QED
    BY <2>1, <2>3
<1>3. CASE BeginRemove(r)
  <2>1. PICK p, dst : p \in Path /\ Exists(Docs(p)) /\ Begin(r, New("remove", "rename", Docs(p), dst))
    BY <1>3 DEF BeginRemove
  <2> PICK q : q = New("remove", "rename", Docs(p), dst)
    OBVIOUS
  <2>2. /\ q.kind = "remove" /\ q.at = "rename" /\ q.src = Docs(p) /\ q.listed = {}
        /\ q.id = NewContent + issued
    BY IdleFields DEF New
  <2>3. Begun(q)
    BY <2>1, <2>2 DEF Begun, Relies, Kind
  <2>4. QED
    BY <2>1, <2>3
<1>4. CASE BeginRemoveAlone(r)
  <2>1. PICK p, dst : p \in Path /\ Exists(Docs(p)) /\ Begin(r, New("removeAlone", "mkdir", Docs(p), dst))
    BY <1>4 DEF BeginRemoveAlone
  <2> PICK q : q = New("removeAlone", "mkdir", Docs(p), dst)
    OBVIOUS
  <2>2. /\ q.kind = "removeAlone" /\ q.at = "mkdir" /\ q.src = Docs(p) /\ q.listed = {}
        /\ q.id = NewContent + issued /\ q.entries = {}
    BY IdleFields DEF New
  <2>3. Begun(q)
    BY <2>1, <2>2 DEF Begun, Relies, Kind
  <2>4. QED
    BY <2>1, <2>3
<1>5. CASE BeginRecover(r)
  <2>1. PICK t, dst : t \in DOMAIN dirs /\ Begin(r, New("recover", "look", t, dst))
    BY <1>5 DEF BeginRecover, TrashEntries
  <2> PICK q : q = New("recover", "look", t, dst)
    OBVIOUS
  <2>2. /\ q.kind = "recover" /\ q.at = "look" /\ q.src = t /\ q.listed = {}
        /\ q.id = NewContent + issued
    BY IdleFields DEF New
  <2>3. Begun(q)
    BY <2>1, <2>2 DEF Begun, Relies, Kind, Exists
  <2>4. QED
    BY <2>1, <2>3
<1>6. CASE BeginPurge(r)
  <2>1. PICK t : t \in DOMAIN dirs /\ Begin(r, New("purge", "find", t, Nowhere))
    BY <1>6 DEF BeginPurge, TrashEntries
  <2> PICK q : q = New("purge", "find", t, Nowhere)
    OBVIOUS
  <2>2. /\ q.kind = "purge" /\ q.at = "find" /\ q.src = t /\ q.listed = {}
        /\ q.id = NewContent + issued
    BY IdleFields DEF New
  <2>3. Begun(q)
    BY <2>1, <2>2 DEF Begun, Relies, Kind, Exists
  <2>4. QED
    BY <2>1, <2>3
<1>7. CASE BeginUpload(r)
  <2>1. PICK p \in Path : HasFile(Docs(p)) /\ Begin(r, New("upload", "write", Docs(p), Nowhere))
    BY <1>7 DEF BeginUpload
  <2> PICK q : q = New("upload", "write", Docs(p), Nowhere)
    OBVIOUS
  <2>2. /\ q.kind = "upload" /\ q.src = Docs(p) /\ q.dst = Nowhere /\ q.listed = {}
        /\ q.id = NewContent + issued
    BY IdleFields DEF New
  <2>3. Begun(q)
    BY <2>1, <2>2 DEF Begun, Relies, Kind, HasFile
  <2>4. QED
    BY <2>1, <2>3
<1>8. CASE BeginDetach(r)
  <2>1. PICK p \in Path : /\ HasFile(Docs(p)) /\ dirs[Docs(p)].attachment # Absent
                          /\ Begin(r, New("detach", "unlink", Docs(p), Nowhere))
    BY <1>8 DEF BeginDetach
  <2> PICK q : q = New("detach", "unlink", Docs(p), Nowhere)
    OBVIOUS
  <2>2. /\ q.kind = "detach" /\ q.at = "unlink" /\ q.src = Docs(p) /\ q.listed = {}
        /\ q.id = NewContent + issued
    BY IdleFields DEF New
  <2>3. Begun(q)
    BY <2>1, <2>2 DEF Begun, Relies, Kind, HasFile, HasAttachment
  <2>4. QED
    BY <2>1, <2>3
<1>9. CASE BeginRetrieve(r)
  <2>1. PICK p \in Path : /\ HasFile(Docs(p))
                          /\ Begin(r, [New("retrieve", "metadata", Docs(p), Nowhere)
                                         EXCEPT !.listed = {<<Docs(p), "check">>}])
    BY <1>9 DEF BeginRetrieve
  <2> PICK n : n = New("retrieve", "metadata", Docs(p), Nowhere)
    OBVIOUS
  <2> PICK q : q = [n EXCEPT !.listed = {<<Docs(p), "check">>}]
    OBVIOUS
  <2>2. /\ q.kind = "retrieve" /\ q.at = "metadata" /\ q.src = Docs(p)
        /\ q.listed = {<<Docs(p), "check">>} /\ q.id = NewContent + issued
    BY IdleFields DEF New
  <2>3. \A e \in q.listed : e[2] # "read"
    BY <2>2
  <2>4. Begun(q)
    BY <2>1, <2>2, <2>3 DEF Begun, Relies, Kind
  <2>5. QED
    BY <2>1, <2>4
<1>10. CASE BeginTree(r)
  <2>1. PICK p \in Path : /\ Exists(Docs(p))
                          /\ Begin(r, [New("tree", "list", Docs(p), Nowhere)
                                         EXCEPT !.listed = {<<Docs(p), "check">>}])
    BY <1>10 DEF BeginTree
  <2> PICK n : n = New("tree", "list", Docs(p), Nowhere)
    OBVIOUS
  <2> PICK q : q = [n EXCEPT !.listed = {<<Docs(p), "check">>}]
    OBVIOUS
  <2>2. /\ q.kind = "tree" /\ q.at = "list" /\ q.src = Docs(p)
        /\ q.listed = {<<Docs(p), "check">>} /\ q.id = NewContent + issued
    BY IdleFields DEF New
  <2>3. \A e \in q.listed : e[2] # "read"
    BY <2>2
  <2>4. Begun(q)
    BY <2>1, <2>2, <2>3 DEF Begun, Relies, Kind
  <2>5. QED
    BY <2>1, <2>4
<1>11. CASE BeginListTrash(r)
  <2> PICK q : q = New("trash", "list", <<"trash">>, Nowhere)
    OBVIOUS
  <2>1. Begin(r, q)
    BY <1>11 DEF BeginListTrash
  <2>2. q.kind = "trash" /\ q.at = "list" /\ q.listed = {} /\ q.id = NewContent + issued
    BY IdleFields DEF New
  <2>3. Begun(q)
    BY <2>2 DEF Begun, Relies, Kind
  <2>4. QED
    BY <2>1, <2>3
<1>12. QED
  BY <1>1, <1>2, <1>3, <1>4, <1>5, <1>6, <1>7, <1>8, <1>9, <1>10, <1>11 DEF Beginning

----------------------------------------------------------------------------
(* Steps that leave the contents of documents, and who writes them, alone. *)

\* q has a file open for writing that has not been removed.
Writer(q) == q.at = "write" /\ q.dst # Nowhere

SameWriters ==
    \A x \in Request :
        \/ req'[x].at = req[x].at /\ req'[x].dst = req[x].dst
        \/ ~Writer(req[x]) /\ ~Writer(req'[x])

\* Nothing happens to content.md of any directory.
Still ==
    /\ DOMAIN dirs \subseteq DOMAIN dirs'
    /\ \A l \in DOMAIN dirs :
          dirs'[l].content = dirs[l].content /\ dirs'[l].torn = dirs[l].torn
    /\ \A l \in DOMAIN dirs' \ DOMAIN dirs : dirs'[l].content = Absent /\ ~dirs'[l].torn
    /\ SameWriters
    /\ UNCHANGED crashes

Quiet ==
    /\ Still
    /\ \A l \in DOMAIN dirs : Range(VersionsOf(dirs'[l])) \subseteq Range(VersionsOf(dirs[l]))
    /\ \A l \in DOMAIN dirs' \ DOMAIN dirs : Range(VersionsOf(dirs'[l])) = {}
    /\ UNCHANGED overlapped

\* No version goes either.
Keeps == \A l \in DOMAIN dirs : Range(VersionsOf(dirs[l])) \subseteq Range(VersionsOf(dirs'[l]))

LEMMA EmptyVersions == VersionsOf(EmptyDir) = <<>> /\ Range(VersionsOf(EmptyDir)) = {}
BY DirectoryFields DEF VersionsOf, Range

LEMMA WritersAreStores ==
    ASSUME NEW q, IsRequest(q), Writer(q)
    PROVE  q.kind = "store"
BY DEF IsRequest, Writer, Operations, Kind, Shape

LEMMA WritersStay ==
    ASSUME NEW r \in Request, DOMAIN req' = Request, Others(r), SameFiles(r),
           ~Writer(req[r]), ~Writer(req'[r])
    PROVE  SameWriters
BY DEF SameWriters, Others, SameFiles, Onward

\* The steps that do not change a file.
LEMMA LookIsQuiet ==
    ASSUME TypeInv, NEW r \in Request, NEW q, Look(r, q), ~Writer(req[r]), ~Writer(q)
    PROVE  Quiet /\ Keeps
<1>1. /\ dirs' = dirs /\ req'[r] = q /\ \A x \in Request \ {r} : req'[x] = req[x]
      /\ UNCHANGED <<crashes, overlapped>>
  BY LookEffect DEF TypeInv
<1>2. SameWriters
  BY <1>1 DEF SameWriters
<1>3. QED
  BY <1>1, <1>2 DEF Quiet, Still, Keeps

LEMMA BeginIsQuiet ==
    ASSUME TypeInv, NEW r \in Request, Beginning(r)
    PROVE  Quiet /\ Keeps
<1>1. PICK q : Begin(r, q) /\ Begun(q)
  BY BeginIsBegun
<1>2. /\ dirs' = dirs /\ req'[r] = q /\ req[r] = Idle /\ \A x \in Request \ {r} : req'[x] = req[x]
      /\ UNCHANGED <<crashes, overlapped>>
  BY <1>1, BeginEffect
<1>3. ~Writer(req[r]) /\ ~Writer(req'[r])
  BY <1>1, <1>2, IdleFields DEF Begun, Writer
<1>4. SameWriters
  BY <1>2, <1>3 DEF SameWriters
<1>5. QED
  BY <1>2, <1>4 DEF Quiet, Still, Keeps

\* What a directory that has just been made holds.
LEMMA WithDirIsQuiet ==
    ASSUME FilesInv, NEW l, IsPlace(l), dirs' = WithDir(l), SameWriters,
           UNCHANGED <<crashes, overlapped>>
    PROVE  Quiet /\ Keeps
<1>1. DOMAIN dirs \subseteq DOMAIN dirs' /\ \A m \in DOMAIN dirs : dirs'[m] = dirs[m]
  BY WithDirDomain
<1>2. \A m \in DOMAIN dirs' \ DOMAIN dirs : dirs'[m] = EmptyDir
  BY WithDirDomain
<1>3. ASSUME NEW m \in DOMAIN dirs' \ DOMAIN dirs
      PROVE  dirs'[m].content = Absent /\ ~dirs'[m].torn /\ Range(VersionsOf(dirs'[m])) = {}
  BY <1>2, <1>3, DirectoryFields, EmptyVersions
<1>4. QED
  BY <1>1, <1>3 DEF Quiet, Still, Keeps

LEMMA MkdirsAreQuiet ==
    ASSUME TypeInv, NEW r \in Request, StoreMkdir(r) \/ Mkdir(r) \/ RemoveAloneMkdir(r)
    PROVE  Quiet /\ Keeps
<1> USE DEF TypeInv
<1>1. PICK l, at : /\ IsPlace(l) /\ dirs' = WithDir(l) /\ DOMAIN req' = Request
                   /\ req'[r] = Going(r, at) /\ at # "write" /\ req[r].at = "mkdir"
                   /\ IsRequest(req[r]) /\ Others(r) /\ SameFiles(r)
                   /\ UNCHANGED <<crashes, overlapped>>
  <2>1. CASE StoreMkdir(r)
    <3>1. /\ req[r].kind = "store" /\ req[r].at = "mkdir" /\ IsRequest(req[r])
      BY <2>1 DEF StoreMkdir, At, RequestsInv
    <3>2. IsPlace(req[r].src)
      BY <3>1 DEF IsRequest, Shape, InDocs
    <3>3. /\ dirs' = WithDir(req[r].src) /\ DOMAIN req' = Request /\ req'[r] = Going(r, "look")
          /\ Others(r) /\ SameFiles(r) /\ UNCHANGED <<now, issued, crashes, overlapped>>
      BY <2>1, HereEffect DEF StoreMkdir
    <3>4. QED
      BY <3>1, <3>2, <3>3
  <2>2. CASE Mkdir(r)
    BY <2>2, MkdirEffect
  <2>3. CASE RemoveAloneMkdir(r)
    BY <2>3, RemoveAloneMkdirEffect
  <2>4. QED
    BY <2>1, <2>2, <2>3
<1>2. req'[r].at = at
  BY <1>1 DEF Going, IsRequest, Fields, Idle
<1>3. SameWriters
  BY <1>1, <1>2, WritersStay DEF Writer
<1>4. QED
  BY <1>1, <1>3, WithDirIsQuiet

LEMMA StoreMkdirVersionsIsQuiet ==
    ASSUME TypeInv, NEW r \in Request, StoreMkdirVersions(r)
    PROVE  Quiet /\ Keeps
<1> USE DEF TypeInv
<1> PICK l : l = req[r].src
  OBVIOUS
<1>1. /\ req[r].at = "mkdirVersions" /\ IsRequest(req[r]) /\ IsPlace(l) /\ l \in DOMAIN WithDir(l)
      /\ DOMAIN dirs' = DOMAIN WithDir(l)
      /\ \A m \in DOMAIN dirs' \ {l} : dirs'[m] = WithDir(l)[m]
      /\ dirs'[l] = [WithDir(l)[l] EXCEPT !.versions = VersionsOf(WithDir(l)[l])]
      /\ DOMAIN req' = Request /\ req'[r] = Going(r, "copy")
      /\ Others(r) /\ SameFiles(r) /\ UNCHANGED <<now, issued, crashes, overlapped>>
  BY StoreMkdirVersionsEffect
<1> PICK d : d = WithDir(l)[l]
  OBVIOUS
<1>2. IsDirectory(d)
  BY <1>1, WithDirFiles
<1>3. /\ dirs'[l].content = d.content /\ dirs'[l].torn = d.torn
      /\ dirs'[l].versions = VersionsOf(d)
  BY <1>1, <1>2, DirectoryFields DEF IsDirectory
<1>4. VersionsOf(dirs'[l]) = VersionsOf(d)
  BY <1>3 DEF VersionsOf
<1>5. req'[r].at = "copy"
  BY <1>1 DEF Going, IsRequest, Fields, Idle
<1>6. SameWriters
  BY <1>1, <1>5, WritersStay DEF Writer
<1>7. /\ DOMAIN dirs \subseteq DOMAIN dirs' /\ \A m \in DOMAIN dirs : WithDir(l)[m] = dirs[m]
      /\ \A m \in DOMAIN dirs' \ DOMAIN dirs : WithDir(l)[m] = EmptyDir
  <2>1. IsPlace(l) /\ DOMAIN dirs' = DOMAIN WithDir(l)
    BY <1>1
  <2>2. QED
    BY <2>1, WithDirDomain
<1>8. ASSUME NEW m \in DOMAIN dirs
      PROVE  /\ dirs'[m].content = dirs[m].content /\ dirs'[m].torn = dirs[m].torn
             /\ Range(VersionsOf(dirs'[m])) = Range(VersionsOf(dirs[m]))
  <2>1. WithDir(l)[m] = dirs[m] /\ m \in DOMAIN dirs'
    BY <1>7
  <2>2. CASE m = l
    BY <1>3, <1>4, <2>1, <2>2
  <2>3. CASE m # l
    BY <1>1, <2>1, <2>3
  <2>4. QED
    BY <2>2, <2>3
<1>9. ASSUME NEW m \in DOMAIN dirs' \ DOMAIN dirs
      PROVE  dirs'[m].content = Absent /\ ~dirs'[m].torn /\ Range(VersionsOf(dirs'[m])) = {}
  <2>1. WithDir(l)[m] = EmptyDir
    BY <1>7
  <2>2. CASE m = l
    BY <1>3, <1>4, <2>1, <2>2, DirectoryFields, EmptyVersions
  <2>3. CASE m # l
    BY <1>1, <2>1, <2>3, DirectoryFields, EmptyVersions
  <2>4. QED
    BY <2>2, <2>3
<1>10. QED
  BY <1>1, <1>6, <1>7, <1>8, <1>9 DEF Quiet, Still, Keeps

LEMMA AttachmentsAreQuiet ==
    ASSUME TypeInv, NEW r \in Request, Upload(r) \/ Detach(r)
    PROVE  Quiet /\ Keeps
<1> USE DEF TypeInv
<1> PICK l : l = req[r].src
  OBVIOUS
<1>1. /\ l \in DOMAIN dirs /\ IsRequest(req[r]) /\ req[r].kind \in {"upload", "detach"}
      /\ \E a \in {Attached, Absent} : dirs' = [dirs EXCEPT ![l] = [dirs[l] EXCEPT !.attachment = a]]
      /\ DOMAIN req' = Request /\ req'[r] = Idle
      /\ Others(r) /\ SameFiles(r) /\ UNCHANGED <<now, issued, crashes, overlapped>>
  BY AttachmentEffect
<1>2. PICK a : dirs' = [dirs EXCEPT ![l] = [dirs[l] EXCEPT !.attachment = a]]
  BY <1>1
<1>3. DOMAIN dirs[l] = {"content", "torn", "attachment", "versions"}
  BY <1>1, DirectoryFields DEF FilesInv, IsDirectory
<1>4. /\ DOMAIN dirs' = DOMAIN dirs /\ \A m \in DOMAIN dirs \ {l} : dirs'[m] = dirs[m]
      /\ dirs'[l].content = dirs[l].content /\ dirs'[l].torn = dirs[l].torn
      /\ dirs'[l].versions = dirs[l].versions
  BY <1>1, <1>2, <1>3
<1>5. VersionsOf(dirs'[l]) = VersionsOf(dirs[l])
  BY <1>4 DEF VersionsOf
<1>6. ~Writer(req[r])
  BY <1>1, WritersAreStores
<1>7. ~Writer(req'[r])
  BY <1>1, IdleFields DEF Writer
<1>8. SameWriters
  BY <1>1, <1>6, <1>7, WritersStay
<1>9. QED
  BY <1>1, <1>4, <1>5, <1>8 DEF Quiet, Still, Keeps

LEMMA RemoveVersionIsQuiet ==
    ASSUME TypeInv, NEW r \in Request, RemoveVersion(r)
    PROVE  Quiet
<1> USE DEF TypeInv
<1>1. PICK p \in Path :
          /\ Docs(p) \in DOMAIN dirs
          /\ \E ms \in DOMAIN VersionsOf(dirs[Docs(p)]) :
                dirs' = [dirs EXCEPT ![Docs(p)] = [dirs[Docs(p)] EXCEPT
                             !.versions = [m \in DOMAIN VersionsOf(dirs[Docs(p)]) \ {ms} |->
                                             VersionsOf(dirs[Docs(p)])[m]]]]
          /\ DOMAIN req' = Request /\ req[r] = Idle /\ req'[r] = Idle /\ Others(r) /\ SameFiles(r)
          /\ UNCHANGED <<now, crashes, overlapped>>
  BY RemoveVersionEffect
<1> PICK l, versions : l = Docs(p) /\ versions = VersionsOf(dirs[l])
  OBVIOUS
<1>2. PICK ms : dirs' = [dirs EXCEPT ![l] = [dirs[l] EXCEPT
                             !.versions = [m \in DOMAIN versions \ {ms} |-> versions[m]]]]
  <2>1. \E ms : dirs' = [dirs EXCEPT ![Docs(p)] = [dirs[Docs(p)] EXCEPT
                             !.versions = [m \in DOMAIN VersionsOf(dirs[Docs(p)]) \ {ms} |->
                                             VersionsOf(dirs[Docs(p)])[m]]]]
    BY <1>1
  <2>2. QED
    BY <2>1
<1> PICK v : v = [m \in DOMAIN versions \ {ms} |-> versions[m]]
  OBVIOUS
<1>3. DOMAIN dirs[l] = {"content", "torn", "attachment", "versions"}
  BY <1>1, DirectoryFields DEF FilesInv, IsDirectory
<1>4. /\ DOMAIN dirs' = DOMAIN dirs /\ \A m \in DOMAIN dirs \ {l} : dirs'[m] = dirs[m]
      /\ dirs'[l].content = dirs[l].content /\ dirs'[l].torn = dirs[l].torn
      /\ dirs'[l].versions = v
  BY <1>1, <1>2, <1>3
<1>5. Range(VersionsOf(dirs'[l])) \subseteq Range(VersionsOf(dirs[l]))
  BY <1>4 DEF VersionsOf, Range
<1>6. ~Writer(Idle)
  BY IdleFields DEF Writer
<1>7. SameWriters
  BY <1>1, <1>6, WritersStay
<1>8. QED
  BY <1>1, <1>4, <1>5, <1>7 DEF Quiet, Still

\* A request that reads goes on reading, or ends.
LEMMA ReadingStays ==
    ASSUME TypeInv, NEW r \in Request,
           List(r) \/ Describe(r) \/ RetrieveAttachments(r) \/ RetrieveVersions(r) \/ RetrieveRead(r)
    PROVE  /\ req[r].kind \in {"retrieve", "tree", "trash"}
           /\ \E q : /\ Look(r, q) /\ req'[r] = q
                     /\ q = Idle \/ (q.kind = req[r].kind /\ q.id = req[r].id)
<1> USE DEF TypeInv
<1>1. IsRequest(req[r])
  BY DEF RequestsInv
<1>2. req[r].kind \in {"retrieve", "tree", "trash"}
  BY <1>1 DEF List, Describe, RetrieveAttachments, RetrieveVersions, RetrieveRead, At,
     IsRequest, Fields
<1>3. SUFFICES \E q : Look(r, q) /\ (q = Idle \/ (q.kind = req[r].kind /\ q.id = req[r].id))
  BY <1>2, LookEffect
<1>4. CASE List(r)
  <2> PICK p : p = [req[r] EXCEPT !.at = "describe",
                       !.listed = req[r].listed \cup {<<l, "check">> : l \in Children(req[r].src)}]
    OBVIOUS
  <2>1. Look(r, Described(p))
    BY <1>1, <1>4 DEF List, IsRequest, Fields
  <2>2. p.kind = req[r].kind /\ p.id = req[r].id /\ DOMAIN p = DOMAIN Idle
    BY <1>1, IdleFields DEF IsRequest, Fields
  <2>3. Described(p) = Idle \/ (Described(p).kind = p.kind /\ Described(p).id = p.id)
    BY <1>2, <2>2, IdleFields DEF Described
  <2>4. QED
    BY <1>2, <2>1, <2>2, <2>3
<1>5. CASE Describe(r)
  <2>1. PICK listed : Look(r, Described([req[r] EXCEPT !.listed = listed]))
    BY <1>5, DescribeEffect
  <2> PICK p : p = [req[r] EXCEPT !.listed = listed]
    OBVIOUS
  <2>2. p.kind = req[r].kind /\ p.id = req[r].id /\ p.at = req[r].at /\ DOMAIN p = DOMAIN Idle
    BY <1>1, IdleFields DEF IsRequest, Fields
  <2>3. Described(p) = Idle \/ (Described(p).kind = p.kind /\ Described(p).id = p.id)
    BY <1>1, <1>2, <2>2, IdleFields DEF Described
  <2>4. QED
    BY <1>2, <2>1, <2>2, <2>3
<1>6. CASE RetrieveAttachments(r) \/ RetrieveVersions(r) \/ RetrieveRead(r)
  <2>1. PICK q \in {Going(r, "versions"), Going(r, "read"), Idle} : Look(r, q)
    BY <1>6 DEF RetrieveAttachments, RetrieveVersions, RetrieveRead
  <2>2. q = Idle \/ (q.kind = req[r].kind /\ q.id = req[r].id)
    BY <1>1, IdleFields DEF IsRequest, Fields, Going
  <2>3. QED
    BY <1>2, <2>1, <2>2
<1>7. QED
  BY <1>4, <1>5, <1>6

LEMMA ReadingIsQuiet ==
    ASSUME TypeInv, NEW r \in Request,
           \/ StoreLook(r) \/ RecoverLook(r) \/ RemoveAloneList(r) \/ PurgeFind(r) \/ PurgeEnds(r)
           \/ List(r) \/ Describe(r) \/ RetrieveAttachments(r) \/ RetrieveVersions(r)
           \/ RetrieveRead(r) \/ Fail(r)
    PROVE  Quiet /\ Keeps
<1> USE DEF TypeInv
<1>1. IsRequest(req[r])
  BY DEF RequestsInv
<1>2. ~Writer(Idle)
  BY IdleFields DEF Writer
<1>3. CASE StoreLook(r)
  <2>1. PICK at \in {"mkdirVersions", "open"} :
            Look(r, [req[r] EXCEPT !.at = at, !.ms = now, !.seen = WholeContent(req[r].src)])
    BY <1>3 DEF StoreLook
  <2> PICK p : p = [req[r] EXCEPT !.at = at, !.ms = now, !.seen = WholeContent(req[r].src)]
    OBVIOUS
  <2>2. p.at = at
    BY <1>1, IdleFields DEF IsRequest, Fields
  <2>3. ~Writer(p) /\ ~Writer(req[r])
    BY <1>3, <2>2 DEF Writer, StoreLook, At
  <2>4. QED
    BY <2>1, <2>3, LookIsQuiet
<1>4. CASE RecoverLook(r)
  <2>1. Going(r, "mkdir").at = "mkdir"
    BY <1>1, IdleFields DEF IsRequest, Fields, Going
  <2>2. ~Writer(Going(r, "mkdir")) /\ ~Writer(req[r])
    BY <1>4, <2>1 DEF RecoverLook, At, Writer
  <2>3. QED
    BY <1>2, <1>4, <2>2, LookIsQuiet DEF RecoverLook
<1>5. CASE RemoveAloneList(r)
  <2> PICK p : p = [Going(r, "entries") EXCEPT !.entries = EntriesOf(req[r].src)]
    OBVIOUS
  <2>1. p.at = "entries"
    BY <1>1, IdleFields DEF IsRequest, Fields, Going
  <2>2. ~Writer(p) /\ ~Writer(req[r])
    BY <1>5, <2>1 DEF RemoveAloneList, At, Writer
  <2>3. Look(r, p) \/ Look(r, Idle)
    BY <1>5 DEF RemoveAloneList
  <2>4. QED
    BY <1>2, <2>2, <2>3, LookIsQuiet
<1>6. CASE PurgeFind(r) \/ PurgeEnds(r)
  <2>1. Going(r, "rm").at = "rm"
    BY <1>1, IdleFields DEF IsRequest, Fields, Going
  <2>2. ~Writer(Going(r, "rm")) /\ ~Writer(req[r])
    BY <1>6, <2>1 DEF PurgeFind, PurgeEnds, At, Writer
  <2>3. QED
    BY <1>2, <1>6, <2>2, LookIsQuiet DEF PurgeFind, PurgeEnds
<1>7. CASE List(r) \/ Describe(r) \/ RetrieveAttachments(r) \/ RetrieveVersions(r) \/ RetrieveRead(r)
  <2>1. PICK q : /\ Look(r, q) /\ req'[r] = q
                 /\ q = Idle \/ (q.kind = req[r].kind /\ q.id = req[r].id)
    BY <1>7, ReadingStays
  <2>2. TypeInv'
    BY <1>7, ListType, DescribeType, RetrieveType
  <2>3. IsRequest(q) /\ q.kind # "store" /\ req[r].kind # "store"
    BY <1>7, <2>1, <2>2, ReadingStays, IdleFields DEF RequestsInv
  <2>4. ~Writer(q) /\ ~Writer(req[r])
    BY <1>1, <2>3, WritersAreStores
  <2>5. QED
    BY <2>1, <2>4, LookIsQuiet
<1>8. CASE Fail(r)
  <2>1. ~Writer(req[r])
    <3>1. SUFFICES ASSUME Writer(req[r]) PROVE FALSE
      OBVIOUS
    <3>2. req[r].kind = "store" /\ req[r].at = "write" /\ req[r].entries = {} /\ req[r].listed = {}
      BY <1>1, <3>1, WritersAreStores DEF IsRequest, Fields, Writer
    <3>3. QED
      BY <1>8, <3>2 DEF Fail, Failing, At
  <2>2. QED
    BY <1>2, <1>8, <2>1, LookIsQuiet DEF Fail
<1>9. QED
  BY <1>3, <1>4, <1>5, <1>6, <1>7, <1>8

LEMMA TickIsQuiet ==
    ASSUME Tick
    PROVE  Quiet /\ Keeps
BY DEF Tick, Quiet, Still, Keeps, SameWriters

\* The steps that are left.
LEMMA QuietCases ==
    ASSUME TypeInv, NEW r \in Request, Step(r)
    PROVE  \/ Quiet /\ (Keeps \/ RemoveVersion(r))
           \/ StoreCopy(r) \/ StoreOpen(r) \/ StoreWrite(r)
           \/ Rename(r) \/ RemoveAloneEntry(r) \/ PurgeOne(r)
BY StepCases, BeginIsQuiet, MkdirsAreQuiet, StoreMkdirVersionsIsQuiet, AttachmentsAreQuiet,
   RemoveVersionIsQuiet, ReadingIsQuiet

----------------------------------------------------------------------------
(* Steps that carry what is written, and who writes it, along.             *)

\* Every content.md after the step is one from before it, with the same writers.
Carried ==
    /\ \A m \in DOMAIN dirs' :
          \/ /\ dirs'[m].content = Absent /\ ~dirs'[m].torn
             /\ \A x \in Request : ~Writing(x, m)'
          \/ \E k \in DOMAIN dirs :
                /\ dirs'[m].content = dirs[k].content /\ dirs'[m].torn = dirs[k].torn
                /\ \A x \in Request : Writing(x, m)' <=> Writing(x, k)
    /\ \A x \in Request : Writer(req'[x]) => req'[x].dst \in DOMAIN dirs'
    /\ UNCHANGED crashes

DamageInv == WritersInv /\ TornInv /\ ExclusiveInv /\ UndamagedInv

LEMMA PlacesAreSomewhere == TypeInv => Nowhere \notin DOMAIN dirs
BY DEF TypeInv, PlacesInv, IsTree, IsPlace, Nowhere

LEMMA CarriedDamage ==
    ASSUME TypeInv, TypeInv', DamageInv, Carried, overlapped => overlapped'
    PROVE  WritersInv' /\ TornInv' /\ ExclusiveInv'
<1> USE DEF DamageInv
<1>1. WritersInv'
  <2>1. SUFFICES ASSUME NEW x \in Request, req'[x].at = "write", req'[x].dst # Nowhere
                 PROVE  HasFile(req[x].dst)'
    BY DEF WritersInv
  <2> PICK m : m = req'[x].dst
    OBVIOUS
  <2>2. m \in DOMAIN dirs' /\ Writing(x, m)'
    BY <2>1 DEF Carried, Writer, Writing
  <2>3. PICK k \in DOMAIN dirs :
            /\ dirs'[m].content = dirs[k].content /\ dirs'[m].torn = dirs[k].torn
            /\ Writing(x, k)
    BY <2>2 DEF Carried
  <2>4. k # Nowhere
    BY PlacesAreSomewhere
  <2>5. HasFile(k)
    BY <2>3, <2>4 DEF WritersInv, Writing
  <2>6. QED
    BY <2>2, <2>3, <2>5 DEF HasFile, Exists
<1>2. TornInv'
  <2>1. SUFFICES ASSUME NEW m \in DOMAIN dirs', dirs'[m].torn
                 PROVE  crashes' > 0 \/ \E x \in Request : Writing(x, m)'
    BY DEF TornInv
  <2>2. PICK k \in DOMAIN dirs :
            dirs'[m].torn = dirs[k].torn /\ \A x \in Request : Writing(x, m)' <=> Writing(x, k)
    BY <2>1 DEF Carried
  <2>3. crashes > 0 \/ \E x \in Request : Writing(x, k)
    BY <2>1, <2>2 DEF TornInv
  <2>4. QED
    BY <2>2, <2>3 DEF Carried
<1>3. ExclusiveInv'
  <2>1. SUFFICES ASSUME ~overlapped', NEW x \in Request, NEW m \in DOMAIN dirs', Writing(x, m)'
                 PROVE  dirs'[m].torn /\ \A y \in Request : Writing(y, m)' => y = x
    BY DEF ExclusiveInv
  <2>2. PICK k \in DOMAIN dirs :
            dirs'[m].torn = dirs[k].torn /\ \A y \in Request : Writing(y, m)' <=> Writing(y, k)
    BY <2>1 DEF Carried
  <2>3. ~overlapped /\ Writing(x, k)
    BY <2>1, <2>2
  <2>4. dirs[k].torn /\ \A y \in Request : Writing(y, k) => y = x
    BY <2>3 DEF ExclusiveInv
  <2>5. QED
    BY <2>2, <2>4
<1>4. QED
  BY <1>1, <1>2, <1>3

LEMMA CarriedUndamaged ==
    ASSUME TypeInv, TypeInv', DamageInv, Carried, overlapped => overlapped',
           Versioned(dirs)' \subseteq Versioned(dirs)
    PROVE  UndamagedInv'
<1>1. SUFFICES ASSUME NEW m \in DOMAIN dirs',
                      Damaged \in {dirs'[m].content} \cup Range(VersionsOf(dirs'[m]))
               PROVE  crashes' > 0 \/ overlapped'
  BY DEF UndamagedInv
<1>2. \E k \in DOMAIN dirs : Damaged \in {dirs[k].content} \cup Range(VersionsOf(dirs[k]))
  <2>1. CASE dirs'[m].content = Damaged
    <3>1. dirs'[m].content # Absent
      BY <2>1, AbsentIsNotContent
    <3>2. QED
      BY <2>1, <3>1 DEF Carried
  <2>2. CASE Damaged \in Range(VersionsOf(dirs'[m]))
    <3>1. Damaged \in Versioned(dirs)'
      BY <2>2 DEF Versioned
    <3>2. QED
      BY <3>1 DEF Versioned
  <2>3. QED
    BY <1>1, <2>1, <2>2
<1>3. QED
  BY <1>2 DEF Carried, DamageInv, UndamagedInv

LEMMA WritingStays ==
    ASSUME SameWriters, NEW x \in Request, NEW l, l # Nowhere
    PROVE  Writing(x, l)' <=> Writing(x, l)
BY DEF SameWriters, Writing, Writer

LEMMA StillIsCarried ==
    ASSUME TypeInv, TypeInv', WritersInv, Still
    PROVE  Carried
<1>1. ASSUME NEW m \in DOMAIN dirs'
      PROVE  \/ /\ dirs'[m].content = Absent /\ ~dirs'[m].torn
                /\ \A x \in Request : ~Writing(x, m)'
             \/ \E k \in DOMAIN dirs :
                   /\ dirs'[m].content = dirs[k].content /\ dirs'[m].torn = dirs[k].torn
                   /\ \A x \in Request : Writing(x, m)' <=> Writing(x, k)
  <2>1. m # Nowhere
    BY DEF TypeInv, PlacesInv, IsTree, IsPlace, Nowhere
  <2>2. \A x \in Request : Writing(x, m)' <=> Writing(x, m)
    BY <2>1, WritingStays DEF Still
  <2>3. CASE m \in DOMAIN dirs
    BY <2>2, <2>3 DEF Still
  <2>4. CASE m \notin DOMAIN dirs
    <3>1. \A x \in Request : ~Writing(x, m)
      BY <2>1, <2>4 DEF WritersInv, Writing, HasFile, Exists
    <3>2. QED
      BY <2>2, <2>4, <3>1 DEF Still
  <2>5. QED
    BY <2>3, <2>4
<1>2. ASSUME NEW x \in Request, Writer(req'[x])
      PROVE  req'[x].dst \in DOMAIN dirs'
  <2>1. req'[x].at = req[x].at /\ req'[x].dst = req[x].dst
    BY <1>2 DEF Still, SameWriters
  <2>2. HasFile(req[x].dst)
    BY <1>2, <2>1 DEF WritersInv, Writer
  <2>3. QED
    BY <2>1, <2>2 DEF HasFile, Exists, Still
<1>3. QED
  BY <1>1, <1>2 DEF Carried, Still

LEMMA QuietVersions ==
    ASSUME Quiet
    PROVE  Versioned(dirs)' \subseteq Versioned(dirs)
<1>1. ASSUME NEW c \in Versioned(dirs)' PROVE c \in Versioned(dirs)
  <2>1. PICK m \in DOMAIN dirs' : c \in Range(VersionsOf(dirs'[m]))
    BY <1>1 DEF Versioned
  <2>2. m \in DOMAIN dirs
    BY <2>1 DEF Quiet
  <2>3. QED
    BY <2>1, <2>2 DEF Quiet, Versioned
<1>2. QED
  BY <1>1

LEMMA RenameMoves ==
    ASSUME TypeInv, WritersInv, NEW r \in Request, Rename(r), NEW src, NEW dst,
           src = req[r].src, dst = req[r].dst
    PROVE  /\ IsPlace(src) /\ IsPlace(dst) /\ CanRename(src, dst) /\ Len(src) > 1 /\ Len(dst) > 1
           /\ Kept(src, dst) \subseteq DOMAIN dirs
           /\ \A l \in DOMAIN dirs \ Kept(src, dst) : dirs[l] = EmptyDir
           /\ \A m \in DOMAIN dirs' : \E k \in Kept(src, dst) : m = Relocated(k, src, dst)
           /\ \A k \in Kept(src, dst) :
                 /\ Relocated(k, src, dst) \in DOMAIN dirs'
                 /\ dirs'[Relocated(k, src, dst)] = dirs[k]
                 /\ \A x \in Request : Writing(x, Relocated(k, src, dst))' <=> Writing(x, k)
           /\ \A x \in Request : Writer(req'[x]) => req'[x].dst \in DOMAIN dirs'
           /\ UNCHANGED <<crashes, overlapped>>
<1>1. /\ req[r].at = "rename" /\ CanRename(src, dst) /\ IsPlace(src) /\ IsPlace(dst)
      /\ Len(src) > 1 /\ Len(dst) > 1
      /\ dirs' = Renamed(src, dst) /\ req'[r] = Idle /\ Others(r)
      /\ UNCHANGED <<crashes, overlapped>>
  BY RenameEffect
<1>2. \A x \in Request \ {r} :
         req'[x].dst = IF req[x].at = "write" THEN Relocated(req[x].dst, src, dst)
                       ELSE req[x].dst
  BY RenameEffect
<1>3. PlacesInv /\ IsPlace(src) /\ IsPlace(dst) /\ CanRename(src, dst)
  BY <1>1 DEF TypeInv
<1>4. /\ Kept(src, dst) \subseteq DOMAIN dirs
      /\ DOMAIN Renamed(src, dst) = {Relocated(k, src, dst) : k \in Kept(src, dst)}
      /\ \A k \in Kept(src, dst) : Renamed(src, dst)[Relocated(k, src, dst)] = dirs[k]
  BY ONLY <1>3, RenamedDirs
<1>5. /\ DOMAIN dirs' = {Relocated(k, src, dst) : k \in Kept(src, dst)}
      /\ \A k \in Kept(src, dst) : dirs'[Relocated(k, src, dst)] = dirs[k]
  BY <1>1, <1>4
<1>6. \A l \in DOMAIN dirs \ Kept(src, dst) : dirs[l] = EmptyDir
  BY <1>1 DEF Kept, CanRename, IsEmpty, Exists
<1>7. \A l \in DOMAIN dirs : HasFile(l) => l \in Kept(src, dst)
  BY <1>6, DirectoryFields DEF HasFile
<1>8. Relocated(Nowhere, src, dst) = Nowhere
  <2>1. src \in Seq(Element) /\ Len(src) > Len(Nowhere)
    BY <1>1 DEF IsPlace, Nowhere
  <2>2. ~IsPrefix(src, Nowhere)
    BY <2>1 DEF IsPrefix
  <2>3. QED
    BY <2>2 DEF Relocated
<1>9. ASSUME NEW x \in Request
      PROVE  /\ Writer(req[x]) => req[x].dst \in Kept(src, dst)
             /\ req'[x].at = "write" <=> req[x].at = "write"
             /\ req[x].at = "write" => req'[x].dst = Relocated(req[x].dst, src, dst)
  <2>1. Writer(req[x]) => req[x].dst \in Kept(src, dst)
    BY <1>7 DEF WritersInv, Writer, HasFile, Exists
  <2>2. CASE x = r
    BY <1>1, <2>1, <2>2, IdleFields
  <2>3. CASE x # r
    BY <1>1, <1>2, <2>1, <2>3 DEF Others, Onward
  <2>4. QED
    BY <2>2, <2>3
<1>10. ASSUME NEW k \in Kept(src, dst), NEW x \in Request
       PROVE  Writing(x, Relocated(k, src, dst))' <=> Writing(x, k)
  <2>1. ASSUME Writing(x, k)
        PROVE  Writing(x, Relocated(k, src, dst))'
    BY <1>9, <2>1 DEF Writing
  <2>2. ASSUME Writing(x, Relocated(k, src, dst))'
        PROVE  Writing(x, k)
    <3>1. req[x].at = "write" /\ Relocated(req[x].dst, src, dst) = Relocated(k, src, dst)
      BY <1>9, <2>2 DEF Writing
    <3>2. Relocated(k, src, dst) # Nowhere
      <4>1. Relocated(k, src, dst) \in DOMAIN dirs'
        BY <1>5
      <4>2. IsTree(DOMAIN dirs')
        BY RenameType DEF TypeInv, PlacesInv
      <4>3. QED
        BY <4>1, <4>2 DEF IsTree, IsPlace, Nowhere
    <3>3. req[x].dst \in Kept(src, dst)
      BY <1>8, <1>9, <3>1, <3>2 DEF Writer
    <3>4. req[x].dst = k
      BY <1>3, <3>1, <3>3, RelocatedOnce
    <3>5. QED
      BY <3>1, <3>4 DEF Writing
  <2>3. QED
    BY <2>1, <2>2
<1>11. ASSUME NEW x \in Request, Writer(req'[x])
       PROVE  req'[x].dst \in DOMAIN dirs'
  <2>1. req[x].at = "write" /\ req'[x].dst = Relocated(req[x].dst, src, dst) /\ req'[x].dst # Nowhere
    BY <1>9, <1>11 DEF Writer
  <2>2. req[x].dst \in Kept(src, dst)
    BY <1>8, <1>9, <2>1 DEF Writer
  <2>3. QED
    BY <1>5, <2>1, <2>2
<1>12. QED
  BY <1>1, <1>4, <1>5, <1>6, <1>10, <1>11

LEMMA RenameIsCarried ==
    ASSUME TypeInv, WritersInv, NEW r \in Request, Rename(r)
    PROVE  Carried /\ Versioned(dirs)' \subseteq Versioned(dirs) /\ UNCHANGED overlapped
<1> PICK src, dst : src = req[r].src /\ dst = req[r].dst
  OBVIOUS
<1>1. /\ Kept(src, dst) \subseteq DOMAIN dirs
      /\ \A m \in DOMAIN dirs' : \E k \in Kept(src, dst) : m = Relocated(k, src, dst)
      /\ \A k \in Kept(src, dst) :
            /\ dirs'[Relocated(k, src, dst)] = dirs[k]
            /\ \A x \in Request : Writing(x, Relocated(k, src, dst))' <=> Writing(x, k)
      /\ \A x \in Request : Writer(req'[x]) => req'[x].dst \in DOMAIN dirs'
      /\ UNCHANGED <<crashes, overlapped>>
  <2>1. TypeInv /\ WritersInv /\ Rename(r) /\ r \in Request /\ src = req[r].src /\ dst = req[r].dst
    OBVIOUS
  <2>2. QED
    BY ONLY <2>1, RenameMoves
<1>2. ASSUME NEW m \in DOMAIN dirs'
      PROVE  \E k \in DOMAIN dirs :
                /\ dirs'[m] = dirs[k]
                /\ \A x \in Request : Writing(x, m)' <=> Writing(x, k)
  <2>1. PICK k \in Kept(src, dst) : m = Relocated(k, src, dst)
    BY <1>1
  <2>2. QED
    BY <1>1, <2>1
<1>3. Carried
  BY <1>1, <1>2 DEF Carried
<1>4. Versioned(dirs)' \subseteq Versioned(dirs)
  <2>1. ASSUME NEW c \in Versioned(dirs)' PROVE c \in Versioned(dirs)
    <3>1. PICK m \in DOMAIN dirs' : c \in Range(VersionsOf(dirs'[m]))
      BY <2>1 DEF Versioned
    <3>2. PICK k \in DOMAIN dirs : dirs'[m] = dirs[k]
      BY <1>2
    <3>3. QED
      BY <3>1, <3>2 DEF Versioned
  <2>2. QED
    BY <2>1
<1>5. QED
  BY <1>1, <1>3, <1>4

LEMMA PurgeOneIsCarried ==
    ASSUME TypeInv, TypeInv', WritersInv, NEW r \in Request, PurgeOne(r)
    PROVE  /\ Carried /\ Versioned(dirs)' \subseteq Versioned(dirs) /\ UNCHANGED overlapped
           /\ \E l \in DOMAIN dirs :
                 /\ IsPrefix(req[r].src, l) /\ Len(l) > 1 /\ l[1] = "trash"
                 /\ DOMAIN dirs' = DOMAIN dirs \ {l}
                 /\ \A m \in DOMAIN dirs \ {l} : dirs'[m] = dirs[m]
                 /\ \A m \in DOMAIN dirs', x \in Request : Writing(x, m)' <=> Writing(x, m)
<1>1. /\ req[r].at = "rm" /\ DOMAIN req' = Request /\ req'[r] \in {req[r], Idle}
      /\ Others(r) /\ UNCHANGED <<now, issued, crashes, overlapped>>
  BY PurgeOneEffect
<1>2. PICK l \in DOMAIN dirs :
          /\ IsPrefix(req[r].src, l) /\ Len(l) > 1 /\ l[1] = "trash"
          /\ DOMAIN dirs' = DOMAIN dirs \ {l}
          /\ \A m \in DOMAIN dirs \ {l} : dirs'[m] = dirs[m]
          /\ \A x \in Request \ {r} :
                req'[x].dst = IF req[x].at = "write" /\ req[x].dst = l THEN Nowhere
                              ELSE req[x].dst
  BY PurgeOneEffect
<1>3. req'[r].at # "write"
  BY <1>1, IdleFields
<1>4. ASSUME NEW m \in DOMAIN dirs', NEW x \in Request
      PROVE  Writing(x, m)' <=> Writing(x, m)
  <2>1. m # l /\ m # Nowhere
    BY <1>2 DEF TypeInv, PlacesInv, IsTree, IsPlace, Nowhere
  <2>2. CASE x = r
    BY <1>1, <1>3, <2>2 DEF Writing
  <2>3. CASE x # r
    BY <1>1, <1>2, <2>1, <2>3 DEF Writing, Others, Onward
  <2>4. QED
    BY <2>2, <2>3
<1>5. ASSUME NEW x \in Request, Writer(req'[x])
      PROVE  req'[x].dst \in DOMAIN dirs'
  <2>1. x # r
    BY <1>3, <1>5 DEF Writer
  <2>2. req[x].at = "write" /\ req'[x].dst = req[x].dst /\ req[x].dst # l /\ req[x].dst # Nowhere
    BY <1>1, <1>2, <1>5, <2>1 DEF Writer, Others, Onward
  <2>3. QED
    BY <1>2, <2>2 DEF WritersInv, HasFile, Exists
<1>6. Carried
  <2>1. ASSUME NEW m \in DOMAIN dirs'
        PROVE  \E k \in DOMAIN dirs :
                  /\ dirs'[m].content = dirs[k].content /\ dirs'[m].torn = dirs[k].torn
                  /\ \A x \in Request : Writing(x, m)' <=> Writing(x, k)
    BY <1>2, <1>4
  <2>2. QED
    BY <1>1, <1>5, <2>1 DEF Carried
<1>7. Versioned(dirs)' \subseteq Versioned(dirs)
  <2>1. ASSUME NEW c \in Versioned(dirs)' PROVE c \in Versioned(dirs)
    <3>1. PICK m \in DOMAIN dirs' : c \in Range(VersionsOf(dirs'[m]))
      BY <2>1 DEF Versioned
    <3>2. m \in DOMAIN dirs /\ dirs'[m] = dirs[m]
      BY <1>2
    <3>3. QED
      BY <3>1, <3>2 DEF Versioned
  <2>2. QED
    BY <2>1
<1>8. QED
  BY <1>1, <1>2, <1>4, <1>6, <1>7

\* content.md of src replaces that of dst, and is written by who wrote it.
ContentMove(src, dst) ==
    /\ HasFile(src) /\ DOMAIN dirs' = DOMAIN dirs
    /\ \A l \in DOMAIN dirs : VersionsOf(dirs'[l]) = VersionsOf(dirs[l])
    /\ dirs'[dst].content = dirs[src].content /\ dirs'[dst].torn = dirs[src].torn
    /\ dirs'[src].content = Absent /\ ~dirs'[src].torn
    /\ \A l \in DOMAIN dirs \ {src, dst} : dirs'[l] = dirs[l]
    /\ \A x \in Request :
          /\ Writing(x, dst)' <=> Writing(x, src)
          /\ ~Writing(x, src)'
          /\ \A l \in DOMAIN dirs \ {src, dst} : Writing(x, l)' <=> Writing(x, l)
    /\ \A x \in Request : Writer(req'[x]) => req'[x].dst \in DOMAIN dirs'

\* The attachment or the versions of src replace those of dst.
OtherMove(src, dst) ==
    /\ Still /\ DOMAIN dirs' = DOMAIN dirs
    /\ \A l \in DOMAIN dirs \ {src, dst} : dirs'[l] = dirs[l]
    /\ \/ \A l \in {src, dst} : VersionsOf(dirs'[l]) = VersionsOf(dirs[l])
       \/ /\ VersionsOf(dirs'[dst]) = VersionsOf(dirs[src])
          /\ Range(VersionsOf(dirs'[src])) = {}

LEMMA RemoveAloneEntryMoves ==
    ASSUME TypeInv, WritersInv, NEW r \in Request, RemoveAloneEntry(r), NEW src, NEW dst,
           src = req[r].src, dst = req[r].dst
    PROVE  /\ InDocs(src) /\ IsEntry(dst) /\ src # dst
           /\ src \in DOMAIN dirs /\ dst \in DOMAIN dirs
           /\ ContentMove(src, dst) \/ OtherMove(src, dst)
           /\ UNCHANGED <<crashes, overlapped>>
<1>1. /\ req[r].kind = "removeAlone" /\ IsRequest(req[r]) /\ InDocs(src) /\ IsEntry(dst) /\ src # dst
      /\ src \in DOMAIN dirs /\ dst \in DOMAIN dirs
      /\ DOMAIN req' = Request /\ Others(r) /\ UNCHANGED <<now, issued, crashes, overlapped>>
  BY RemoveAloneEntryEffect
<1>2. PICK e \in req[r].entries :
          /\ e \in {"content", "attachment", "versions"}
          /\ CanMoveEntry(e, src, dst) /\ dirs' = EntryMoved(e, src, dst)
          /\ req'[r] = IF req[r].entries = {e} THEN Idle
                       ELSE [req[r] EXCEPT !.entries = req[r].entries \ {e}]
          /\ \A x \in Request \ {r} :
                req'[x].dst = IF req[x].at = "write" /\ e = "content"
                              THEN MovedFile(req[x].dst, src, dst) ELSE req[x].dst
  BY RemoveAloneEntryEffect
<1>3. FilesInv /\ src \in DOMAIN dirs /\ dst \in DOMAIN dirs /\ src # dst
  BY <1>1 DEF TypeInv
<1>4. ~Writer(req[r]) /\ ~Writer(req'[r])
  <2>1. ~Writer(req[r])
    BY <1>1, WritersAreStores
  <2>2. req'[r].at \in {req[r].at, "end"}
    <3> PICK p : p = [req[r] EXCEPT !.entries = req[r].entries \ {e}]
      OBVIOUS
    <3>1. p.at = req[r].at
      BY <1>1, IdleFields DEF IsRequest, Fields
    <3>2. req'[r] = Idle \/ req'[r] = p
      BY <1>2
    <3>3. QED
      BY <3>1, <3>2, IdleFields
  <2>3. req[r].at # "write"
    BY <1>1 DEF IsRequest, Operations
  <2>4. QED
    BY <2>1, <2>2, <2>3 DEF Writer
<1>5. Nowhere # src /\ Nowhere # dst /\ Nowhere \notin DOMAIN dirs
  BY <1>1, PlacesAreSomewhere
<1>6. CASE e = "content"
  <2> PICK new : new = EntryMoved("content", src, dst)
    OBVIOUS
  <2>1. /\ DOMAIN new = DOMAIN dirs /\ \A l \in DOMAIN dirs \ {src, dst} : new[l] = dirs[l]
        /\ new[src].content = Absent /\ new[dst].content = dirs[src].content
        /\ new[dst].versions = dirs[dst].versions /\ new[src].versions = dirs[src].versions
    BY <1>3, ContentMoved
  <2>2. ~new[src].torn /\ new[dst].torn = dirs[src].torn
    BY <1>3, ContentMoved
  <2>3. dirs' = new
    BY <1>2, <1>6
  <2>4. \A l \in DOMAIN dirs : VersionsOf(dirs'[l]) = VersionsOf(dirs[l])
    BY <2>1, <2>3 DEF VersionsOf
  <2>5. HasFile(src)
    BY <1>2, <1>6 DEF CanMoveEntry, EntriesOf
  <2>6. ASSUME NEW x \in Request
        PROVE  /\ req'[x].at = "write" <=> req[x].at = "write"
               /\ Writer(req[x]) => req[x].dst \in DOMAIN dirs
               /\ req[x].at = "write" => req'[x].dst = MovedFile(req[x].dst, src, dst)
    <3>1. Writer(req[x]) => req[x].dst \in DOMAIN dirs
      BY DEF WritersInv, Writer, HasFile, Exists
    <3>2. CASE x = r
      <4>1. req[r].at # "write"
        BY <1>1 DEF IsRequest, Operations
      <4>2. req'[r].at # "write"
        <5> PICK p : p = [req[r] EXCEPT !.entries = req[r].entries \ {e}]
          OBVIOUS
        <5>1. p.at = req[r].at
          BY <1>1, IdleFields DEF IsRequest, Fields
        <5>2. req'[r] = Idle \/ req'[r] = p
          BY <1>2
        <5>3. QED
          BY <4>1, <5>1, <5>2, IdleFields
      <4>3. QED
        BY <3>1, <3>2, <4>1, <4>2
    <3>3. CASE x # r
      BY <1>1, <1>2, <1>6, <3>1, <3>3 DEF Others, Onward
    <3>4. QED
      BY <3>2, <3>3
  <2>7. ASSUME NEW x \in Request
        PROVE  /\ Writing(x, dst)' <=> Writing(x, src)
               /\ ~Writing(x, src)'
               /\ \A l \in DOMAIN dirs \ {src, dst} : Writing(x, l)' <=> Writing(x, l)
               /\ Writer(req'[x]) => req'[x].dst \in DOMAIN dirs
    <3>1. CASE req[x].at # "write"
      BY <2>6, <3>1 DEF Writing, Writer
    <3>2. CASE req[x].at = "write"
      <4> PICK d : d = req[x].dst
        OBVIOUS
      <4>1. req'[x].at = "write" /\ req'[x].dst = MovedFile(d, src, dst)
        BY <2>6, <3>2
      <4>2. d = Nowhere \/ d \in DOMAIN dirs
        BY <2>6, <3>2 DEF Writer
      <4>3. MovedFile(d, src, dst) = IF d = src THEN dst ELSE IF d = dst THEN Nowhere ELSE d
        BY DEF MovedFile
      <4>4. QED
        BY <1>3, <1>5, <3>2, <4>1, <4>2, <4>3 DEF Writing, Writer
    <3>3. QED
      BY <3>1, <3>2
  <2>8. ContentMove(src, dst)
    BY <2>1, <2>2, <2>3, <2>4, <2>5, <2>7 DEF ContentMove
  <2>9. QED
    BY <1>1, <2>8
<1>7. CASE e # "content"
  <2>1. SameFiles(r)
    BY <1>2, <1>7 DEF SameFiles
  <2>2. SameWriters
    BY <1>1, <1>4, <2>1, WritersStay
  <2>3. CASE e = "attachment"
    <3> PICK new : new = EntryMoved("attachment", src, dst)
      OBVIOUS
    <3>1. /\ DOMAIN new = DOMAIN dirs /\ \A l \in DOMAIN dirs \ {src, dst} : new[l] = dirs[l]
          /\ new[dst].content = dirs[dst].content /\ new[src].content = dirs[src].content
          /\ new[dst].torn = dirs[dst].torn /\ new[src].torn = dirs[src].torn
          /\ new[dst].versions = dirs[dst].versions /\ new[src].versions = dirs[src].versions
      BY <1>3, AttachmentMoved
    <3>2. dirs' = new
      BY <1>2, <2>3
    <3>3. \A l \in {src, dst} : VersionsOf(dirs'[l]) = VersionsOf(dirs[l])
      BY <3>1, <3>2 DEF VersionsOf
    <3>4. Still
      BY <1>1, <2>2, <3>1, <3>2 DEF Still
    <3>5. OtherMove(src, dst)
      BY <3>1, <3>2, <3>3, <3>4 DEF OtherMove
    <3>6. QED
      BY <1>1, <3>5
  <2>4. CASE e = "versions"
    <3> PICK new : new = EntryMoved("versions", src, dst)
      OBVIOUS
    <3>1. /\ DOMAIN new = DOMAIN dirs /\ \A l \in DOMAIN dirs \ {src, dst} : new[l] = dirs[l]
          /\ new[dst].content = dirs[dst].content /\ new[src].content = dirs[src].content
          /\ new[dst].torn = dirs[dst].torn /\ new[src].torn = dirs[src].torn
          /\ new[dst].versions = dirs[src].versions /\ new[src].versions = Absent
      BY <1>3, VersionsMoved
    <3>2. dirs' = new
      BY <1>2, <2>4
    <3>3. VersionsOf(dirs'[dst]) = VersionsOf(dirs[src])
      BY <3>1, <3>2 DEF VersionsOf
    <3>4. Range(VersionsOf(dirs'[src])) = {}
      BY <3>1, <3>2 DEF VersionsOf, Range
    <3>5. Still
      BY <1>1, <2>2, <3>1, <3>2 DEF Still
    <3>6. OtherMove(src, dst)
      BY <3>1, <3>2, <3>3, <3>4, <3>5 DEF OtherMove
    <3>7. QED
      BY <1>1, <3>6
  <2>5. QED
    BY <1>2, <1>7, <2>3, <2>4
<1>8. QED
  BY <1>6, <1>7

LEMMA RemoveAloneEntryIsCarried ==
    ASSUME TypeInv, TypeInv', WritersInv, NEW r \in Request, RemoveAloneEntry(r)
    PROVE  Carried /\ Versioned(dirs)' \subseteq Versioned(dirs) /\ UNCHANGED overlapped
<1> PICK src, dst : src = req[r].src /\ dst = req[r].dst
  OBVIOUS
<1>1. /\ src # dst /\ src \in DOMAIN dirs /\ dst \in DOMAIN dirs
      /\ ContentMove(src, dst) \/ OtherMove(src, dst)
      /\ UNCHANGED <<crashes, overlapped>>
  BY RemoveAloneEntryMoves
<1>2. CASE ContentMove(src, dst)
  <2>1. ASSUME NEW m \in DOMAIN dirs'
        PROVE  \/ /\ dirs'[m].content = Absent /\ ~dirs'[m].torn
                  /\ \A x \in Request : ~Writing(x, m)'
               \/ \E k \in DOMAIN dirs :
                     /\ dirs'[m].content = dirs[k].content /\ dirs'[m].torn = dirs[k].torn
                     /\ \A x \in Request : Writing(x, m)' <=> Writing(x, k)
    <3>1. CASE m = src
      BY <1>2, <3>1 DEF ContentMove
    <3>2. CASE m = dst
      BY <1>1, <1>2, <3>2 DEF ContentMove
    <3>3. CASE m \notin {src, dst}
      BY <1>2, <3>3 DEF ContentMove
    <3>4. QED
      BY <3>1, <3>2, <3>3
  <2>2. Carried
    BY <1>1, <1>2, <2>1 DEF Carried, ContentMove
  <2>3. ASSUME NEW c \in Versioned(dirs)' PROVE c \in Versioned(dirs)
    <3>1. PICK m \in DOMAIN dirs' : c \in Range(VersionsOf(dirs'[m]))
      BY <2>3 DEF Versioned
    <3>2. m \in DOMAIN dirs /\ VersionsOf(dirs'[m]) = VersionsOf(dirs[m])
      BY <1>2 DEF ContentMove
    <3>3. QED
      BY <3>1, <3>2 DEF Versioned
  <2>4. QED
    BY <1>1, <2>2, <2>3
<1>3. CASE OtherMove(src, dst)
  <2>1. Carried
    BY <1>3, StillIsCarried DEF OtherMove
  <2>2. ASSUME NEW c \in Versioned(dirs)' PROVE c \in Versioned(dirs)
    <3>1. PICK m \in DOMAIN dirs' : c \in Range(VersionsOf(dirs'[m]))
      BY <2>2 DEF Versioned
    <3>2. \E k \in DOMAIN dirs : c \in Range(VersionsOf(dirs[k]))
      <4>1. CASE m \notin {src, dst}
        BY <1>3, <3>1, <4>1 DEF OtherMove
      <4>2. CASE m \in {src, dst}
        BY <1>1, <1>3, <3>1, <4>2 DEF OtherMove
      <4>3. QED
        BY <4>1, <4>2
    <3>3. QED
      BY <3>2 DEF Versioned
  <2>3. QED
    BY <1>1, <2>1, <2>2
<1>4. QED
  BY <1>1, <1>2, <1>3

----------------------------------------------------------------------------
(* Stores.                                                                 *)

LEMMA StoreCopyMoves ==
    ASSUME TypeInv, NEW r \in Request, StoreCopy(r), NEW l, l = req[r].src
    PROVE  /\ req[r].kind = "store" /\ IsRequest(req[r]) /\ l \in DOMAIN dirs
           /\ Still /\ DOMAIN dirs' = DOMAIN dirs
           /\ \A m \in DOMAIN dirs \ {l} : dirs'[m] = dirs[m]
           /\ \E copied \in Content :
                 /\ copied = IF dirs[l].torn THEN Damaged ELSE dirs[l].content
                 /\ VersionsOf(dirs'[l]) = WithVersion(VersionsOf(dirs[l]), req[r].ms, copied)
           /\ req'[r].seen = WholeContent(l) /\ HasFile(l) /\ VersionsOf(dirs'[l]) = dirs'[l].versions
           /\ overlapped' = (overlapped \/ OpenElsewhere(r, l))
<1> USE DEF TypeInv
<1> PICK copied : copied = IF dirs[l].torn THEN Damaged ELSE dirs[l].content
  OBVIOUS
<1>1. /\ req[r].kind = "store" /\ req[r].at = "copy" /\ IsRequest(req[r])
      /\ l \in DOMAIN dirs /\ CanCopy(l) /\ copied \in Content
      /\ dirs' = [dirs EXCEPT ![l] = [dirs[l] EXCEPT
                      !.versions = WithVersion(VersionsOf(dirs[l]), req[r].ms, copied)]]
      /\ DOMAIN req' = Request
      /\ req'[r] = [req[r] EXCEPT !.at = "open", !.seen = WholeContent(l)]
      /\ Others(r) /\ SameFiles(r) /\ UNCHANGED <<now, issued, crashes>>
      /\ overlapped' = (overlapped \/ OpenElsewhere(r, l))
  BY StoreCopyEffect
<1>2. DOMAIN dirs[l] = {"content", "torn", "attachment", "versions"}
  BY <1>1, DirectoryFields DEF FilesInv, IsDirectory
<1> PICK v : v = WithVersion(VersionsOf(dirs[l]), req[r].ms, copied)
  OBVIOUS
<1>3. /\ DOMAIN dirs' = DOMAIN dirs /\ \A m \in DOMAIN dirs \ {l} : dirs'[m] = dirs[m]
      /\ dirs'[l].content = dirs[l].content /\ dirs'[l].torn = dirs[l].torn
      /\ dirs'[l].versions = v
  BY <1>1, <1>2
<1>4. v # Absent
  <2> PICK w : w = VersionsOf(dirs[l])
    OBVIOUS
  <2>1. DOMAIN w \subseteq Instant /\ w \in [DOMAIN w -> Content]
    BY <1>1, VersionsAreContents DEF FilesInv
  <2>2. req[r].ms \in Instant
    BY <1>1 DEF IsRequest, Fields
  <2>3. v = WithVersion(w, req[r].ms, copied)
    OBVIOUS
  <2>4. DOMAIN v \subseteq Instant /\ v \in [DOMAIN v -> Content]
    BY <1>1, <2>1, <2>2, <2>3, WithVersionType
  <2>5. QED
    BY <2>4, DocumentStoreAssumption
<1>5. VersionsOf(dirs'[l]) = v
  BY <1>3, <1>4 DEF VersionsOf
<1>6. req'[r].at = "open" /\ req'[r].seen = WholeContent(l)
  BY <1>1, IdleFields DEF IsRequest, Fields
<1>7. SameWriters
  BY <1>1, <1>6, WritersStay DEF Writer
<1>8. Still
  BY <1>1, <1>3, <1>7 DEF Still
<1>9. QED
  BY <1>1, <1>3, <1>5, <1>6, <1>8 DEF CanCopy

LEMMA StoreOpenMoves ==
    ASSUME TypeInv, NEW r \in Request, StoreOpen(r), NEW l, l = req[r].src
    PROVE  /\ req[r].kind = "store" /\ req[r].at = "open" /\ IsRequest(req[r]) /\ l \in DOMAIN dirs
           /\ DOMAIN dirs' = DOMAIN dirs /\ \A m \in DOMAIN dirs \ {l} : dirs'[m] = dirs[m]
           /\ dirs'[l].content = Visible(l) /\ dirs'[l].torn
           /\ VersionsOf(dirs'[l]) = VersionsOf(dirs[l])
           /\ \A m \in DOMAIN dirs, x \in Request :
                 Writing(x, m)' <=> (Writing(x, m) \/ (x = r /\ m = l))
           /\ \A m : ~Writing(r, m)
           /\ \A x \in Request : req'[x].at = "write" => req'[x].dst = IF x = r THEN l ELSE req[x].dst
           /\ \A x \in Request \ {r} : req'[x].at = req[x].at
           /\ overlapped' = (overlapped \/ OpenElsewhere(r, l)) /\ UNCHANGED crashes
<1> USE DEF TypeInv
<1>1. /\ req[r].kind = "store" /\ req[r].at = "open" /\ IsRequest(req[r])
      /\ l \in DOMAIN dirs
      /\ dirs' = [dirs EXCEPT ![l] = [dirs[l] EXCEPT !.content = Visible(l), !.torn = TRUE]]
      /\ DOMAIN req' = Request
      /\ req'[r] = [req[r] EXCEPT !.at = "write", !.dst = l]
      /\ Others(r) /\ SameFiles(r) /\ UNCHANGED <<now, issued, crashes>>
      /\ overlapped' = (overlapped \/ OpenElsewhere(r, l))
  BY StoreOpenEffect
<1>2. DOMAIN dirs[l] = {"content", "torn", "attachment", "versions"}
  BY <1>1, DirectoryFields DEF FilesInv, IsDirectory
<1>3. /\ DOMAIN dirs' = DOMAIN dirs /\ \A m \in DOMAIN dirs \ {l} : dirs'[m] = dirs[m]
      /\ dirs'[l].content = Visible(l) /\ dirs'[l].versions = dirs[l].versions
  BY <1>1, <1>2
<1>4. dirs'[l].torn
  BY <1>1, <1>2
<1>5. VersionsOf(dirs'[l]) = VersionsOf(dirs[l])
  BY <1>3 DEF VersionsOf
<1>6. req'[r].at = "write" /\ req'[r].dst = l
  BY <1>1, IdleFields DEF IsRequest, Fields
<1>7. \A x \in Request \ {r} : req'[x].at = req[x].at /\ req'[x].dst = req[x].dst
  BY <1>1 DEF Others, SameFiles, Onward
<1>8. \A m : ~Writing(r, m)
  BY <1>1 DEF Writing
<1>9. ASSUME NEW m \in DOMAIN dirs, NEW x \in Request
      PROVE  Writing(x, m)' <=> (Writing(x, m) \/ (x = r /\ m = l))
  BY <1>6, <1>7, <1>8 DEF Writing
<1>10. \A x \in Request : req'[x].at = "write" => req'[x].dst = IF x = r THEN l ELSE req[x].dst
  BY <1>6, <1>7
<1>11. QED
  BY <1>1, <1>3, <1>4, <1>5, <1>7, <1>8, <1>9, <1>10

LEMMA StoreWriteMoves ==
    ASSUME TypeInv, NEW r \in Request, StoreWrite(r), NEW l, l = req[r].dst
    PROVE  /\ req[r].kind = "store" /\ IsRequest(req[r]) /\ Writing(r, l)
           /\ DOMAIN dirs' = DOMAIN dirs /\ \A m \in DOMAIN dirs \ {l} : dirs'[m] = dirs[m]
           /\ l \in DOMAIN dirs =>
                 /\ dirs'[l].content \in {req[r].id, Damaged} /\ ~dirs'[l].torn
                 /\ dirs'[l].content = Damaged => ~dirs[l].torn
                 /\ VersionsOf(dirs'[l]) = VersionsOf(dirs[l])
           /\ \A m : \A x \in Request : Writing(x, m)' <=> (Writing(x, m) /\ x # r)
           /\ \A x \in Request \ {r} : req'[x].at = req[x].at /\ req'[x].dst = req[x].dst
           /\ req'[r] = Idle /\ UNCHANGED <<crashes, overlapped>>
<1> USE DEF TypeInv
<1>1. /\ req[r].kind = "store" /\ req[r].at = "write" /\ IsRequest(req[r])
      /\ DOMAIN req' = Request /\ req'[r] = Idle
      /\ Others(r) /\ SameFiles(r) /\ UNCHANGED <<now, issued, crashes, overlapped>>
  BY StoreWriteEffect
<1>2. ~Exists(l) => dirs' = dirs
  BY StoreWriteEffect
<1>3. Exists(l) => \E c \in {req[r].id, Damaged} :
          /\ c = Damaged => ~dirs[l].torn
          /\ dirs' = [dirs EXCEPT ![l] = [dirs[l] EXCEPT !.content = c, !.torn = FALSE]]
  BY StoreWriteEffect
<1>4. \A x \in Request \ {r} : req'[x].at = req[x].at /\ req'[x].dst = req[x].dst
  BY <1>1 DEF Others, SameFiles, Onward
<1>5. ASSUME NEW m, NEW x \in Request
      PROVE  Writing(x, m)' <=> (Writing(x, m) /\ x # r)
  BY <1>1, <1>4, IdleFields DEF Writing
<1>6. Writing(r, l)
  BY <1>1 DEF Writing
<1>7. CASE l \notin DOMAIN dirs
  BY <1>1, <1>2, <1>4, <1>5, <1>6, <1>7 DEF Exists
<1>8. CASE l \in DOMAIN dirs
  <2>1. PICK c \in {req[r].id, Damaged} :
            /\ c = Damaged => ~dirs[l].torn
            /\ dirs' = [dirs EXCEPT ![l] = [dirs[l] EXCEPT !.content = c, !.torn = FALSE]]
    BY <1>3, <1>8 DEF Exists
  <2>2. DOMAIN dirs[l] = {"content", "torn", "attachment", "versions"}
    BY <1>8, DirectoryFields DEF FilesInv, IsDirectory
  <2>3. /\ DOMAIN dirs' = DOMAIN dirs /\ \A m \in DOMAIN dirs \ {l} : dirs'[m] = dirs[m]
        /\ dirs'[l].content = c /\ dirs'[l].versions = dirs[l].versions
    BY <1>8, <2>1, <2>2
  <2>4. ~dirs'[l].torn
    BY <1>8, <2>1, <2>2
  <2>5. VersionsOf(dirs'[l]) = VersionsOf(dirs[l])
    BY <2>3 DEF VersionsOf
  <2>6. QED
    BY <1>1, <1>4, <1>5, <1>6, <2>1, <2>3, <2>4, <2>5
<1>9. QED
  BY <1>7, <1>8

----------------------------------------------------------------------------
(* Damage.                                                                 *)

LEMMA StoreCopyDamage ==
    ASSUME TypeInv, TypeInv', DamageInv, NEW r \in Request, StoreCopy(r)
    PROVE  DamageInv'
<1> PICK l : l = req[r].src
  OBVIOUS
<1>1. /\ l \in DOMAIN dirs /\ Still /\ DOMAIN dirs' = DOMAIN dirs
      /\ \A m \in DOMAIN dirs \ {l} : dirs'[m] = dirs[m]
      /\ overlapped' = (overlapped \/ OpenElsewhere(r, l))
  BY StoreCopyMoves
<1>2. PICK copied :
          /\ copied = IF dirs[l].torn THEN Damaged ELSE dirs[l].content
          /\ VersionsOf(dirs'[l]) = WithVersion(VersionsOf(dirs[l]), req[r].ms, copied)
  BY StoreCopyMoves
<1>3. Carried
  BY <1>1, StillIsCarried DEF DamageInv
<1>4. WritersInv' /\ TornInv' /\ ExclusiveInv'
  BY <1>1, <1>3, CarriedDamage
<1>5. UndamagedInv'
  <2>1. SUFFICES ASSUME NEW m \in DOMAIN dirs',
                        Damaged \in {dirs'[m].content} \cup Range(VersionsOf(dirs'[m]))
                 PROVE  crashes' > 0 \/ overlapped'
    BY DEF UndamagedInv
  <2>2. CASE Damaged \in {dirs[m].content} \cup Range(VersionsOf(dirs[m]))
    BY <1>1, <2>1, <2>2 DEF DamageInv, UndamagedInv, Still
  <2>3. CASE Damaged \notin {dirs[m].content} \cup Range(VersionsOf(dirs[m]))
    <3>1. m = l /\ Damaged \in Range(VersionsOf(dirs'[l]))
      BY <1>1, <2>1, <2>3 DEF Still
    <3>2. copied = Damaged
      BY <1>2, <2>3, <3>1 DEF WithVersion, Range
    <3>3. dirs[l].torn
      BY <1>2, <2>3, <3>1, <3>2
    <3>4. crashes > 0 \/ \E x \in Request : Writing(x, l)
      BY <1>1, <3>3 DEF DamageInv, TornInv
    <3>5. ~Writing(r, l)
      BY DEF StoreCopy, At, Writing
    <3>6. QED
      BY <1>1, <3>4, <3>5 DEF OpenElsewhere, Still
  <2>4. QED
    BY <2>2, <2>3
<1>6. QED
  BY <1>4, <1>5 DEF DamageInv

LEMMA StoreOpenDamage ==
    ASSUME TypeInv, TypeInv', DamageInv, NEW r \in Request, StoreOpen(r)
    PROVE  DamageInv'
<1> PICK l : l = req[r].src
  OBVIOUS
<1>1. /\ l \in DOMAIN dirs
      /\ DOMAIN dirs' = DOMAIN dirs /\ \A m \in DOMAIN dirs \ {l} : dirs'[m] = dirs[m]
      /\ dirs'[l].content = Visible(l) /\ dirs'[l].torn
      /\ VersionsOf(dirs'[l]) = VersionsOf(dirs[l])
  BY StoreOpenMoves
<1>2. /\ \A m \in DOMAIN dirs, x \in Request :
            Writing(x, m)' <=> (Writing(x, m) \/ (x = r /\ m = l))
      /\ \A m : ~Writing(r, m)
  BY StoreOpenMoves
<1>3. /\ \A x \in Request : req'[x].at = "write" => req'[x].dst = IF x = r THEN l ELSE req[x].dst
      /\ \A x \in Request \ {r} : req'[x].at = req[x].at
      /\ overlapped' = (overlapped \/ OpenElsewhere(r, l)) /\ UNCHANGED crashes
  BY StoreOpenMoves
<1> USE DEF DamageInv
<1>4. WritersInv'
  <2>1. SUFFICES ASSUME NEW x \in Request, req'[x].at = "write", req'[x].dst # Nowhere
                 PROVE  HasFile(req[x].dst)'
    BY DEF WritersInv
  <2>2. CASE req'[x].dst = l
    BY <1>1, <2>2 DEF HasFile, Exists
  <2>3. CASE req'[x].dst # l
    <3>1. x # r /\ req[x].at = "write" /\ req'[x].dst = req[x].dst
      BY <1>3, <2>1, <2>3
    <3>2. HasFile(req[x].dst)
      BY <2>1, <3>1 DEF WritersInv
    <3>3. QED
      BY <1>1, <2>3, <3>1, <3>2 DEF HasFile, Exists
  <2>4. QED
    BY <2>2, <2>3
<1>5. TornInv'
  <2>1. SUFFICES ASSUME NEW m \in DOMAIN dirs', dirs'[m].torn
                 PROVE  crashes' > 0 \/ \E x \in Request : Writing(x, m)'
    BY DEF TornInv
  <2>2. CASE m = l
    BY <1>1, <1>2, <2>2
  <2>3. CASE m # l
    <3>1. crashes > 0 \/ \E x \in Request : Writing(x, m)
      BY <1>1, <2>1, <2>3 DEF TornInv
    <3>2. QED
      BY <1>1, <1>2, <1>3, <3>1
  <2>4. QED
    BY <2>2, <2>3
<1>6. ExclusiveInv'
  <2>1. SUFFICES ASSUME ~overlapped', NEW x \in Request, NEW m \in DOMAIN dirs', Writing(x, m)'
                 PROVE  dirs'[m].torn /\ \A y \in Request : Writing(y, m)' => y = x
    BY DEF ExclusiveInv
  <2>2. ~overlapped /\ \A y \in Request \ {r} : ~Writing(y, l)
    BY <1>3, <2>1 DEF OpenElsewhere
  <2>3. CASE m = l
    <3>1. \A y \in Request : Writing(y, l)' => y = r
      BY <1>1, <1>2, <2>2
    <3>2. QED
      BY <1>1, <2>1, <2>3, <3>1
  <2>4. CASE m # l
    <3>1. \A y \in Request : Writing(y, m)' <=> Writing(y, m)
      BY <1>1, <1>2, <2>4
    <3>2. dirs[m].torn /\ \A y \in Request : Writing(y, m) => y = x
      BY <1>1, <2>1, <2>2, <3>1 DEF ExclusiveInv
    <3>3. QED
      BY <1>1, <2>4, <3>1, <3>2
  <2>5. QED
    BY <2>3, <2>4
<1>7. UndamagedInv'
  <2>1. SUFFICES ASSUME NEW m \in DOMAIN dirs',
                        Damaged \in {dirs'[m].content} \cup Range(VersionsOf(dirs'[m]))
                 PROVE  crashes' > 0 \/ overlapped'
    BY DEF UndamagedInv
  <2>2. CASE Damaged \in {dirs[m].content} \cup Range(VersionsOf(dirs[m]))
    BY <1>1, <1>3, <2>2 DEF UndamagedInv
  <2>3. CASE Damaged \notin {dirs[m].content} \cup Range(VersionsOf(dirs[m]))
    <3>1. m = l /\ Visible(l) = Damaged
      BY <1>1, <2>1, <2>3
    <3>2. dirs[l].torn /\ ~\E x \in Request : Writing(x, l)
      BY <2>3, <3>1 DEF Visible
    <3>3. QED
      BY <1>1, <1>3, <3>2 DEF TornInv
  <2>4. QED
    BY <2>2, <2>3
<1>8. QED
  BY <1>4, <1>5, <1>6, <1>7

LEMMA StoreWriteDamage ==
    ASSUME TypeInv, TypeInv', DamageInv, NEW r \in Request, StoreWrite(r)
    PROVE  DamageInv'
<1> PICK l : l = req[r].dst
  OBVIOUS
<1>1. /\ DOMAIN dirs' = DOMAIN dirs /\ \A m \in DOMAIN dirs \ {l} : dirs'[m] = dirs[m]
      /\ l \in DOMAIN dirs =>
            /\ dirs'[l].content \in {req[r].id, Damaged} /\ ~dirs'[l].torn
            /\ dirs'[l].content = Damaged => ~dirs[l].torn
            /\ VersionsOf(dirs'[l]) = VersionsOf(dirs[l])
  BY StoreWriteMoves
<1>2. /\ \A m : \A x \in Request : Writing(x, m)' <=> (Writing(x, m) /\ x # r)
      /\ \A x \in Request \ {r} : req'[x].at = req[x].at /\ req'[x].dst = req[x].dst
      /\ UNCHANGED <<crashes, overlapped>>
  BY StoreWriteMoves
<1>3. Writing(r, l) /\ IsRequest(req[r]) /\ req'[r].at # "write"
  BY StoreWriteMoves, IdleFields
<1>4. req[r].id \in Nat
  BY <1>3 DEF IsRequest, Fields
<1> USE DEF DamageInv
<1>5. WritersInv'
  <2>1. SUFFICES ASSUME NEW x \in Request, req'[x].at = "write", req'[x].dst # Nowhere
                 PROVE  HasFile(req[x].dst)'
    BY DEF WritersInv
  <2>2. x # r /\ req[x].at = "write" /\ req'[x].dst = req[x].dst
    BY <1>2, <1>3, <2>1
  <2>3. HasFile(req[x].dst)
    BY <2>1, <2>2 DEF WritersInv
  <2>4. CASE req[x].dst = l
    <3>1. dirs'[l].content # Absent
      BY <1>1, <1>4, <2>3, <2>4, AbsentIsNotContent DEF HasFile, Exists, Content
    <3>2. QED
      BY <1>1, <2>2, <2>3, <2>4, <3>1 DEF HasFile, Exists
  <2>5. CASE req[x].dst # l
    BY <1>1, <2>2, <2>3, <2>5 DEF HasFile, Exists
  <2>6. QED
    BY <2>4, <2>5
<1>6. TornInv'
  <2>1. SUFFICES ASSUME NEW m \in DOMAIN dirs', dirs'[m].torn
                 PROVE  crashes' > 0 \/ \E x \in Request : Writing(x, m)'
    BY DEF TornInv
  <2>2. m # l /\ m \in DOMAIN dirs /\ dirs[m].torn
    BY <1>1, <2>1
  <2>3. ~Writing(r, m)
    BY <1>3, <2>2 DEF Writing
  <2>4. crashes > 0 \/ \E x \in Request : Writing(x, m)
    BY <2>2 DEF TornInv
  <2>5. QED
    BY <1>2, <2>3, <2>4
<1>7. ExclusiveInv'
  <2>1. SUFFICES ASSUME ~overlapped', NEW x \in Request, NEW m \in DOMAIN dirs', Writing(x, m)'
                 PROVE  dirs'[m].torn /\ \A y \in Request : Writing(y, m)' => y = x
    BY DEF ExclusiveInv
  <2>2. ~overlapped /\ Writing(x, m) /\ x # r /\ m \in DOMAIN dirs
    BY <1>1, <1>2, <2>1
  <2>3. dirs[m].torn /\ \A y \in Request : Writing(y, m) => y = x
    BY <2>2 DEF ExclusiveInv
  <2>4. m # l
    BY <1>3, <2>2, <2>3
  <2>5. QED
    BY <1>1, <1>2, <2>2, <2>3, <2>4
<1>8. UndamagedInv'
  <2>1. SUFFICES ASSUME NEW m \in DOMAIN dirs',
                        Damaged \in {dirs'[m].content} \cup Range(VersionsOf(dirs'[m]))
                 PROVE  crashes' > 0 \/ overlapped'
    BY DEF UndamagedInv
  <2>2. CASE Damaged \in {dirs[m].content} \cup Range(VersionsOf(dirs[m]))
    BY <1>1, <1>2, <2>1, <2>2 DEF UndamagedInv
  <2>3. CASE Damaged \notin {dirs[m].content} \cup Range(VersionsOf(dirs[m]))
    <3>1. m = l /\ dirs'[l].content = Damaged /\ l \in DOMAIN dirs
      BY <1>1, <2>1, <2>3
    <3>2. ~dirs[l].torn
      BY <1>1, <3>1
    <3>3. overlapped
      BY <1>3, <3>1, <3>2 DEF ExclusiveInv
    <3>4. QED
      BY <1>2, <3>3
  <2>4. QED
    BY <2>2, <2>3
<1>9. QED
  BY <1>5, <1>6, <1>7, <1>8

LEMMA CrashDamage ==
    ASSUME TypeInv, TypeInv', DamageInv, Crash
    PROVE  DamageInv'
<1>1. /\ overlapped' = overlapped /\ crashes' = crashes + 1
      /\ req' = [x \in Request |-> Idle] /\ crashes \in Nat
  BY CrashEffect DEF TypeInv, CountersInv
<1>2. crashes' > 0
  BY <1>1
<1>3. \A x \in Request : req'[x].at # "write"
  BY <1>1, IdleFields
<1>4. WritersInv' /\ ExclusiveInv'
  BY <1>3 DEF WritersInv, ExclusiveInv, Writing
<1>5. TornInv' /\ UndamagedInv'
  BY <1>2 DEF TornInv, UndamagedInv
<1>6. QED
  BY <1>4, <1>5 DEF DamageInv

LEMMA DamageKept == TypeInv /\ DamageInv /\ [Next]_vars => DamageInv'
<1> SUFFICES ASSUME TypeInv, DamageInv, [Next]_vars PROVE DamageInv'
  OBVIOUS
<1>1. TypeInv'
  BY TypesKept
<1>2. ASSUME Carried, Versioned(dirs)' \subseteq Versioned(dirs), overlapped => overlapped'
      PROVE  DamageInv'
  <2>1. WritersInv' /\ TornInv' /\ ExclusiveInv'
    BY <1>1, <1>2, CarriedDamage
  <2>2. UndamagedInv'
    BY <1>1, <1>2, CarriedUndamaged
  <2>3. QED
    BY <2>1, <2>2 DEF DamageInv
<1>3. ASSUME Quiet PROVE DamageInv'
  <2>1. Carried
    BY <1>1, <1>3, StillIsCarried DEF Quiet, DamageInv
  <2>2. QED
    BY <1>2, <1>3, <2>1, QuietVersions DEF Quiet
<1>4. ASSUME NEW r \in Request, Step(r) PROVE DamageInv'
  <2>1. CASE Rename(r) \/ RemoveAloneEntry(r) \/ PurgeOne(r)
    <3>1. Carried /\ Versioned(dirs)' \subseteq Versioned(dirs) /\ UNCHANGED overlapped
      BY <1>1, <2>1, RenameIsCarried, RemoveAloneEntryIsCarried, PurgeOneIsCarried DEF DamageInv
    <3>2. QED
      BY <1>2, <3>1
  <2>2. QED
    BY <1>1, <1>3, <1>4, <2>1, QuietCases, StoreCopyDamage, StoreOpenDamage, StoreWriteDamage
<1>5. CASE UNCHANGED vars
  BY <1>3, <1>5 DEF vars, Quiet, Still, SameWriters
<1>6. QED
  BY <1>1, <1>3, <1>4, <1>5, TickIsQuiet, CrashDamage DEF Next

LEMMA InitDamage == Init => DamageInv
<1> SUFFICES ASSUME Init PROVE DamageInv
  OBVIOUS
<1>1. dirs \in InitialDirs /\ req = [r \in Request |-> Idle]
  BY DEF Init
<1>2. \A x \in Request : req[x].at # "write"
  BY <1>1, IdleFields
<1>3. WritersInv /\ ExclusiveInv
  BY <1>2 DEF WritersInv, ExclusiveInv, Writing
<1>4. TornInv
  BY <1>1, InitialDirsAssumption DEF TornInv
<1>5. UndamagedInv
  <2>1. SUFFICES ASSUME NEW l \in DOMAIN dirs
                 PROVE  Damaged \notin {dirs[l].content} \cup Range(VersionsOf(dirs[l]))
    BY DEF UndamagedInv
  <2>2. /\ dirs[l].content \in (0 .. NewContent - 1) \cup {Absent}
        /\ dirs[l].versions # Absent => Damaged \notin Range(dirs[l].versions)
    BY <1>1, InitialDirsAssumption
  <2>3. dirs[l].content # Damaged
    <3>1. NewContent \in Nat
      BY DocumentStoreAssumption
    <3>2. QED
      BY <2>2, <3>1, AbsentIsNotContent
  <2>4. Damaged \notin Range(VersionsOf(dirs[l]))
    BY <2>2 DEF VersionsOf, Range
  <2>5. QED
    BY <2>3, <2>4
<1>6. QED
  BY <1>3, <1>4, <1>5 DEF DamageInv

LEMMA DamageImplied == DamageInv => DamageHasCause
BY DEF DamageInv, TornInv, UndamagedInv, DamageHasCause

\* The files are as their writers, the crashes and the overlaps make them.
THEOREM DamageInvariant == Spec => []DamageInv
<1>1. Init => TypeInv /\ DamageInv
  BY InitTypes, InitDamage
<1>2. TypeInv /\ DamageInv /\ [Next]_vars => (TypeInv /\ DamageInv)'
  BY TypesKept, DamageKept
<1>3. QED
  BY <1>1, <1>2, PTL DEF Spec

\* A file is truncated only while a store of it is under way, after a crash, or
\* after two stores of it have overlapped, whatever the requests and their order.
THEOREM DamageNeedsCause == Spec => []DamageHasCause
BY DamageInvariant, DamageImplied, PTL

----------------------------------------------------------------------------
(* What every step does to the requests that do not take it.               *)

LEMMA UnchangedIsOnward ==
    ASSUME TypeInv, NEW r \in Request, dirs' = dirs, \A x \in Request \ {r} : req'[x] = req[x]
    PROVE  Others(r)
<1>1. ASSUME NEW x \in Request \ {r}
      PROVE  Onward(req[x], req'[x], dirs')
  <2> PICK q : q = req[x]
    OBVIOUS
  <2>1. req'[x] = q /\ IsRequest(q)
    BY DEF TypeInv, RequestsInv
  <2>2. DOMAIN q = DOMAIN Idle /\ q.alone \in BOOLEAN
    BY <2>1 DEF IsRequest, Fields
  <2>3. Onward(q, q, dirs)
    BY <2>2 DEF Onward
  <2>4. QED
    BY <2>1, <2>3
<1>2. QED
  BY <1>1 DEF Others

LEMMA LooksAreLooks ==
    ASSUME TypeInv, NEW r \in Request,
           \/ StoreLook(r) \/ RecoverLook(r) \/ RemoveAloneList(r) \/ PurgeFind(r) \/ PurgeEnds(r)
           \/ List(r) \/ Describe(r) \/ RetrieveAttachments(r) \/ RetrieveVersions(r)
           \/ RetrieveRead(r) \/ Fail(r)
    PROVE  \E q : Look(r, q)
<1>1. CASE Describe(r)
  BY <1>1, DescribeEffect
<1>2. CASE ~Describe(r)
  BY <1>2 DEF StoreLook, RecoverLook, RemoveAloneList, PurgeFind, PurgeEnds, List,
     RetrieveAttachments, RetrieveVersions, RetrieveRead, Fail
<1>3. QED
  BY <1>1, <1>2

LEMMA StepOthers ==
    ASSUME TypeInv, NEW r \in Request, Step(r)
    PROVE  Others(r)
<1>1. CASE Beginning(r)
  <2>1. PICK q : Begin(r, q)
    BY <1>1, BeginTypes
  <2>2. dirs' = dirs /\ \A x \in Request \ {r} : req'[x] = req[x]
    BY <2>1, BeginEffect
  <2>3. QED
    BY <2>2, UnchangedIsOnward
<1>2. CASE \/ StoreLook(r) \/ RecoverLook(r) \/ RemoveAloneList(r) \/ PurgeFind(r) \/ PurgeEnds(r)
           \/ List(r) \/ Describe(r) \/ RetrieveAttachments(r) \/ RetrieveVersions(r)
           \/ RetrieveRead(r) \/ Fail(r)
  <2>1. PICK q : Look(r, q)
    BY <1>2, LooksAreLooks
  <2>2. dirs' = dirs /\ \A x \in Request \ {r} : req'[x] = req[x]
    BY <2>1, LookEffect DEF TypeInv
  <2>3. QED
    BY <2>2, UnchangedIsOnward
<1>3. CASE StoreMkdir(r)
  BY <1>3, HereEffect DEF StoreMkdir, TypeInv
<1>4. CASE StoreMkdirVersions(r) \/ StoreCopy(r) \/ StoreOpen(r) \/ StoreWrite(r)
  BY <1>4, StoreMkdirVersionsEffect, StoreCopyEffect, StoreOpenEffect, StoreWriteEffect
<1>5. CASE Mkdir(r) \/ Rename(r) \/ RemoveAloneMkdir(r) \/ RemoveAloneEntry(r)
  BY <1>5, MkdirEffect, RenameEffect, RemoveAloneMkdirEffect, RemoveAloneEntryEffect
<1>6. CASE PurgeOne(r) \/ RemoveVersion(r) \/ Upload(r) \/ Detach(r)
  BY <1>6, PurgeOneEffect, RemoveVersionEffect, AttachmentEffect
<1>7. QED
  BY <1>1, <1>2, <1>3, <1>4, <1>5, <1>6, StepCases

----------------------------------------------------------------------------
(* What a versioned store is about to replace is kept as a version.        *)

Opening(q) == q.kind = "store" /\ q.at = "open" /\ q.versioning

LEMMA OthersSeen ==
    ASSUME SeenInv, NEW r \in Request, Others(r), NEW x \in Request \ {r},
           Opening(req'[x]), req'[x].seen # Absent
    PROVE  req'[x].seen \in Versioned(dirs')
<1>1. Onward(req[x], req'[x], dirs')
  BY DEF Others
<1>2. Opening(req[x]) /\ req'[x].seen = req[x].seen
  BY <1>1 DEF Onward, Opening
<1>3. req[x].seen \in Versioned(dirs)
  BY <1>2 DEF SeenInv, Opening
<1>4. QED
  BY <1>1, <1>2, <1>3 DEF Onward

\* Only a look and a copy come before an opening.
LEMMA BeforeOpening ==
    ASSUME TypeInv, NEW r \in Request, Step(r), Opening(req'[r])
    PROVE  StoreLook(r) \/ StoreCopy(r)
<1> USE DEF TypeInv
<1>1. SUFFICES ASSUME ~StoreLook(r), ~StoreCopy(r)
               PROVE  req'[r].kind # "store" \/ req'[r].at # "open"
  BY DEF Opening
<1>2. IsRequest(req[r])
  BY DEF RequestsInv
<1>3. CASE Beginning(r)
  <2>1. PICK q : Begin(r, q) /\ Begun(q)
    BY <1>3, BeginIsBegun
  <2>2. QED
    BY <2>1, BeginEffect DEF Begun
<1>4. CASE req'[r] = Idle
  BY <1>4, IdleFields
<1>5. CASE StoreMkdir(r)
  <2>1. req'[r] = Going(r, "look")
    BY <1>5, HereEffect DEF StoreMkdir
  <2>2. Going(r, "look").at = "look"
    BY <1>2, GoingOn DEF Going
  <2>3. QED
    BY <2>1, <2>2
<1>6. CASE StoreMkdirVersions(r)
  <2>1. req'[r] = Going(r, "copy")
    BY <1>6, StoreMkdirVersionsEffect
  <2>2. Going(r, "copy").at = "copy"
    BY <1>2, GoingOn DEF Going
  <2>3. QED
    BY <2>1, <2>2
<1>7. CASE StoreOpen(r)
  <2> PICK p : p = [req[r] EXCEPT !.at = "write", !.dst = req[r].src]
    OBVIOUS
  <2>1. req'[r] = p
    BY <1>7, StoreOpenEffect
  <2>2. p.at = "write"
    BY <1>2, IdleFields DEF IsRequest, Fields
  <2>3. QED
    BY <2>1, <2>2
<1>8. CASE Mkdir(r) \/ RemoveAloneMkdir(r)
  <2>1. PICK at \in {"rename", "list"} : req'[r] = Going(r, at)
    BY <1>8, MkdirEffect, RemoveAloneMkdirEffect
  <2>2. Going(r, at).at = at
    BY <1>2, GoingOn DEF Going
  <2>3. QED
    BY <2>1, <2>2
<1>9. CASE RecoverLook(r)
  <2>1. Look(r, Idle) \/ Look(r, Going(r, "mkdir"))
    BY <1>9 DEF RecoverLook
  <2>2. Going(r, "mkdir").at = "mkdir"
    BY <1>2, GoingOn DEF Going
  <2>3. QED
    BY <2>1, <2>2, LookEffect, IdleFields
<1>10. CASE RemoveAloneList(r)
  <2> PICK p : p = [Going(r, "entries") EXCEPT !.entries = EntriesOf(req[r].src)]
    OBVIOUS
  <2>1. p.at = "entries"
    BY <1>2, IdleFields DEF IsRequest, Fields, Going
  <2>2. Look(r, p) \/ Look(r, Idle)
    BY <1>10 DEF RemoveAloneList
  <2>3. QED
    BY <2>1, <2>2, LookEffect, IdleFields
<1>11. CASE RemoveAloneEntry(r)
  <2>1. PICK e \in {"content", "attachment", "versions"} :
            req'[r] = IF req[r].entries = {e} THEN Idle
                      ELSE [req[r] EXCEPT !.entries = req[r].entries \ {e}]
    BY <1>11, RemoveAloneEntryEffect
  <2> PICK p : p = [req[r] EXCEPT !.entries = req[r].entries \ {e}]
    OBVIOUS
  <2>2. p.at = "entries"
    BY <1>2, <1>11, RemoveAloneEntryEffect, IdleFields DEF IsRequest, Fields
  <2>3. req'[r] = Idle \/ req'[r] = p
    BY <2>1
  <2>4. QED
    BY <2>2, <2>3, IdleFields
<1>12. CASE PurgeFind(r) \/ PurgeOne(r)
  <2>1. CASE PurgeFind(r)
    <3>1. req'[r] = Going(r, "rm")
      BY <2>1, LookEffect DEF PurgeFind
    <3>2. Going(r, "rm").at = "rm"
      BY <1>2, GoingOn DEF Going
    <3>3. QED
      BY <3>1, <3>2
  <2>2. QED
    BY <1>12, <2>1, PurgeOneEffect, IdleFields
<1>13. CASE List(r) \/ Describe(r) \/ RetrieveAttachments(r) \/ RetrieveVersions(r) \/ RetrieveRead(r)
  <2>1. req'[r].kind # "store"
    BY <1>13, ReadingStays, IdleFields
  <2>2. QED
    BY <2>1
<1>14. CASE \/ Rename(r) \/ StoreWrite(r) \/ PurgeEnds(r) \/ RemoveVersion(r)
            \/ Upload(r) \/ Detach(r) \/ Fail(r)
  <2>1. req'[r] = Idle
    BY <1>14, RenameEffect, StoreWriteEffect, RemoveVersionEffect, AttachmentEffect, LookEffect
       DEF PurgeEnds, Fail
  <2>2. QED
    BY <1>4, <2>1
<1>15. QED
  BY <1>1, <1>3, <1>5, <1>6, <1>7, <1>8, <1>9, <1>10, <1>11, <1>12, <1>13, <1>14, StepCases

LEMMA StoreLookSeen ==
    ASSUME TypeInv, NEW r \in Request, StoreLook(r), Opening(req'[r])
    PROVE  req'[r].seen = Absent
<1> PICK l : l = req[r].src
  OBVIOUS
<1> PICK at : at = IF req[r].versioning /\ HasFile(l) THEN "mkdirVersions" ELSE "open"
  OBVIOUS
<1> PICK p : p = [req[r] EXCEPT !.at = at, !.ms = now, !.seen = WholeContent(l)]
  OBVIOUS
<1>1. IsRequest(req[r])
  BY DEF TypeInv, RequestsInv
<1>2. req'[r] = p
  <2>1. Look(r, p)
    BY DEF StoreLook
  <2>2. QED
    BY <2>1, LookEffect DEF TypeInv
<1>3. p.at = at /\ p.versioning = req[r].versioning /\ p.seen = WholeContent(l)
  BY <1>1, IdleFields DEF IsRequest, Fields
<1>4. ~HasFile(l)
  BY <1>2, <1>3 DEF Opening
<1>5. QED
  BY <1>2, <1>3, <1>4 DEF WholeContent

LEMMA StoreCopySeen ==
    ASSUME TypeInv, NEW r \in Request, StoreCopy(r), req'[r].seen # Absent
    PROVE  req'[r].seen \in Versioned(dirs')
<1> PICK l : l = req[r].src
  OBVIOUS
<1>1. /\ l \in DOMAIN dirs /\ DOMAIN dirs' = DOMAIN dirs
      /\ req'[r].seen = WholeContent(l)
  BY StoreCopyMoves
<1>2. PICK copied :
          /\ copied = IF dirs[l].torn THEN Damaged ELSE dirs[l].content
          /\ VersionsOf(dirs'[l]) = WithVersion(VersionsOf(dirs[l]), req[r].ms, copied)
  BY StoreCopyMoves
<1>3. req'[r].seen = copied
  BY <1>1, <1>2 DEF WholeContent
<1>4. copied \in Range(VersionsOf(dirs'[l]))
  BY <1>2 DEF WithVersion, Range
<1>5. QED
  BY <1>1, <1>3, <1>4 DEF Versioned

LEMMA SeenKept == TypeInv /\ SeenInv /\ [Next]_vars => SeenInv'
<1> SUFFICES ASSUME TypeInv, SeenInv, [Next]_vars PROVE SeenInv'
  OBVIOUS
<1>1. ASSUME NEW r \in Request, Step(r) PROVE SeenInv'
  <2>1. SUFFICES ASSUME NEW x \in Request, Opening(req'[x]), req'[x].seen # Absent
                 PROVE  req'[x].seen \in Versioned(dirs')
    BY DEF SeenInv, Opening
  <2>2. CASE x # r
    BY <1>1, <2>1, <2>2, StepOthers, OthersSeen
  <2>3. CASE x = r
    BY <1>1, <2>1, <2>3, BeforeOpening, StoreLookSeen, StoreCopySeen
  <2>4. QED
    BY <2>2, <2>3
<1>2. CASE Crash
  <2>1. \A x \in Request : req'[x] = Idle
    BY <1>2 DEF Crash
  <2>2. QED
    BY <2>1, IdleFields DEF SeenInv
<1>3. CASE Tick \/ UNCHANGED vars
  BY <1>3 DEF Tick, vars, SeenInv
<1>4. QED
  BY <1>1, <1>2, <1>3 DEF Next

LEMMA InitSeen == Init => SeenInv
BY IdleFields DEF Init, SeenInv

----------------------------------------------------------------------------
(* What is held stays held.                                                *)

LEMMA HeldIn ==
    ASSUME NEW c
    PROVE  /\ c \in Held <=> \E l \in DOMAIN dirs : c \in Contents(l)
           /\ c \in Held' <=> \E l \in DOMAIN dirs' : c \in Contents(l)'
BY DEF Held

\* Two directories hold the same.
LEMMA SameContents ==
    ASSUME NEW l, NEW m, dirs'[m].torn = dirs[l].torn, dirs'[m].content = dirs[l].content,
           Range(VersionsOf(dirs[l])) \subseteq Range(VersionsOf(dirs'[m])), NEW c \in Contents(l)
    PROVE  c \in Contents(m)'
BY DEF Contents

LEMMA QuietKeeps ==
    ASSUME Quiet, Keeps, NEW c \in Held
    PROVE  c \in Held'
<1>1. PICK l \in DOMAIN dirs : c \in Contents(l)
  BY HeldIn
<1>2. l \in DOMAIN dirs' /\ c \in Contents(l)'
  BY <1>1, SameContents DEF Quiet, Still, Keeps
<1>3. QED
  BY <1>2, HeldIn

LEMMA StoreCopyKeeps ==
    ASSUME TypeInv, NEW r \in Request, StoreCopy(r), NEW c \in Held, c \notin Held'
    PROVE  req[r].ms \in DOMAIN VersionsOf(dirs[req[r].src])
<1> PICK l : l = req[r].src
  OBVIOUS
<1>1. /\ l \in DOMAIN dirs /\ Still /\ DOMAIN dirs' = DOMAIN dirs
      /\ \A m \in DOMAIN dirs \ {l} : dirs'[m] = dirs[m]
  BY StoreCopyMoves
<1>2. PICK copied : VersionsOf(dirs'[l]) = WithVersion(VersionsOf(dirs[l]), req[r].ms, copied)
  BY StoreCopyMoves
<1>3. SUFFICES ASSUME req[r].ms \notin DOMAIN VersionsOf(dirs[l])
               PROVE  FALSE
  OBVIOUS
<1>4. Range(VersionsOf(dirs[l])) \subseteq Range(VersionsOf(dirs'[l]))
  BY <1>2, <1>3 DEF WithVersion, Range
<1>5. PICK m \in DOMAIN dirs : c \in Contents(m)
  BY HeldIn
<1>6. c \in Contents(m)'
  <2>1. Range(VersionsOf(dirs[m])) \subseteq Range(VersionsOf(dirs'[m]))
    BY <1>1, <1>4
  <2>2. QED
    BY <1>1, <1>5, <2>1, SameContents DEF Still
<1>7. QED
  BY <1>1, <1>6, HeldIn

LEMMA StoreOpenKeeps ==
    ASSUME TypeInv, SeenInv, NEW r \in Request, StoreOpen(r), NEW c \in Held, c \notin Held'
    PROVE  ~req[r].versioning \/ req[r].seen # c
<1> PICK l : l = req[r].src
  OBVIOUS
<1>1. /\ req[r].kind = "store" /\ req[r].at = "open" /\ l \in DOMAIN dirs
      /\ DOMAIN dirs' = DOMAIN dirs /\ \A m \in DOMAIN dirs \ {l} : dirs'[m] = dirs[m]
      /\ VersionsOf(dirs'[l]) = VersionsOf(dirs[l])
  BY StoreOpenMoves
<1>2. SUFFICES ASSUME req[r].versioning, req[r].seen = c
               PROVE  FALSE
  OBVIOUS
<1>3. c \notin {Absent, Damaged}
  BY DEF Held, Contents
<1>4. c \in Versioned(dirs)
  BY <1>1, <1>2, <1>3 DEF SeenInv
<1>5. PICK m \in DOMAIN dirs : c \in Range(VersionsOf(dirs[m]))
  BY <1>4 DEF Versioned
<1>6. c \in Range(VersionsOf(dirs'[m]))
  BY <1>1, <1>5
<1>7. c \in Contents(m)'
  BY <1>3, <1>6 DEF Contents
<1>8. QED
  BY <1>1, <1>7, HeldIn

LEMMA StoreWriteKeeps ==
    ASSUME TypeInv, ExclusiveInv, NEW r \in Request, StoreWrite(r), NEW c \in Held, c \notin Held'
    PROVE  overlapped
<1> PICK l : l = req[r].dst
  OBVIOUS
<1>1. /\ Writing(r, l)
      /\ DOMAIN dirs' = DOMAIN dirs /\ \A m \in DOMAIN dirs \ {l} : dirs'[m] = dirs[m]
      /\ l \in DOMAIN dirs => VersionsOf(dirs'[l]) = VersionsOf(dirs[l])
  BY StoreWriteMoves
<1>2. PICK m \in DOMAIN dirs : c \in Contents(m)
  BY HeldIn
<1>3. c \notin Contents(m)'
  BY <1>1, <1>2, HeldIn
<1>4. m = l
  BY <1>1, <1>2, <1>3, SameContents
<1>5. ~dirs[l].torn
  BY <1>1, <1>2, <1>3, <1>4 DEF Contents
<1>6. QED
  BY <1>1, <1>2, <1>4, <1>5 DEF ExclusiveInv

LEMMA RenameKeeps ==
    ASSUME TypeInv, WritersInv, NEW r \in Request, Rename(r), NEW c \in Held
    PROVE  c \in Held'
<1> PICK src, dst : src = req[r].src /\ dst = req[r].dst
  OBVIOUS
<1>1. /\ \A l \in DOMAIN dirs \ Kept(src, dst) : dirs[l] = EmptyDir
      /\ \A k \in Kept(src, dst) :
            /\ Relocated(k, src, dst) \in DOMAIN dirs'
            /\ dirs'[Relocated(k, src, dst)] = dirs[k]
  <2>1. TypeInv /\ WritersInv /\ Rename(r) /\ r \in Request /\ src = req[r].src /\ dst = req[r].dst
    OBVIOUS
  <2>2. QED
    BY ONLY <2>1, RenameMoves
<1>2. PICK k \in DOMAIN dirs : c \in Contents(k)
  BY HeldIn
<1>3. dirs[k] # EmptyDir
  BY <1>2, DirectoryFields, EmptyVersions DEF Contents
<1>4. k \in Kept(src, dst)
  BY <1>1, <1>3
<1> PICK m : m = Relocated(k, src, dst)
  OBVIOUS
<1>5. m \in DOMAIN dirs' /\ dirs'[m] = dirs[k]
  BY <1>1, <1>4
<1>6. c \in Contents(m)'
  BY <1>2, <1>5, SameContents
<1>7. QED
  BY <1>5, <1>6, HeldIn

LEMMA RemoveAloneEntryKeeps ==
    ASSUME TypeInv, WritersInv, NEW r \in Request, RemoveAloneEntry(r), NEW c \in Held, c \notin Held'
    PROVE  c \in HeldBelow(req[r].dst)
<1> PICK src, dst : src = req[r].src /\ dst = req[r].dst
  OBVIOUS
<1>1. /\ IsEntry(dst) /\ src # dst /\ src \in DOMAIN dirs /\ dst \in DOMAIN dirs
      /\ ContentMove(src, dst) \/ OtherMove(src, dst)
  BY RemoveAloneEntryMoves
<1>2. DOMAIN dirs' = DOMAIN dirs /\ \A l \in DOMAIN dirs \ {src, dst} : dirs'[l] = dirs[l]
  BY <1>1 DEF ContentMove, OtherMove
<1>3. PICK m \in DOMAIN dirs : c \in Contents(m)
  BY HeldIn
<1>4. c \notin Contents(m)' /\ c \notin Contents(src)' /\ c \notin Contents(dst)'
  BY <1>1, <1>2, <1>3, HeldIn
<1>5. m \in {src, dst}
  BY <1>2, <1>3, <1>4, SameContents
<1>6. m # src
  <2>1. CASE ContentMove(src, dst)
    <3>1. /\ VersionsOf(dirs'[src]) = VersionsOf(dirs[src])
          /\ dirs'[dst].content = dirs[src].content /\ dirs'[dst].torn = dirs[src].torn
      BY <1>1, <2>1 DEF ContentMove
    <3>2. QED
      BY <1>3, <1>4, <3>1 DEF Contents
  <2>2. CASE OtherMove(src, dst)
    <3>1. dirs'[src].content = dirs[src].content /\ dirs'[src].torn = dirs[src].torn
      BY <1>1, <2>2 DEF OtherMove, Still
    <3>2. \/ VersionsOf(dirs'[src]) = VersionsOf(dirs[src])
          \/ VersionsOf(dirs'[dst]) = VersionsOf(dirs[src])
      BY <2>2 DEF OtherMove
    <3>3. QED
      BY <1>3, <1>4, <3>1, <3>2 DEF Contents
  <2>3. QED
    BY <1>1, <2>1, <2>2
<1>7. IsPrefix(dst, dst)
  BY <1>1, PrefixElements DEF IsEntry, IsPlace
<1>8. QED
  BY <1>1, <1>3, <1>5, <1>6, <1>7 DEF HeldBelow

LEMMA PurgeOneKeeps ==
    ASSUME TypeInv, TypeInv', WritersInv, NEW r \in Request, PurgeOne(r), NEW c \in Held, c \notin Held'
    PROVE  c \in HeldBelow(req[r].src)
<1>1. PICK l \in DOMAIN dirs :
          /\ IsPrefix(req[r].src, l)
          /\ DOMAIN dirs' = DOMAIN dirs \ {l}
          /\ \A m \in DOMAIN dirs \ {l} : dirs'[m] = dirs[m]
  BY PurgeOneIsCarried
<1>2. PICK m \in DOMAIN dirs : c \in Contents(m)
  BY HeldIn
<1>3. m = l
  <2>1. SUFFICES ASSUME m # l PROVE FALSE
    OBVIOUS
  <2>2. m \in DOMAIN dirs' /\ dirs'[m] = dirs[m]
    BY <1>1, <2>1
  <2>3. c \in Contents(m)'
    BY <1>2, <2>2, SameContents
  <2>4. QED
    BY <2>2, <2>3, HeldIn
<1>4. QED
  BY <1>1, <1>2, <1>3 DEF HeldBelow

\* The step that ContentKept allows to lose c, by r.
Loses(c, r) ==
    \/ PurgeOne(r) /\ c \in HeldBelow(req[r].src)
    \/ RemoveVersion(r)
    \/ StoreOpen(r) /\ (~req[r].versioning \/ req[r].seen # c)
    \/ StoreWrite(r) /\ overlapped
    \/ /\ StoreCopy(r) \/ (Crash /\ r \in Copying)
       /\ req[r].ms \in DOMAIN VersionsOf(dirs[req[r].src])
    \/ RemoveAloneEntry(r) /\ c \in HeldBelow(req[r].dst)

LEMMA StepKeeps ==
    ASSUME TypeInv, TypeInv', DamageInv, SeenInv, NEW r \in Request, Step(r),
           NEW c \in Held, c \notin Held'
    PROVE  Loses(c, r)
<1> USE DEF DamageInv
<1>1. CASE Quiet /\ (Keeps \/ RemoveVersion(r))
  BY <1>1, QuietKeeps DEF Loses
<1>2. CASE StoreCopy(r) \/ StoreOpen(r) \/ StoreWrite(r)
  BY <1>2, StoreCopyKeeps, StoreOpenKeeps, StoreWriteKeeps DEF Loses
<1>3. CASE Rename(r) \/ RemoveAloneEntry(r) \/ PurgeOne(r)
  BY <1>3, RenameKeeps, RemoveAloneEntryKeeps, PurgeOneKeeps DEF Loses
<1>4. QED
  BY <1>1, <1>2, <1>3, QuietCases

\* A crash loses the version that a copy of the same instant was replacing.
LEMMA CrashKeeps ==
    ASSUME TypeInv, Crash, NEW c \in Held, c \notin Held'
    PROVE  \E r \in Copying : r \in Request /\ req[r].ms \in DOMAIN VersionsOf(dirs[req[r].src])
<1>1. PICK l \in DOMAIN dirs : c \in Contents(l)
  BY HeldIn
<1>2. /\ l \in DOMAIN dirs' /\ dirs'[l].content = dirs[l].content /\ dirs'[l].torn = dirs[l].torn
      /\ \A ms \in DOMAIN VersionsOf(dirs[l]) :
            \/ /\ ms \in DOMAIN VersionsOf(dirs'[l])
               /\ VersionsOf(dirs'[l])[ms] = VersionsOf(dirs[l])[ms]
            \/ \E r \in Copying : req[r].src = l /\ req[r].ms = ms
  BY CrashEffect
<1>3. c \notin Contents(l)'
  BY <1>2, HeldIn
<1>4. c \in Range(VersionsOf(dirs[l])) \ Range(VersionsOf(dirs'[l]))
  BY <1>1, <1>2, <1>3 DEF Contents
<1>5. PICK ms \in DOMAIN VersionsOf(dirs[l]) : c = VersionsOf(dirs[l])[ms]
  BY <1>4 DEF Range
<1>6. ~(ms \in DOMAIN VersionsOf(dirs'[l]) /\ VersionsOf(dirs'[l])[ms] = VersionsOf(dirs[l])[ms])
  BY <1>4, <1>5 DEF Range
<1>7. QED
  BY <1>2, <1>5, <1>6 DEF Copying

LEMMA NextKeeps ==
    ASSUME TypeInv, TypeInv', DamageInv, SeenInv, [Next]_vars, NEW c \in Held \ Held'
    PROVE  \E r \in Request : Loses(c, r)
<1>1. ASSUME dirs' = dirs PROVE FALSE
  BY <1>1 DEF Held, Contents
<1>2. CASE Tick \/ UNCHANGED vars
  BY <1>1, <1>2 DEF Tick, vars
<1>3. CASE Crash
  BY <1>3, CrashKeeps DEF Loses
<1>4. CASE \E r \in Request : Step(r)
  BY <1>4, StepKeeps
<1>5. QED
  BY <1>2, <1>3, <1>4 DEF Next

\* Content leaves the tree, its versions and the trash only where ContentKept
\* says that somebody asks for it or the names collide: a versioned store keeps
\* what it replaces, whatever other requests do between its file operations.
THEOREM NothingIsLost == Spec => ContentKept
<1>1. Init => TypeInv /\ DamageInv /\ SeenInv
  BY InitTypes, InitDamage, InitSeen
<1>2. TypeInv /\ DamageInv /\ SeenInv /\ [Next]_vars => (TypeInv /\ DamageInv /\ SeenInv)'
  BY TypesKept, DamageKept, SeenKept
<1>3. TypeInv /\ TypeInv' /\ DamageInv /\ SeenInv /\ [Next]_vars
        => [\A c \in Held \ Held' : \E r \in Request : Loses(c, r)]_vars
  BY NextKeeps
<1>4. QED
  BY <1>1, <1>2, <1>3, PTL DEF Spec, ContentKept, Loses

----------------------------------------------------------------------------
(* What a request that nobody disturbs relies on stays so.                 *)

LEMMA ReliesOnIdle == Relies(Idle) /\ Relies(Idle)'
BY IdleFields DEF Relies

LEMMA ReliesStays ==
    ASSUME dirs' = dirs, NEW q, NEW p, Relies(q),
           p.kind = q.kind, p.at = q.at, p.src = q.src, p.entries = q.entries, p.listed = q.listed,
           q.kind \in {"move", "recover", "removeAlone"} => p.dst = q.dst
    PROVE  Relies(p)'
<1>1. \A l : /\ Exists(l)' <=> Exists(l)
             /\ HasFile(l)' <=> HasFile(l)
             /\ HasAttachment(l)' <=> HasAttachment(l)
  BY DEF Exists, HasFile, HasAttachment
<1>2. \A l : EntriesOf(l)' = EntriesOf(l)
  BY <1>1 DEF EntriesOf
<1>3. QED
  BY <1>1, <1>2 DEF Relies

LEMMA OthersRely ==
    ASSUME TypeInv, AloneInv, NEW r \in Request, Others(r), NEW x \in Request \ {r}, req'[x].alone
    PROVE  Relies(req[x])'
<1> PICK q, p : q = req[x] /\ p = req'[x]
  OBVIOUS
<1>1. Onward(q, p, dirs') /\ IsRequest(q) /\ p.alone
  BY DEF Others, TypeInv, RequestsInv
<1>2. Relies(q)
  BY <1>1 DEF Onward, AloneInv
<1>3. CASE q.kind = "idle"
  <2>1. p = Idle
    BY <1>1, <1>3 DEF Onward, IsRequest, Fields
  <2>2. QED
    BY <2>1, ReliesOnIdle
<1>4. CASE q.kind # "idle"
  <2>1. dirs' = dirs
    BY <1>1, <1>4 DEF Onward
  <2>2. q.kind \in {"move", "recover", "removeAlone"} => q.at # "write"
    BY <1>1 DEF IsRequest, Operations
  <2>3. /\ p.kind = q.kind /\ p.at = q.at /\ p.src = q.src /\ p.entries = q.entries
        /\ p.listed = q.listed
        /\ q.kind \in {"move", "recover", "removeAlone"} => p.dst = q.dst
    BY <1>1, <2>2 DEF Onward
  <2>4. Relies(p)'
    BY ONLY <1>2, <2>1, <2>3, ReliesStays
  <2>5. QED
    BY <2>4
<1>5. QED
  BY <1>3, <1>4

LEMMA StoreMkdirRelies ==
    ASSUME TypeInv, NEW r \in Request, StoreMkdir(r)
    PROVE  Relies(req[r])'
<1> USE DEF TypeInv
<1> PICK q, p : q = req[r] /\ p = Going(r, "look")
  OBVIOUS
<1>1. q.kind = "store" /\ IsRequest(q) /\ IsPlace(q.src)
  BY DEF StoreMkdir, At, RequestsInv, IsRequest, Shape, InDocs
<1>2. dirs' = WithDir(q.src) /\ req'[r] = p
  BY HereEffect DEF StoreMkdir
<1>3. p.kind = "store" /\ p.at = "look" /\ p.src = q.src /\ p.listed = {}
  BY <1>1, GoingOn DEF Going, IsRequest, Fields
<1>4. Exists(p.src)'
  BY <1>1, <1>2, <1>3, WithDirDomain DEF Exists
<1>5. Relies(p)'
  BY <1>3, <1>4 DEF Relies
<1>6. QED
  BY <1>2, <1>5

LEMMA StoreLookRelies ==
    ASSUME TypeInv, AloneInv, NEW r \in Request, StoreLook(r), req'[r].alone
    PROVE  Relies(req[r])'
<1> PICK q, l : q = req[r] /\ l = q.src
  OBVIOUS
<1> PICK at : at = IF q.versioning /\ HasFile(l) THEN "mkdirVersions" ELSE "open"
  OBVIOUS
<1> PICK p : p = [q EXCEPT !.at = at, !.ms = now, !.seen = WholeContent(l)]
  OBVIOUS
<1>1. q.kind = "store" /\ q.at = "look" /\ IsRequest(q)
  BY DEF StoreLook, At, TypeInv, RequestsInv
<1>2. req'[r] = p /\ dirs' = dirs
  <2>1. Look(r, p)
    BY DEF StoreLook
  <2>2. QED
    BY <2>1, LookEffect DEF TypeInv
<1>3. p.kind = "store" /\ p.at = at /\ p.src = l /\ p.listed = {} /\ p.alone = q.alone
  BY <1>1, IdleFields DEF IsRequest, Fields
<1>4. Exists(l)
  BY <1>1, <1>2, <1>3 DEF AloneInv, Relies
<1>5. Exists(l)' /\ (at = "mkdirVersions" => HasFile(l)') /\ at \in {"mkdirVersions", "open"}
  BY <1>2, <1>4 DEF Exists, HasFile
<1>6. Relies(p)'
  BY <1>3, <1>5 DEF Relies
<1>7. QED
  BY <1>2, <1>6

LEMMA StoreMkdirVersionsRelies ==
    ASSUME TypeInv, AloneInv, NEW r \in Request, StoreMkdirVersions(r), req'[r].alone
    PROVE  Relies(req[r])'
<1> USE DEF TypeInv
<1> PICK q, l, p : q = req[r] /\ l = q.src /\ p = Going(r, "copy")
  OBVIOUS
<1>1. /\ q.kind = "store" /\ q.at = "mkdirVersions" /\ IsRequest(q) /\ IsPlace(l)
      /\ l \in DOMAIN WithDir(l) /\ DOMAIN dirs' = DOMAIN WithDir(l)
      /\ dirs'[l] = [WithDir(l)[l] EXCEPT !.versions = VersionsOf(WithDir(l)[l])]
      /\ req'[r] = p
  BY StoreMkdirVersionsEffect
<1>2. p.kind = "store" /\ p.at = "copy" /\ p.src = l /\ p.listed = {} /\ p.alone = q.alone
  BY <1>1, GoingOn DEF Going, IsRequest, Fields
<1>3. HasFile(l)
  BY <1>1, <1>2 DEF AloneInv, Relies
<1>4. WithDir(l)[l] = dirs[l]
  <2>1. IsPlace(l) /\ l \in DOMAIN dirs
    BY <1>1, <1>3 DEF HasFile, Exists
  <2>2. QED
    BY ONLY <2>1, WithDirDomain
<1>5. IsDirectory(dirs[l])
  BY <1>3 DEF FilesInv, HasFile, Exists
<1>6. /\ dirs'[l].content = dirs[l].content /\ dirs'[l].torn = dirs[l].torn
      /\ dirs'[l].versions = VersionsOf(dirs[l])
  BY <1>1, <1>4, <1>5, DirectoryFields DEF IsDirectory
<1>7. dirs'[l].versions # Absent
  <2> PICK v : v = VersionsOf(dirs[l])
    OBVIOUS
  <2>1. DOMAIN v \subseteq Instant /\ v \in [DOMAIN v -> Content]
    BY <1>5, VersionsAreContents
  <2>2. v # Absent
    BY <2>1, DocumentStoreAssumption
  <2>3. QED
    BY <1>6, <2>2
<1>8. HasFile(l)' /\ Exists(l)'
  BY <1>1, <1>3, <1>6 DEF HasFile, Exists
<1>9. Relies(p)'
  BY <1>2, <1>7, <1>8 DEF Relies
<1>10. QED
  BY <1>1, <1>9

LEMMA StoreCopyRelies ==
    ASSUME TypeInv, NEW r \in Request, StoreCopy(r)
    PROVE  Relies(req[r])'
<1> PICK q, l : q = req[r] /\ l = q.src
  OBVIOUS
<1> PICK p : p = [q EXCEPT !.at = "open", !.seen = WholeContent(l)]
  OBVIOUS
<1>1. /\ q.kind = "store" /\ IsRequest(q) /\ l \in DOMAIN dirs /\ req'[r] = p
  BY StoreCopyEffect
<1>2. DOMAIN dirs' = DOMAIN dirs
  BY StoreCopyMoves
<1>3. p.kind = "store" /\ p.at = "open" /\ p.src = l /\ p.listed = {}
  BY <1>1, IdleFields DEF IsRequest, Fields
<1>4. Exists(l)'
  BY <1>1, <1>2 DEF Exists
<1>5. Relies(p)'
  BY <1>3, <1>4 DEF Relies
<1>6. QED
  BY <1>1, <1>5

LEMMA StoreOpenRelies ==
    ASSUME TypeInv, NEW r \in Request, StoreOpen(r)
    PROVE  Relies(req[r])'
<1> PICK q : q = req[r]
  OBVIOUS
<1> PICK p : p = [q EXCEPT !.at = "write", !.dst = q.src]
  OBVIOUS
<1>1. q.kind = "store" /\ IsRequest(q) /\ req'[r] = p
  BY StoreOpenEffect
<1>2. p.kind = "store" /\ p.at = "write" /\ p.listed = {}
  BY <1>1, IdleFields DEF IsRequest, Fields
<1>3. Relies(p)'
  BY <1>2 DEF Relies
<1>4. QED
  BY <1>1, <1>3

LEMMA MkdirRelies ==
    ASSUME TypeInv, AloneInv, NEW r \in Request, Mkdir(r), req'[r].alone
    PROVE  Relies(req[r])'
<1> PICK q, l, p : q = req[r] /\ l = Front(q.dst) /\ p = Going(r, "rename")
  OBVIOUS
<1>1. /\ q.kind \in {"move", "recover"} /\ q.at = "mkdir" /\ IsRequest(q) /\ IsPlace(l)
      /\ dirs' = WithDir(l) /\ req'[r] = p
  BY MkdirEffect
<1>2. /\ p.kind = q.kind /\ p.at = "rename" /\ p.src = q.src /\ p.dst = q.dst /\ p.listed = {}
      /\ p.alone = q.alone
  BY <1>1, GoingOn DEF Going, IsRequest, Fields
<1>3. Relies(q)
  BY <1>1, <1>2 DEF AloneInv
<1>4. /\ DOMAIN dirs' = DOMAIN dirs \cup {SubSeq(l, 1, n) : n \in 1 .. Len(l)}
      /\ l \in DOMAIN dirs'
  <2>1. IsPlace(l)
    BY <1>1
  <2>2. /\ DOMAIN WithDir(l) = DOMAIN dirs \cup {SubSeq(l, 1, n) : n \in 1 .. Len(l)}
        /\ l \in DOMAIN WithDir(l)
    BY ONLY <2>1, WithDirDomain
  <2>3. QED
    BY <1>1, <2>2
<1>5. Exists(q.src)' /\ Exists(Front(q.dst))'
  BY <1>1, <1>3, <1>4 DEF Exists, Relies
<1>6. q.kind = "recover" => ~Exists(q.dst)'
  <2>1. SUFFICES ASSUME q.kind = "recover", Exists(q.dst)'
                 PROVE  FALSE
    OBVIOUS
  <2>2. q.dst \notin DOMAIN dirs
    BY <1>1, <1>3, <2>1 DEF Relies, Exists
  <2>3. PICK n \in 1 .. Len(l) : q.dst = SubSeq(l, 1, n)
    BY <1>4, <2>1, <2>2 DEF Exists
  <2>4. IsPlace(q.dst) /\ Len(l) = Len(q.dst) - 1
    <3>1. IsPlace(q.dst)
      BY <1>1, AboveDestination
    <3>2. QED
      BY <3>1, FrontIsCut DEF IsPlace
  <2>5. l \in Seq(Element) /\ q.dst \in Seq(Element)
    BY <1>1, <2>4 DEF IsPlace
  <2>6. Len(q.dst) = n
    BY <2>3, <2>5, SubSeqElements
  <2>7. QED
    BY <2>4, <2>5, <2>6
<1>7. Relies(p)'
  BY <1>1, <1>2, <1>5, <1>6 DEF Relies
<1>8. QED
  BY <1>1, <1>7

LEMMA RecoverLookRelies ==
    ASSUME TypeInv, AloneInv, NEW r \in Request, RecoverLook(r), req'[r].alone
    PROVE  Relies(req[r])'
<1> PICK q, p : q = req[r] /\ p = Going(r, "mkdir")
  OBVIOUS
<1>1. q.kind = "recover" /\ IsRequest(q)
  BY DEF RecoverLook, At, TypeInv, RequestsInv
<1>2. Look(r, IF Exists(q.dst) THEN Idle ELSE p)
  BY DEF RecoverLook
<1>3. dirs' = dirs /\ req'[r] = IF Exists(q.dst) THEN Idle ELSE p
  BY <1>2, LookEffect DEF TypeInv
<1>4. CASE Exists(q.dst)
  BY <1>3, <1>4, ReliesOnIdle
<1>5. CASE ~Exists(q.dst)
  <2>1. /\ p.kind = "recover" /\ p.at = "mkdir" /\ p.src = q.src /\ p.dst = q.dst /\ p.listed = {}
        /\ p.alone = q.alone
    BY <1>1, GoingOn DEF Going, IsRequest, Fields
  <2>2. Exists(q.src)
    BY <1>1, <1>3, <1>5, <2>1 DEF AloneInv, Relies
  <2>3. Relies(p)'
    BY <1>3, <1>5, <2>1, <2>2 DEF Relies, Exists
  <2>4. QED
    BY <1>3, <1>5, <2>3
<1>6. QED
  BY <1>4, <1>5

LEMMA RemoveAloneMkdirRelies ==
    ASSUME TypeInv, AloneInv, NEW r \in Request, RemoveAloneMkdir(r), req'[r].alone
    PROVE  Relies(req[r])'
<1> PICK q, l, p : q = req[r] /\ l = q.dst /\ p = Going(r, "list")
  OBVIOUS
<1>1. /\ q.kind = "removeAlone" /\ q.at = "mkdir" /\ IsRequest(q) /\ IsPlace(l) /\ l \notin DOMAIN dirs
      /\ dirs' = WithDir(l) /\ req'[r] = p
  BY RemoveAloneMkdirEffect
<1>2. /\ p.kind = q.kind /\ p.at = "list" /\ p.src = q.src /\ p.dst = l /\ p.listed = {}
      /\ p.entries = q.entries /\ p.alone = q.alone
  BY <1>1, GoingOn DEF Going, IsRequest, Fields
<1>3. Exists(q.src) /\ q.entries = {}
  BY <1>1, <1>2 DEF AloneInv, Relies
<1>4. /\ DOMAIN dirs \subseteq DOMAIN dirs' /\ l \in DOMAIN dirs' /\ dirs'[l] = EmptyDir
  <2>1. IsPlace(l) /\ l \notin DOMAIN dirs
    BY <1>1
  <2>2. /\ DOMAIN dirs \subseteq DOMAIN WithDir(l) /\ l \in DOMAIN WithDir(l)
        /\ WithDir(l)[l] = EmptyDir
    BY ONLY <2>1, WithDirDomain
  <2>3. QED
    BY <1>1, <2>2
<1>5. Relies(p)'
  BY <1>1, <1>2, <1>3, <1>4 DEF Relies, Exists
<1>6. QED
  BY <1>1, <1>5

LEMMA RemoveAloneListRelies ==
    ASSUME TypeInv, AloneInv, NEW r \in Request, RemoveAloneList(r), req'[r].alone
    PROVE  Relies(req[r])'
<1> PICK q : q = req[r]
  OBVIOUS
<1> PICK p : p = [Going(r, "entries") EXCEPT !.entries = EntriesOf(q.src)]
  OBVIOUS
<1>1. q.kind = "removeAlone" /\ q.at = "list" /\ IsRequest(q)
  BY DEF RemoveAloneList, At, TypeInv, RequestsInv
<1>2. Look(r, IF EntriesOf(q.src) = {} THEN Idle ELSE p)
  BY DEF RemoveAloneList
<1>3. dirs' = dirs /\ req'[r] = IF EntriesOf(q.src) = {} THEN Idle ELSE p
  BY <1>2, LookEffect DEF TypeInv
<1>4. CASE EntriesOf(q.src) = {}
  BY <1>3, <1>4, ReliesOnIdle
<1>5. CASE EntriesOf(q.src) # {}
  <2>1. /\ p.kind = "removeAlone" /\ p.at = "entries" /\ p.src = q.src /\ p.dst = q.dst
        /\ p.listed = {} /\ p.entries = EntriesOf(q.src) /\ p.alone = q.alone
    BY <1>1, IdleFields DEF Going, IsRequest, Fields
  <2>2. Exists(q.src) /\ Exists(q.dst) /\ dirs[q.dst] = EmptyDir
    BY <1>1, <1>3, <1>5, <2>1 DEF AloneInv, Relies
  <2>3. dirs[q.dst].versions = Absent
    BY <2>2, DirectoryFields
  <2>4. Relies(p)
    BY <2>1, <2>2, <2>3 DEF Relies
  <2>5. Relies(p)'
    BY ONLY <1>3, <2>4, ReliesStays
  <2>6. QED
    BY <1>3, <1>5, <2>5
<1>6. QED
  BY <1>4, <1>5

\* Moving one entry leaves the others where they are.
LEMMA OtherEntriesStay ==
    ASSUME FilesInv, NEW src \in DOMAIN dirs, NEW dst \in DOMAIN dirs, src # dst,
           NEW e \in {"content", "attachment", "versions"}, dirs' = EntryMoved(e, src, dst)
    PROVE  /\ DOMAIN dirs' = DOMAIN dirs
           /\ EntriesOf(src) \ {e} \subseteq EntriesOf(src)'
           /\ e # "versions" => dirs'[dst].versions = dirs[dst].versions
<1>1. /\ DOMAIN dirs' = DOMAIN dirs
      /\ e # "content" => dirs'[src].content = dirs[src].content /\ dirs'[src].torn = dirs[src].torn
      /\ e # "attachment" => dirs'[src].attachment = dirs[src].attachment
      /\ e # "versions" => dirs'[src].versions = dirs[src].versions
      /\ e # "versions" => dirs'[dst].versions = dirs[dst].versions
  <2>1. CASE e = "content"
    BY <2>1, ContentMoved
  <2>2. CASE e = "attachment"
    BY <2>2, AttachmentMoved
  <2>3. CASE e = "versions"
    BY <2>3, VersionsMoved
  <2>4. QED
    BY <2>1, <2>2, <2>3
<1>2. e # "content" => (HasFile(src)' <=> HasFile(src))
  BY <1>1 DEF HasFile, Exists
<1>3. QED
  BY <1>1, <1>2 DEF EntriesOf

LEMMA RemoveAloneEntryRelies ==
    ASSUME TypeInv, AloneInv, NEW r \in Request, RemoveAloneEntry(r), req'[r].alone
    PROVE  Relies(req[r])'
<1> PICK q, src, dst : q = req[r] /\ src = q.src /\ dst = q.dst
  OBVIOUS
<1>1. /\ q.kind = "removeAlone" /\ q.at = "entries" /\ IsRequest(q) /\ src # dst
      /\ src \in DOMAIN dirs /\ dst \in DOMAIN dirs
  BY RemoveAloneEntryEffect
<1>2. PICK e \in {"content", "attachment", "versions"} :
          /\ dirs' = EntryMoved(e, src, dst)
          /\ req'[r] = IF q.entries = {e} THEN Idle
                       ELSE [q EXCEPT !.entries = q.entries \ {e}]
  BY RemoveAloneEntryEffect
<1> PICK p : p = [q EXCEPT !.entries = q.entries \ {e}]
  OBVIOUS
<1>3. /\ p.kind = "removeAlone" /\ p.at = "entries" /\ p.src = src /\ p.dst = dst
      /\ p.listed = {} /\ p.entries = q.entries \ {e} /\ p.alone = q.alone
  BY <1>1, IdleFields DEF IsRequest, Fields
<1>4. CASE req'[r] = Idle
  BY <1>4, ReliesOnIdle
<1>5. CASE req'[r] = p
  <2>1. q.alone
    BY <1>3, <1>5
  <2>2. /\ q.entries \subseteq EntriesOf(src)
        /\ "versions" \in q.entries => dirs[dst].versions = Absent
    BY <1>1, <2>1 DEF AloneInv, Relies
  <2>3. /\ DOMAIN dirs' = DOMAIN dirs
        /\ EntriesOf(src) \ {e} \subseteq EntriesOf(src)'
        /\ e # "versions" => dirs'[dst].versions = dirs[dst].versions
    BY <1>1, <1>2, OtherEntriesStay DEF TypeInv
  <2>4. /\ p.entries \subseteq EntriesOf(src)' /\ Exists(src)' /\ Exists(dst)'
        /\ "versions" \in p.entries => dirs'[dst].versions = Absent
    BY <1>1, <1>3, <2>2, <2>3 DEF Exists
  <2>5. Relies(p)'
    BY <1>3, <2>4 DEF Relies
  <2>6. QED
    BY <1>5, <2>5
<1>6. QED
  BY <1>2, <1>4, <1>5

\* A request that reads, once what it has listed is listed or has been found.
LEMMA ReadingRelies ==
    ASSUME NEW q, IsRequest(q), q.kind \in {"retrieve", "tree", "trash"}, Relies(q), NEW p,
           p.kind = q.kind, p.src = q.src,
           \A e \in p.listed : e[2] = "read" => HasFile(e[1])
    PROVE  Relies(p)
BY DEF Relies

LEMMA ListRelies ==
    ASSUME TypeInv, AloneInv, NEW r \in Request, List(r), req'[r].alone
    PROVE  Relies(req[r])'
<1> PICK q : q = req[r]
  OBVIOUS
<1> PICK p : p = [q EXCEPT !.at = "describe",
                           !.listed = q.listed \cup {<<l, "check">> : l \in Children(q.src)}]
  OBVIOUS
<1>1. q.kind \in {"retrieve", "tree", "trash"} /\ IsRequest(q)
  BY DEF List, TypeInv, RequestsInv
<1>2. Look(r, Described(p))
  BY <1>1 DEF List, IsRequest, Fields
<1>3. dirs' = dirs /\ req'[r] = Described(p)
  BY <1>2, LookEffect DEF TypeInv
<1>4. /\ p.kind = q.kind /\ p.at = "describe" /\ p.src = q.src /\ p.alone = q.alone
      /\ p.listed = q.listed \cup {<<l, "check">> : l \in Children(q.src)}
      /\ DOMAIN p = DOMAIN Idle
  BY <1>1, IdleFields DEF IsRequest, Fields
<1>5. CASE Described(p) = Idle
  BY <1>3, <1>5, ReliesOnIdle
<1>6. CASE Described(p) # Idle
  <2> PICK d : d = Described(p)
    OBVIOUS
  <2>1. d.kind = p.kind /\ d.src = p.src /\ d.listed = p.listed /\ d.alone = p.alone
    BY <1>4, <1>6, IdleFields DEF Described
  <2>2. Relies(q)
    BY <1>3, <1>4, <2>1 DEF AloneInv
  <2>3. ASSUME NEW e \in d.listed, e[2] = "read"
        PROVE  HasFile(e[1])
    <3>1. ASSUME NEW l \in Children(q.src), e = <<l, "check">>
          PROVE  FALSE
      BY <2>3, <3>1
    <3>2. e \in q.listed \cup {<<l, "check">> : l \in Children(q.src)}
      BY <1>4, <2>1, <2>3
    <3>3. e \in q.listed
      BY <3>1, <3>2
    <3>4. QED
      BY <2>2, <2>3, <3>3 DEF Relies
  <2>4. Relies(d)
    BY <1>1, <1>4, <2>1, <2>2, <2>3, ReadingRelies
  <2>5. Relies(d)'
    BY ONLY <1>3, <2>4, ReliesStays
  <2>6. QED
    BY <1>3, <2>5
<1>7. QED
  BY <1>5, <1>6

LEMMA DescribeRelies ==
    ASSUME TypeInv, AloneInv, NEW r \in Request, Describe(r), req'[r].alone
    PROVE  Relies(req[r])'
<1> PICK q : q = req[r]
  OBVIOUS
<1>1. q.kind \in {"retrieve", "tree", "trash"} /\ IsRequest(q)
  BY DescribeEffect
<1>2. PICK listed :
          /\ \A e \in listed : e \in q.listed \/ (e[2] = "read" /\ HasFile(e[1]))
          /\ Look(r, Described([q EXCEPT !.listed = listed]))
  BY DescribeEffect
<1> PICK p : p = [q EXCEPT !.listed = listed]
  OBVIOUS
<1>3. dirs' = dirs /\ req'[r] = Described(p)
  BY <1>2, LookEffect DEF TypeInv
<1>4. /\ p.kind = q.kind /\ p.at = q.at /\ p.src = q.src /\ p.alone = q.alone /\ p.listed = listed
      /\ DOMAIN p = DOMAIN Idle
  BY <1>1, IdleFields DEF IsRequest, Fields
<1>5. CASE Described(p) = Idle
  BY <1>3, <1>5, ReliesOnIdle
<1>6. CASE Described(p) # Idle
  <2> PICK d : d = Described(p)
    OBVIOUS
  <2>1. d.kind = p.kind /\ d.src = p.src /\ d.listed = p.listed /\ d.alone = p.alone
    BY <1>4, <1>6, IdleFields DEF Described
  <2>2. Relies(q)
    BY <1>3, <1>4, <2>1 DEF AloneInv
  <2>3. \A e \in d.listed : e[2] = "read" => HasFile(e[1])
    BY <1>2, <1>4, <2>1, <2>2 DEF Relies
  <2>4. Relies(d)
    BY <1>1, <1>4, <2>1, <2>2, <2>3, ReadingRelies
  <2>5. Relies(d)'
    BY ONLY <1>3, <2>4, ReliesStays
  <2>6. QED
    BY <1>3, <2>5
<1>7. QED
  BY <1>5, <1>6

LEMMA RetrieveRelies ==
    ASSUME TypeInv, AloneInv, NEW r \in Request,
           RetrieveAttachments(r) \/ RetrieveVersions(r) \/ RetrieveRead(r), req'[r].alone
    PROVE  Relies(req[r])'
<1> PICK q : q = req[r]
  OBVIOUS
<1>1. q.kind = "retrieve" /\ IsRequest(q)
  BY DEF RetrieveAttachments, RetrieveVersions, RetrieveRead, At, TypeInv, RequestsInv
<1>2. PICK p \in {Going(r, "versions"), Going(r, "read"), Idle} : Look(r, p)
  BY DEF RetrieveAttachments, RetrieveVersions, RetrieveRead
<1>3. dirs' = dirs /\ req'[r] = p
  BY <1>2, LookEffect DEF TypeInv
<1>4. CASE p = Idle
  BY <1>3, <1>4, ReliesOnIdle
<1>5. CASE p # Idle
  <2>1. p.kind = q.kind /\ p.src = q.src /\ p.listed = q.listed /\ p.alone = q.alone
    BY <1>1, <1>2, <1>5, GoingOn DEF Going
  <2>2. Relies(q)
    BY <1>3, <2>1 DEF AloneInv
  <2>3. \A e \in p.listed : e[2] = "read" => HasFile(e[1])
    BY <2>1, <2>2 DEF Relies
  <2>4. Relies(p)
    BY <1>1, <2>1, <2>2, <2>3, ReadingRelies
  <2>5. Relies(p)'
    BY ONLY <1>3, <2>4, ReliesStays
  <2>6. QED
    BY <1>3, <2>5
<1>6. QED
  BY <1>4, <1>5

LEMMA BeginRelies ==
    ASSUME TypeInv, NEW r \in Request, Beginning(r)
    PROVE  Relies(req[r])'
<1>1. PICK q : Begin(r, q) /\ Begun(q)
  BY BeginIsBegun
<1>2. dirs' = dirs /\ req'[r] = q /\ Relies(q)
  BY <1>1, BeginEffect DEF Begun
<1>3. Relies(q)'
  BY ONLY <1>2, ReliesStays
<1>4. QED
  BY <1>2, <1>3

LEMMA PurgeFindRelies ==
    ASSUME TypeInv, NEW r \in Request, PurgeFind(r)
    PROVE  Relies(req[r])'
<1> PICK p : p = Going(r, "rm")
  OBVIOUS
<1>1. req[r].kind = "purge" /\ IsRequest(req[r])
  BY DEF PurgeFind, At, TypeInv, RequestsInv
<1>2. req'[r] = p
  BY LookEffect DEF PurgeFind, TypeInv
<1>3. p.kind = "purge" /\ p.at = "rm" /\ p.listed = {}
  BY <1>1, GoingOn DEF Going, IsRequest, Fields
<1>4. Relies(p)'
  BY <1>3 DEF Relies
<1>5. QED
  BY <1>2, <1>4

LEMMA PurgeOneRelies ==
    ASSUME TypeInv, NEW r \in Request, PurgeOne(r)
    PROVE  Relies(req[r])'
<1> PICK q : q = req[r]
  OBVIOUS
<1>1. q.kind = "purge" /\ q.at = "rm" /\ IsRequest(q) /\ req'[r] \in {q, Idle}
  BY PurgeOneEffect
<1>2. Relies(q)'
  BY <1>1 DEF Relies, IsRequest, Fields
<1>3. QED
  BY <1>1, <1>2, ReliesOnIdle

LEMMA EndingRelies ==
    ASSUME TypeInv, NEW r \in Request,
           \/ StoreWrite(r) \/ Rename(r) \/ PurgeEnds(r) \/ RemoveVersion(r)
           \/ Upload(r) \/ Detach(r) \/ Fail(r)
    PROVE  Relies(req[r])'
<1>1. req'[r] = Idle
  BY StoreWriteEffect, RenameEffect, RemoveVersionEffect, AttachmentEffect, LookEffect
     DEF PurgeEnds, Fail, TypeInv
<1>2. QED
  BY <1>1, ReliesOnIdle

LEMMA AloneKept == TypeInv /\ AloneInv /\ [Next]_vars => AloneInv'
<1> SUFFICES ASSUME TypeInv, AloneInv, [Next]_vars PROVE AloneInv'
  OBVIOUS
<1>1. ASSUME NEW r \in Request, Step(r) PROVE AloneInv'
  <2>1. SUFFICES ASSUME NEW x \in Request, req'[x].alone
                 PROVE  Relies(req[x])'
    BY DEF AloneInv
  <2>2. CASE x # r
    BY <1>1, <2>1, <2>2, StepOthers, OthersRely
  <2>3. ASSUME req'[r].alone PROVE Relies(req[r])'
    BY <1>1, <2>3, StepCases, BeginRelies, StoreMkdirRelies, StoreLookRelies,
       StoreMkdirVersionsRelies, StoreCopyRelies, StoreOpenRelies, MkdirRelies,
       RecoverLookRelies, RemoveAloneMkdirRelies, RemoveAloneListRelies, RemoveAloneEntryRelies,
       PurgeFindRelies, PurgeOneRelies, ListRelies, DescribeRelies, RetrieveRelies, EndingRelies
  <2>4. QED
    BY <2>1, <2>2, <2>3
<1>2. CASE Crash
  <2>1. \A x \in Request : req'[x] = Idle
    BY <1>2 DEF Crash
  <2>2. ASSUME NEW x \in Request PROVE Relies(req[x])'
    BY <2>1, ReliesOnIdle
  <2>3. QED
    BY <2>2 DEF AloneInv
<1>3. CASE Tick \/ UNCHANGED vars
  <2>1. dirs' = dirs /\ req' = req
    BY <1>3 DEF Tick, vars
  <2>2. ASSUME NEW x \in Request, req'[x].alone PROVE Relies(req[x])'
    <3> PICK q : q = req[x]
      OBVIOUS
    <3>1. Relies(q) /\ q = req'[x]
      BY <2>1, <2>2 DEF AloneInv
    <3>2. Relies(q)'
      BY ONLY <2>1, <3>1, ReliesStays
    <3>3. QED
      BY <3>1, <3>2
  <2>3. QED
    BY <2>2 DEF AloneInv
<1>4. QED
  BY <1>1, <1>2, <1>3 DEF Next

LEMMA InitAlone == Init => AloneInv
<1> SUFFICES ASSUME Init, NEW x \in Request PROVE Relies(req[x])
  BY DEF AloneInv
<1>1. req[x] = Idle
  BY DEF Init
<1>2. QED
  BY <1>1, ReliesOnIdle

----------------------------------------------------------------------------
(* With what it relies on, a request fails only where a name is taken.     *)

LEMMA StrictPrefixOfFront ==
    ASSUME NEW s \in Seq(Element), NEW t \in Seq(Element), t # <<>>, IsStrictPrefix(s, t)
    PROVE  IsPrefix(s, Front(t))
<1>1. IsPrefix(s, t) /\ s # t
  BY DEF IsStrictPrefix
<1>2. /\ Front(t) \in Seq(Element) /\ Len(Front(t)) = Len(t) - 1
      /\ \A i \in 1 .. Len(t) - 1 : Front(t)[i] = t[i]
  BY FrontIsCut
<1>3. Len(s) <= Len(t) /\ \A i \in 1 .. Len(s) : s[i] = t[i]
  BY <1>1, PrefixElements
<1>4. Len(s) # Len(t)
  BY <1>1, <1>3
<1>5. Len(s) <= Len(Front(t)) /\ \A i \in 1 .. Len(s) : s[i] = Front(t)[i]
  BY <1>2, <1>3, <1>4
<1>6. QED
  BY <1>2, <1>5, PrefixElements

LEMMA FrontOfEntry ==
    ASSUME NEW l, IsEntry(l)
    PROVE  Front(l) = <<"trash">>
<1>1. l \in Seq(Element) /\ l # <<>> /\ Len(l) = 2 /\ l[1] = "trash"
  BY DEF IsEntry, IsPlace
<1>2. /\ Front(l) \in Seq(Element) /\ Len(Front(l)) = Len(l) - 1
      /\ \A i \in 1 .. Len(l) - 1 : Front(l)[i] = l[i]
  BY <1>1, FrontIsCut
<1>3. Len(Front(l)) = 1 /\ Front(l)[1] = "trash"
  BY <1>1, <1>2
<1>4. QED
  BY <1>2, <1>3

\* A request that relies on what it needs renames to where nothing is.
LEMMA RenameFails ==
    ASSUME TypeInv, NEW q, IsRequest(q), Relies(q), q.at = "rename", ~CanRename(q.src, q.dst)
    PROVE  q.kind \in {"move", "remove"} /\ Exists(q.dst)
<1>1. q.kind \in {"move", "remove", "recover"}
  BY DEF IsRequest, Operations, Kind
<1>2. Exists(q.src)
  BY <1>1 DEF Relies
<1>3. Exists(Front(q.dst))
  <2>1. CASE q.kind = "remove"
    <3>1. Front(q.dst) = <<"trash">>
      BY <2>1, FrontOfEntry DEF IsRequest, Shape
    <3>2. QED
      BY <3>1 DEF TypeInv, PlacesInv, IsTree, Exists
  <2>2. QED
    BY <1>1, <2>1 DEF Relies
<1>4. ~IsStrictPrefix(q.src, q.dst)
  <2>1. CASE q.kind = "move"
    <3>1. /\ q.src \in Seq(Element) /\ q.dst \in Seq(Element) /\ q.dst # <<>>
          /\ ~IsPrefix(q.src, Front(q.dst))
      BY <2>1 DEF IsRequest, Shape, InDocs, IsPlace
    <3>2. QED
      BY <3>1, StrictPrefixOfFront
  <2>2. CASE q.kind \in {"remove", "recover"}
    <3>1. \/ InDocs(q.src) /\ IsEntry(q.dst)
          \/ InDocs(q.dst) /\ IsEntry(q.src)
      BY <2>2 DEF IsRequest, Shape
    <3>2. ~IsPrefix(q.src, q.dst)
      BY <3>1, DocsAreNotEntries
    <3>3. QED
      BY <3>2 DEF IsStrictPrefix
  <2>3. QED
    BY <1>1, <2>1, <2>2
<1>5. Exists(q.dst)
  BY <1>2, <1>3, <1>4 DEF CanRename
<1>6. QED
  BY <1>1, <1>5 DEF Relies

LEMMA AloneImplied == TypeInv /\ AloneInv => AloneNeverFails
<1> SUFFICES ASSUME TypeInv, AloneInv, NEW r \in Request, req[r].alone, Failing(r)
             PROVE  \/ req[r].kind \in {"move", "remove"} /\ Exists(req[r].dst)
                    \/ At(r, "removeAlone", "mkdir")
  BY DEF AloneNeverFails
<1> PICK q, src, dst : q = req[r] /\ src = q.src /\ dst = q.dst
  OBVIOUS
<1>1. IsRequest(q) /\ Relies(q)
  BY DEF AloneInv, TypeInv, RequestsInv
<1>2. /\ ~(At(r, "store", "copy") /\ ~CanCopy(src)) /\ ~(At(r, "store", "open") /\ ~Exists(src))
      /\ ~(At(r, "purge", "find") /\ ~Exists(src))
      /\ ~(At(r, "upload", "write") /\ ~Exists(src))
      /\ ~(At(r, "detach", "unlink") /\ ~HasAttachment(src))
      /\ ~(At(r, "retrieve", "attachments") /\ ~Exists(src))
      /\ ~(At(r, "retrieve", "read") /\ ~HasFile(src))
  BY <1>1 DEF Relies, At, CanCopy, HasFile
<1>3. ~\E e \in q.entries : ~CanMoveEntry(e, src, dst)
  <2>1. SUFFICES ASSUME NEW e \in q.entries
                 PROVE  CanMoveEntry(e, src, dst)
    OBVIOUS
  <2>2. q.kind = "removeAlone"
    BY <1>1, <2>1 DEF IsRequest, Fields
  <2>3. q.at = "entries"
    BY <1>1, <2>1, <2>2 DEF Relies
  <2>4. /\ Exists(src) /\ Exists(dst) /\ e \in EntriesOf(src)
        /\ e = "versions" => dirs[dst].versions = Absent
    BY <1>1, <2>1, <2>2, <2>3 DEF Relies
  <2>5. e = "versions" => DOMAIN VersionsOf(dirs[dst]) = {}
    BY <2>4 DEF VersionsOf
  <2>6. QED
    BY <2>4, <2>5 DEF CanMoveEntry
<1>4. ~(q.at = "list" /\ ~Exists(src))
  <2>1. SUFFICES ASSUME q.at = "list" PROVE Exists(src)
    OBVIOUS
  <2>2. q.kind \in {"removeAlone", "retrieve", "tree", "trash"}
    BY <1>1, <2>1 DEF IsRequest, Operations, Kind
  <2>3. CASE q.kind = "trash"
    BY <1>1, <2>3 DEF IsRequest, Shape, TypeInv, PlacesInv, IsTree, Exists
  <2>4. QED
    BY <1>1, <2>2, <2>3 DEF Relies, HasFile
<1>5. ~\E e \in q.listed : e[2] = "read" /\ ~HasFile(e[1])
  BY <1>1 DEF Relies
<1>6. CASE q.at = "rename" /\ ~CanRename(src, dst)
  BY <1>1, <1>6, RenameFails
<1>7. QED
  BY <1>2, <1>3, <1>4, <1>5, <1>6 DEF Failing

\* A request that no other one disturbs does not fail half-way, but for the
\* name of its destination: every check that it has made still holds at the
\* file operation that relies on it, whatever it did in between.
THEOREM AloneSucceeds == Spec => []AloneNeverFails
<1>1. Init => TypeInv /\ AloneInv
  BY InitTypes, InitAlone
<1>2. TypeInv /\ AloneInv /\ [Next]_vars => (TypeInv /\ AloneInv)'
  BY TypesKept, AloneKept
<1>3. QED
  BY <1>1, <1>2, AloneImplied, PTL DEF Spec

----------------------------------------------------------------------------
(* The content of a store is new until it is written.                      *)

\* A request that has begun goes on under its identity, or ends.
LEMMA GoesOn ==
    ASSUME TypeInv, NEW r \in Request, Step(r), ~Beginning(r)
    PROVE  req'[r] = Idle \/ (req[r] # Idle /\ req'[r].id = req[r].id)
<1> USE DEF TypeInv
<1> PICK q : q = req[r]
  OBVIOUS
<1>1. IsRequest(q)
  BY DEF RequestsInv
<1>2. ASSUME NEW at, req'[r] = Going(r, at), q.at # "end"
      PROVE  req[r] # Idle /\ req'[r].id = req[r].id
  BY <1>1, <1>2, GoingOn, IdleFields DEF Going
<1>3. CASE StoreMkdir(r)
  <2>1. req'[r] = Going(r, "look") /\ q.at = "mkdir"
    BY <1>3, HereEffect DEF StoreMkdir, At
  <2>2. QED
    BY <1>2, <2>1
<1>4. CASE StoreMkdirVersions(r) \/ Mkdir(r) \/ RemoveAloneMkdir(r)
  <2>1. q.at # "end" /\ \E at : req'[r] = Going(r, at)
    BY <1>4, StoreMkdirVersionsEffect, MkdirEffect, RemoveAloneMkdirEffect
  <2>2. QED
    BY <1>2, <2>1
<1>5. CASE StoreLook(r)
  <2>1. PICK at : Look(r, [q EXCEPT !.at = at, !.ms = now, !.seen = WholeContent(q.src)])
    BY <1>5 DEF StoreLook
  <2> PICK p : p = [q EXCEPT !.at = at, !.ms = now, !.seen = WholeContent(q.src)]
    OBVIOUS
  <2>2. p.id = q.id /\ req'[r] = p /\ q # Idle
    BY <1>1, <1>5, <2>1, LookEffect, IdleFields DEF IsRequest, Fields, StoreLook, At
  <2>3. QED
    BY <2>2
<1>6. CASE StoreCopy(r)
  <2> PICK p : p = [q EXCEPT !.at = "open", !.seen = WholeContent(q.src)]
    OBVIOUS
  <2>1. req'[r] = p /\ q.kind = "store"
    BY <1>6, StoreCopyEffect
  <2>2. p.id = q.id
    BY <1>1, IdleFields DEF IsRequest, Fields
  <2>3. QED
    BY <2>1, <2>2, IdleFields
<1>7. CASE StoreOpen(r)
  <2> PICK p : p = [q EXCEPT !.at = "write", !.dst = q.src]
    OBVIOUS
  <2>1. req'[r] = p /\ q.kind = "store"
    BY <1>7, StoreOpenEffect
  <2>2. p.id = q.id
    BY <1>1, IdleFields DEF IsRequest, Fields
  <2>3. QED
    BY <2>1, <2>2, IdleFields
<1>8. CASE RecoverLook(r)
  <2>1. Look(r, Idle) \/ Look(r, Going(r, "mkdir"))
    BY <1>8 DEF RecoverLook
  <2>2. req'[r] = Idle \/ req'[r] = Going(r, "mkdir")
    BY <2>1, LookEffect
  <2>3. q.at # "end"
    BY <1>8 DEF RecoverLook, At
  <2>4. QED
    BY <1>2, <2>2, <2>3
<1>9. CASE RemoveAloneList(r)
  <2> PICK p : p = [Going(r, "entries") EXCEPT !.entries = EntriesOf(q.src)]
    OBVIOUS
  <2>1. Look(r, p) \/ Look(r, Idle)
    BY <1>9 DEF RemoveAloneList
  <2>2. p.id = q.id /\ q # Idle
    BY <1>1, <1>9, IdleFields DEF IsRequest, Fields, Going, RemoveAloneList, At
  <2>3. QED
    BY <2>1, <2>2, LookEffect
<1>10. CASE RemoveAloneEntry(r)
  <2>1. PICK e : req'[r] = IF q.entries = {e} THEN Idle ELSE [q EXCEPT !.entries = q.entries \ {e}]
    BY <1>10, RemoveAloneEntryEffect
  <2> PICK p : p = [q EXCEPT !.entries = q.entries \ {e}]
    OBVIOUS
  <2>2. p.id = q.id /\ q # Idle
    BY <1>1, <1>10, RemoveAloneEntryEffect, IdleFields DEF IsRequest, Fields
  <2>3. req'[r] = Idle \/ req'[r] = p
    BY <2>1
  <2>4. QED
    BY <2>2, <2>3
<1>11. CASE PurgeFind(r) \/ PurgeOne(r)
  <2>1. CASE PurgeFind(r)
    <3>1. req'[r] = Going(r, "rm") /\ q.at = "find"
      BY <2>1, LookEffect DEF PurgeFind, At
    <3>2. QED
      BY <1>2, <3>1
  <2>2. QED
    BY <1>11, <2>1, PurgeOneEffect, IdleFields
<1>12. CASE List(r) \/ Describe(r) \/ RetrieveAttachments(r) \/ RetrieveVersions(r) \/ RetrieveRead(r)
  BY <1>12, ReadingStays, IdleFields
<1>13. CASE \/ Rename(r) \/ StoreWrite(r) \/ PurgeEnds(r) \/ RemoveVersion(r)
            \/ Upload(r) \/ Detach(r) \/ Fail(r)
  BY <1>13, RenameEffect, StoreWriteEffect, RemoveVersionEffect, AttachmentEffect, LookEffect
     DEF PurgeEnds, Fail
<1>14. QED
  BY <1>3, <1>4, <1>5, <1>6, <1>7, <1>8, <1>9, <1>10, <1>11, <1>12, <1>13, StepCases

\* Where the contents after a step come from.
LEMMA ContentsFrom ==
    ASSUME TypeInv, TypeInv', DamageInv, NEW r \in Request, Step(r), NEW m \in DOMAIN dirs'
    PROVE  \/ dirs'[m].content \notin Nat
           \/ \E k \in DOMAIN dirs : dirs'[m].content = dirs[k].content
           \/ StoreWrite(r) /\ dirs'[m].content = req[r].id
<1> USE DEF DamageInv
<1>1. Absent \notin Nat /\ Damaged \notin Nat
  BY DocumentStoreAssumption DEF Content
<1>2. CASE Quiet \/ StoreCopy(r)
  <2>1. Still
    BY <1>2, StoreCopyMoves DEF Quiet
  <2>2. QED
    BY <1>1, <2>1 DEF Still
<1>3. CASE StoreOpen(r)
  <2> PICK l : l = req[r].src
    OBVIOUS
  <2>1. /\ l \in DOMAIN dirs /\ DOMAIN dirs' = DOMAIN dirs
        /\ \A k \in DOMAIN dirs \ {l} : dirs'[k] = dirs[k]
        /\ dirs'[l].content = Visible(l)
    BY <1>3, StoreOpenMoves
  <2>2. Visible(l) \in {Damaged, dirs[l].content}
    BY DEF Visible
  <2>3. QED
    BY <1>1, <2>1, <2>2
<1>4. CASE StoreWrite(r)
  <2> PICK l : l = req[r].dst
    OBVIOUS
  <2>1. /\ DOMAIN dirs' = DOMAIN dirs /\ \A k \in DOMAIN dirs \ {l} : dirs'[k] = dirs[k]
        /\ l \in DOMAIN dirs => dirs'[l].content \in {req[r].id, Damaged}
    BY <1>4, StoreWriteMoves
  <2>2. QED
    BY <1>1, <1>4, <2>1
<1>5. CASE Rename(r) \/ RemoveAloneEntry(r) \/ PurgeOne(r)
  <2>1. Carried
    BY <1>5, RenameIsCarried, RemoveAloneEntryIsCarried, PurgeOneIsCarried
  <2>2. QED
    BY <1>1, <2>1 DEF Carried
<1>6. QED
  BY <1>2, <1>3, <1>4, <1>5, QuietCases

LEMMA IssuedGrows ==
    ASSUME TypeInv, NEW r \in Request, Step(r)
    PROVE  /\ issued \in Nat /\ NewContent \in Nat /\ issued' \in {issued, issued + 1}
           /\ Beginning(r) => issued' = issued + 1
<1>1. issued \in Nat /\ NewContent \in Nat
  BY DocumentStoreAssumption DEF TypeInv, CountersInv
<1>2. CASE Beginning(r)
  BY <1>1, <1>2, BeginTypes, BeginEffect
<1>3. CASE ~Beginning(r)
  <2>1. CASE StoreMkdir(r)
    BY <1>1, <1>3, <2>1, HereEffect DEF StoreMkdir, TypeInv
  <2>2. CASE \/ StoreLook(r) \/ RecoverLook(r) \/ RemoveAloneList(r) \/ PurgeFind(r) \/ PurgeEnds(r)
             \/ List(r) \/ Describe(r) \/ RetrieveAttachments(r) \/ RetrieveVersions(r)
             \/ RetrieveRead(r) \/ Fail(r)
    BY <1>1, <1>3, <2>2, LooksAreLooks, LookEffect DEF TypeInv
  <2>3. CASE StoreMkdirVersions(r) \/ StoreCopy(r) \/ StoreOpen(r) \/ StoreWrite(r)
    BY <1>1, <1>3, <2>3, StoreMkdirVersionsEffect, StoreCopyEffect, StoreOpenEffect, StoreWriteEffect
  <2>4. CASE Mkdir(r) \/ Rename(r) \/ RemoveAloneMkdir(r) \/ RemoveAloneEntry(r)
    BY <1>1, <1>3, <2>4, MkdirEffect, RenameEffect, RemoveAloneMkdirEffect, RemoveAloneEntryEffect
  <2>5. CASE PurgeOne(r) \/ RemoveVersion(r) \/ Upload(r) \/ Detach(r)
    BY <1>1, <1>3, <2>5, PurgeOneEffect, RemoveVersionEffect, AttachmentEffect
  <2>6. QED
    BY <1>1, <1>3, <2>1, <2>2, <2>3, <2>4, <2>5, StepCases
<1>4. QED
  BY <1>1, <1>2, <1>3

\* Who has begun has begun before, under the same identity, or begins now.
LEMMA Identities ==
    ASSUME TypeInv, NEW r \in Request, Step(r), NEW x \in Request, req'[x] # Idle
    PROVE  \/ req[x] # Idle /\ req'[x].id = req[x].id
           \/ /\ x = r /\ Beginning(r) /\ dirs' = dirs
              /\ req'[r].id = NewContent + issued
<1>1. CASE x # r
  <2>1. Onward(req[x], req'[x], dirs')
    BY <1>1, StepOthers DEF Others
  <2>2. QED
    BY <2>1 DEF Onward
<1>2. CASE x = r /\ Beginning(r)
  <2>1. PICK q : Begin(r, q) /\ Begun(q)
    BY <1>2, BeginIsBegun
  <2>2. QED
    BY <1>2, <2>1, BeginEffect DEF Begun
<1>3. CASE x = r /\ ~Beginning(r)
  BY <1>3, GoesOn
<1>4. QED
  BY <1>1, <1>2, <1>3

LEMMA StepFresh ==
    ASSUME TypeInv, TypeInv', DamageInv, FreshInv, NEW r \in Request, Step(r)
    PROVE  FreshInv'
<1> PICK end, end1 : end = NewContent + issued /\ end1 = NewContent + issued'
  OBVIOUS
<1>1. end \in Nat /\ end1 \in {end, end + 1} /\ (Beginning(r) => end1 = end + 1)
  BY IssuedGrows
<1>2. ASSUME NEW x \in Request
      PROVE  req[x].id \in Nat /\ req'[x].id \in Nat
  BY DEF TypeInv, RequestsInv, IsRequest, Fields
<1>3. \A x \in Request : req[x] # Idle => req[x].id < end
  BY DEF FreshInv
<1>4. \A l \in DOMAIN dirs : dirs[l].content \in Nat => dirs[l].content < end
  BY DEF FreshInv
<1>5. ASSUME NEW x \in Request, req'[x] # Idle
      PROVE  req'[x].id < end1
  BY <1>1, <1>2, <1>3, <1>5, Identities
<1>6. ASSUME NEW x \in Request, req'[x] # Idle, NEW y \in Request, req'[y] # Idle,
             req'[y].id = req'[x].id
      PROVE  y = x
  <2>1. CASE req[x] # Idle /\ req'[x].id = req[x].id /\ req[y] # Idle /\ req'[y].id = req[y].id
    BY <1>6, <2>1 DEF FreshInv
  <2>2. CASE x = r /\ req'[r].id = end
    BY <1>1, <1>2, <1>3, <1>6, <2>2, Identities
  <2>3. CASE y = r /\ req'[r].id = end
    BY <1>1, <1>2, <1>3, <1>6, <2>3, Identities
  <2>4. QED
    BY <1>6, <2>1, <2>2, <2>3, Identities
<1>7. StoreWrite(r) => req[r] # Idle /\ req'[r] = Idle
  BY StoreWriteEffect, IdleFields
<1>8. ASSUME NEW l \in DOMAIN dirs', dirs'[l].content \in Nat
      PROVE  dirs'[l].content < end1
  BY <1>1, <1>3, <1>4, <1>7, <1>8, ContentsFrom
<1>9. ASSUME NEW x \in Request, req'[x] # Idle, NEW l \in DOMAIN dirs'
      PROVE  dirs'[l].content # req'[x].id
  <2>1. CASE req[x] # Idle /\ req'[x].id = req[x].id
    <3>1. \A k \in DOMAIN dirs : dirs[k].content # req[x].id
      BY <1>9, <2>1 DEF FreshInv
    <3>2. StoreWrite(r) => req[r].id # req[x].id
      BY <1>7, <1>9, <2>1 DEF FreshInv
    <3>3. QED
      BY <1>2, <2>1, <3>1, <3>2, ContentsFrom
  <2>2. CASE dirs' = dirs /\ req'[x].id = end
    BY <1>1, <1>4, <1>9, <2>2
  <2>3. QED
    BY <1>9, <2>1, <2>2, Identities
<1>10. QED
  BY <1>5, <1>6, <1>8, <1>9 DEF FreshInv

LEMMA FreshKept == TypeInv /\ DamageInv /\ FreshInv /\ [Next]_vars => FreshInv'
<1> SUFFICES ASSUME TypeInv, DamageInv, FreshInv, [Next]_vars PROVE FreshInv'
  OBVIOUS
<1>1. CASE \E r \in Request : Step(r)
  BY <1>1, TypesKept, StepFresh
<1>2. CASE Crash
  <2>1. /\ DOMAIN dirs' = DOMAIN dirs /\ \A l \in DOMAIN dirs : dirs'[l].content = dirs[l].content
        /\ issued' = issued /\ \A x \in Request : req'[x] = Idle
    BY <1>2, CrashEffect
  <2>2. QED
    BY <2>1 DEF FreshInv
<1>3. CASE Tick \/ UNCHANGED vars
  BY <1>3 DEF Tick, vars, FreshInv
<1>4. QED
  BY <1>1, <1>2, <1>3 DEF Next

LEMMA InitFresh == Init => FreshInv
<1> SUFFICES ASSUME Init PROVE FreshInv
  OBVIOUS
<1>1. dirs \in InitialDirs /\ issued = 0 /\ \A x \in Request : req[x] = Idle
  BY DEF Init
<1>2. NewContent \in Nat /\ Absent \notin Nat
  BY DocumentStoreAssumption DEF Content
<1>3. ASSUME NEW l \in DOMAIN dirs, dirs[l].content \in Nat
      PROVE  dirs[l].content < NewContent + issued
  <2>1. dirs[l].content \in (0 .. NewContent - 1) \cup {Absent}
    BY <1>1, InitialDirsAssumption
  <2>2. QED
    BY <1>1, <1>2, <1>3, <2>1
<1>4. QED
  BY <1>1, <1>3 DEF FreshInv

----------------------------------------------------------------------------
(* The tree that the directories represent.                                *)

LEMMA DocsIn ==
    /\ \A m : m \in DOMAIN DocsOf <=> m \in DOMAIN dirs /\ HasFile(m) /\ Visible(m) # Absent
    /\ \A m \in DOMAIN DocsOf : DocsOf[m] = Visible(m)
    /\ DocsOf = [m \in DOMAIN DocsOf |-> DocsOf[m]]
BY DEF DocsOf

\* A file is there if something is visible in it.
LEMMA VisibleHasFile ==
    ASSUME NEW m \in DOMAIN dirs, Visible(m) # Absent
    PROVE  HasFile(m)
BY DEF Visible, HasFile, Exists

LEMMA DocsAre ==
    /\ \A m : m \in DOMAIN DocsOf <=> (m \in DOMAIN dirs /\ Visible(m) # Absent)
    /\ \A m \in DOMAIN DocsOf : DocsOf[m] = Visible(m)
BY VisibleHasFile DEF DocsOf

LEMMA DocsAreThen ==
    /\ \A m : m \in (DOMAIN DocsOf)' <=> (m \in DOMAIN dirs' /\ Visible(m)' # Absent)
    /\ \A m \in (DOMAIN DocsOf)' : DocsOf'[m] = Visible(m)'
    /\ DocsOf' = [m \in (DOMAIN DocsOf)' |-> DocsOf'[m]]
<1>1. ASSUME NEW m \in DOMAIN dirs', Visible(m)' # Absent
      PROVE  HasFile(m)'
  BY <1>1 DEF Visible, HasFile, Exists
<1>2. QED
  BY <1>1 DEF DocsOf

\* The same is visible in two directories with the same file and writers.
LEMMA SameVisible ==
    ASSUME NEW k, NEW m, dirs'[m].content = dirs[k].content, dirs'[m].torn = dirs[k].torn,
           \A x \in Request : Writing(x, m)' <=> Writing(x, k)
    PROVE  Visible(m)' = Visible(k)
BY DEF Visible

LEMMA SameDocs ==
    ASSUME \A m \in DOMAIN dirs : m \in DOMAIN dirs' /\ Visible(m)' = Visible(m),
           \A m \in DOMAIN dirs' \ DOMAIN dirs : Visible(m)' = Absent
    PROVE  UNCHANGED DocsOf
<1>1. (DOMAIN DocsOf)' = DOMAIN DocsOf
  BY DocsAre, DocsAreThen
<1>2. \A m \in DOMAIN DocsOf : DocsOf'[m] = DocsOf[m]
  BY <1>1, DocsAre, DocsAreThen
<1>3. QED
  BY <1>1, <1>2, DocsIn, DocsAreThen

LEMMA StillDocs ==
    ASSUME TypeInv, TypeInv', WritersInv, Still
    PROVE  UNCHANGED DocsOf
<1>1. Nowhere \notin DOMAIN dirs
  BY PlacesAreSomewhere
<1>2. ASSUME NEW m \in DOMAIN dirs
      PROVE  m \in DOMAIN dirs' /\ Visible(m)' = Visible(m)
  <2>1. \A x \in Request : Writing(x, m)' <=> Writing(x, m)
    BY <1>1, WritingStays DEF Still
  <2>2. QED
    BY <2>1, SameVisible DEF Still
<1>3. ASSUME NEW m \in DOMAIN dirs' \ DOMAIN dirs
      PROVE  Visible(m)' = Absent
  BY DEF Still, Visible
<1>4. QED
  BY <1>2, <1>3, SameDocs

LEMMA StoreOpenDocs ==
    ASSUME TypeInv, NEW r \in Request, StoreOpen(r)
    PROVE  UNCHANGED DocsOf
<1> PICK l : l = req[r].src
  OBVIOUS
<1>1. /\ l \in DOMAIN dirs /\ DOMAIN dirs' = DOMAIN dirs
      /\ \A m \in DOMAIN dirs \ {l} : dirs'[m] = dirs[m]
      /\ dirs'[l].content = Visible(l)
      /\ \A m \in DOMAIN dirs, x \in Request :
            Writing(x, m)' <=> (Writing(x, m) \/ (x = r /\ m = l))
  BY StoreOpenMoves
<1>2. Visible(l)' = Visible(l)
  BY <1>1 DEF Visible
<1>3. ASSUME NEW m \in DOMAIN dirs \ {l}
      PROVE  Visible(m)' = Visible(m)
  BY <1>1, SameVisible
<1>4. QED
  BY <1>1, <1>2, <1>3, SameDocs

LEMMA StoreWriteDocs ==
    ASSUME TypeInv, DamageInv, FreshInv, NEW r \in Request, StoreWrite(r)
    PROVE  Tree!Store \/ Tree!Damage \/ UNCHANGED DocsOf
<1> PICK l : l = req[r].dst
  OBVIOUS
<1>1. /\ IsRequest(req[r]) /\ DOMAIN dirs' = DOMAIN dirs
      /\ \A m \in DOMAIN dirs \ {l} : dirs'[m] = dirs[m]
      /\ Writing(r, l)
      /\ \A m : \A x \in Request : Writing(x, m)' <=> (Writing(x, m) /\ x # r)
  BY StoreWriteMoves
<1>2. ASSUME NEW m \in DOMAIN dirs \ {l}
      PROVE  Visible(m)' = Visible(m)
  <2>1. ~Writing(r, m)
    BY <1>1 DEF Writing
  <2>2. QED
    BY <1>1, <2>1, SameVisible
<1>3. CASE l \notin DOMAIN dirs
  BY <1>1, <1>2, <1>3, SameDocs
<1>4. CASE l \in DOMAIN dirs
  <2> PICK c : c = dirs'[l].content
    OBVIOUS
  <2>1. c \in {req[r].id, Damaged} /\ ~dirs'[l].torn
    BY <1>4, StoreWriteMoves
  <2>2. Visible(l)' = c
    BY <2>1 DEF Visible
  <2>3. req[r].id \in Nat /\ Absent \notin Nat /\ Damaged \notin Nat /\ Damaged # Absent
    BY <1>1, AbsentIsNotContent DEF IsRequest, Fields, Content
  <2>4. (DOMAIN DocsOf)' = DOMAIN DocsOf \cup {l}
    BY <1>1, <1>2, <1>4, <2>1, <2>2, <2>3, DocsAre, DocsAreThen
  <2>5. DocsOf'[l] = c /\ \A m \in DOMAIN DocsOf \ {l} : DocsOf'[m] = DocsOf[m]
    BY <1>1, <1>2, <1>4, <2>2, <2>4, DocsAre, DocsAreThen
  <2>6. CASE c = Damaged
    BY <2>4, <2>5, <2>6 DEF Tree!Damage
  <2>7. CASE c = req[r].id
    <3>1. c \notin Range(DocsOf) \cup {Damaged}
      <4>1. req[r] # Idle
        BY StoreWriteEffect, IdleFields
      <4>2. \A m \in DOMAIN dirs : dirs[m].content # c
        BY <2>7, <4>1 DEF FreshInv
      <4>3. \A m \in DOMAIN dirs : Visible(m) # c
        BY <2>3, <2>7, <4>2 DEF Visible
      <4>4. QED
        BY <2>3, <2>7, <4>3, DocsAre DEF Range
    <3>2. DocsOf' = Tree!Placed(l, c, DocsOf)
      BY <2>4, <2>5, DocsAreThen DEF Tree!Placed
    <3>3. l \in DOMAIN DocsOf' /\ DocsOf'[l] = c
      BY <2>4, <2>5, DocsAreThen
    <3>4. DocsOf'[l] \notin Tree!Range(DocsOf) \cup {Damaged} /\ DocsOf' = Tree!Placed(l, DocsOf'[l], DocsOf)
      BY <3>1, <3>2, <3>3 DEF Range, Tree!Range
    <3>5. Tree!Store
      BY ONLY <3>3, <3>4 DEF Tree!Store
    <3>6. QED
      BY <3>5
  <2>8. QED
    BY <2>1, <2>6, <2>7
<1>5. QED
  BY <1>3, <1>4

\* Nothing is left of what is written when the backend stops.
LEMMA CrashDocs ==
    ASSUME TypeInv, Crash
    PROVE  Tree!Damage
<1>1. /\ DOMAIN dirs' = DOMAIN dirs
      /\ \A l \in DOMAIN dirs : dirs'[l].content = dirs[l].content /\ dirs'[l].torn = dirs[l].torn
      /\ \A x \in Request : req'[x] = Idle
  BY CrashEffect
<1>2. \A m : \A x \in Request : ~Writing(x, m)'
  BY <1>1, IdleFields DEF Writing
<1>3. Damaged # Absent
  BY AbsentIsNotContent
<1>4. ASSUME NEW m \in DOMAIN dirs
      PROVE  Visible(m)' = IF dirs[m].torn THEN Damaged ELSE Visible(m)
  BY <1>1, <1>2 DEF Visible
<1>5. DOMAIN DocsOf \subseteq (DOMAIN DocsOf)'
  BY <1>1, <1>3, <1>4, DocsAre, DocsAreThen
<1>6. ASSUME NEW m \in (DOMAIN DocsOf)'
      PROVE  DocsOf'[m] = Damaged \/ (m \in DOMAIN DocsOf /\ DocsOf'[m] = DocsOf[m])
  BY <1>1, <1>4, DocsAre, DocsAreThen
<1>7. QED
  BY <1>5, <1>6 DEF Tree!Damage

LEMMA TreeOperators ==
    /\ \A s, t : Tree!IsPrefix(s, t) <=> IsPrefix(s, t)
    /\ \A s : Tree!Prefixes(s) = Prefixes(s)
    /\ \A l, src, dst : Tree!Relocated(l, src, dst) = Relocated(l, src, dst)
BY DEF Tree!IsPrefix, IsPrefix, Tree!Prefixes, Prefixes, Tree!Relocated, Relocated

LEMMA PrefixIsOneOf ==
    ASSUME NEW D, NEW l \in D, l \in Seq(Element), NEW m \in Seq(Element), IsPrefix(m, l)
    PROVE  m \in Tree!AllPrefixes(D)
<1>1. Len(m) \in 0 .. Len(l) /\ m = SubSeq(l, 1, Len(m))
  BY PrefixCuts
<1>2. m \in Prefixes(l)
  BY <1>1 DEF Prefixes
<1>3. m \in Tree!Prefixes(l)
  BY <1>2, TreeOperators
<1>4. QED
  BY <1>3 DEF Tree!AllPrefixes

\* What a rename makes of the documents.
LEMMA RenamedDocs ==
    ASSUME TypeInv, WritersInv, NEW r \in Request, Rename(r), NEW src, NEW dst,
           src = req[r].src, dst = req[r].dst
    PROVE  /\ IsPlace(src) /\ IsPlace(dst) /\ CanRename(src, dst) /\ Len(src) > 1 /\ Len(dst) > 1
           /\ DOMAIN DocsOf \subseteq Kept(src, dst)
           /\ \A m \in (DOMAIN DocsOf)' : \E l \in DOMAIN DocsOf : m = Relocated(l, src, dst)
           /\ \A l \in DOMAIN DocsOf :
                 /\ Relocated(l, src, dst) \in (DOMAIN DocsOf)'
                 /\ DocsOf'[Relocated(l, src, dst)] = DocsOf[l]
<1>1. /\ IsPlace(src) /\ IsPlace(dst) /\ CanRename(src, dst) /\ Len(src) > 1 /\ Len(dst) > 1
      /\ Kept(src, dst) \subseteq DOMAIN dirs
      /\ \A l \in DOMAIN dirs \ Kept(src, dst) : dirs[l] = EmptyDir
      /\ \A m \in DOMAIN dirs' : \E k \in Kept(src, dst) : m = Relocated(k, src, dst)
      /\ \A k \in Kept(src, dst) :
            /\ Relocated(k, src, dst) \in DOMAIN dirs'
            /\ dirs'[Relocated(k, src, dst)] = dirs[k]
            /\ \A x \in Request : Writing(x, Relocated(k, src, dst))' <=> Writing(x, k)
  <2>1. /\ IsPlace(src) /\ IsPlace(dst) /\ CanRename(src, dst) /\ Len(src) > 1 /\ Len(dst) > 1
        /\ Kept(src, dst) \subseteq DOMAIN dirs
        /\ \A l \in DOMAIN dirs \ Kept(src, dst) : dirs[l] = EmptyDir
    BY RenameMoves
  <2>2. /\ \A m \in DOMAIN dirs' : \E k \in Kept(src, dst) : m = Relocated(k, src, dst)
        /\ \A k \in Kept(src, dst) :
              /\ Relocated(k, src, dst) \in DOMAIN dirs'
              /\ dirs'[Relocated(k, src, dst)] = dirs[k]
              /\ \A x \in Request : Writing(x, Relocated(k, src, dst))' <=> Writing(x, k)
    BY RenameMoves
  <2>3. QED
    BY <2>1, <2>2
<1>2. DOMAIN DocsOf \subseteq Kept(src, dst)
  <2>1. ASSUME NEW l \in DOMAIN dirs \ Kept(src, dst)
        PROVE  Visible(l) = Absent
    BY <1>1, DirectoryFields DEF Visible
  <2>2. QED
    BY <2>1, DocsAre
<1>3. ASSUME NEW k \in Kept(src, dst)
      PROVE  Visible(Relocated(k, src, dst))' = Visible(k)
  <2> PICK m : m = Relocated(k, src, dst)
    OBVIOUS
  <2>1. /\ dirs'[m].content = dirs[k].content /\ dirs'[m].torn = dirs[k].torn
        /\ \A x \in Request : Writing(x, m)' <=> Writing(x, k)
    BY <1>1
  <2>2. Visible(m)' = Visible(k)
    BY ONLY <2>1, SameVisible
  <2>3. QED
    BY <2>2
<1>4. ASSUME NEW m \in (DOMAIN DocsOf)'
      PROVE  \E l \in DOMAIN DocsOf : m = Relocated(l, src, dst)
  <2>1. m \in DOMAIN dirs' /\ Visible(m)' # Absent
    BY DocsAreThen
  <2>2. PICK k \in Kept(src, dst) : m = Relocated(k, src, dst)
    BY <1>1, <2>1
  <2>3. k \in DOMAIN dirs /\ Visible(k) # Absent
    BY <1>1, <1>3, <2>1, <2>2
  <2>4. QED
    BY <2>2, <2>3, DocsAre
<1>5. ASSUME NEW l \in DOMAIN DocsOf
      PROVE  /\ Relocated(l, src, dst) \in (DOMAIN DocsOf)'
             /\ DocsOf'[Relocated(l, src, dst)] = DocsOf[l]
  <2> PICK m : m = Relocated(l, src, dst)
    OBVIOUS
  <2>1. m \in DOMAIN dirs' /\ Visible(m)' = Visible(l)
    BY <1>1, <1>2, <1>3
  <2>2. Visible(l) # Absent /\ DocsOf[l] = Visible(l)
    BY DocsAre
  <2>3. m \in (DOMAIN DocsOf)' /\ DocsOf'[m] = DocsOf[l]
    BY <2>1, <2>2, DocsAreThen
  <2>4. QED
    BY <2>3
<1>6. QED
  BY <1>1, <1>2, <1>4, <1>5

\* A rename is the move of a subtree, if there is a document in it.
LEMMA RenameDocs ==
    ASSUME TypeInv, WritersInv, NEW r \in Request, Rename(r)
    PROVE  Tree!MoveSubtree \/ UNCHANGED DocsOf
<1>0. PICK src, dst : src = req[r].src /\ dst = req[r].dst
  OBVIOUS
<1>1. /\ IsPlace(src) /\ IsPlace(dst) /\ CanRename(src, dst) /\ Len(src) > 1 /\ Len(dst) > 1
      /\ DOMAIN DocsOf \subseteq Kept(src, dst)
      /\ (DOMAIN DocsOf)' = {Relocated(l, src, dst) : l \in DOMAIN DocsOf}
      /\ \A l \in DOMAIN DocsOf : DocsOf'[Relocated(l, src, dst)] = DocsOf[l]
  <2>1. IsPlace(src) /\ IsPlace(dst) /\ CanRename(src, dst) /\ Len(src) > 1 /\ Len(dst) > 1
    BY <1>0, RenamedDocs
  <2>2. /\ DOMAIN DocsOf \subseteq Kept(src, dst)
        /\ \A m \in (DOMAIN DocsOf)' : \E l \in DOMAIN DocsOf : m = Relocated(l, src, dst)
        /\ \A l \in DOMAIN DocsOf :
              /\ Relocated(l, src, dst) \in (DOMAIN DocsOf)'
              /\ DocsOf'[Relocated(l, src, dst)] = DocsOf[l]
    BY <1>0, RenamedDocs
  <2>3. (DOMAIN DocsOf)' = {Relocated(l, src, dst) : l \in DOMAIN DocsOf}
    BY <2>2
  <2>4. QED
    BY <2>1, <2>2, <2>3
<1>2. PlacesInv /\ IsPlace(src) /\ IsPlace(dst) /\ CanRename(src, dst)
  BY <1>1 DEF TypeInv
<1>3. CASE \A l \in DOMAIN DocsOf : ~IsPrefix(src, l)
  <2>1. \A l \in DOMAIN DocsOf : Relocated(l, src, dst) = l
    BY <1>3 DEF Relocated
  <2>2. (DOMAIN DocsOf)' = DOMAIN DocsOf /\ \A l \in DOMAIN DocsOf : DocsOf'[l] = DocsOf[l]
    BY <1>1, <2>1
  <2>3. QED
    BY <2>2, DocsIn, DocsAreThen
<1>4. CASE \E l \in DOMAIN DocsOf : IsPrefix(src, l)
  <2>1. PICK l \in DOMAIN DocsOf : IsPrefix(src, l)
    BY <1>4
  <2>2. src \in Seq(Element) /\ dst \in Seq(Element)
    BY <1>1 DEF IsPlace
  <2>3. \A k \in DOMAIN DocsOf : k \in Seq(Element)
    BY DocsAre DEF TypeInv, PlacesInv, IsTree, IsPlace
  <2>4. src \in Tree!AllPrefixes(DOMAIN DocsOf)
    BY <2>1, <2>2, <2>3, PrefixIsOneOf
  <2>5. dst \in Tree!AllPrefixes((DOMAIN DocsOf)')
    <3> DEFINE m == Relocated(l, src, dst)
    <3>1. /\ m \in Seq(Element) /\ Len(m) = Len(dst) + Len(l) - Len(src)
          /\ \A i \in 1 .. Len(dst) : m[i] = dst[i]
      <4>1. l \in Seq(Element) /\ IsPrefix(src, l)
        BY <2>1, <2>3
      <4>2. QED
        BY <2>2, <4>1, RelocatedBelow
    <3> HIDE DEF m
    <3>2. Len(src) <= Len(l)
      BY <2>1, <2>2, <2>3, PrefixElements
    <3>3. Len(src) \in Nat /\ Len(dst) \in Nat /\ Len(l) \in Nat
      BY <2>1, <2>2, <2>3
    <3>4. Len(dst) <= Len(m)
      BY <3>1, <3>2, <3>3
    <3>5. IsPrefix(dst, m)
      BY <2>2, <3>1, <3>4, PrefixElements
    <3>6. m \in (DOMAIN DocsOf)'
      BY <1>1, <2>1 DEF m
    <3>7. QED
      BY <2>2, <3>1, <3>5, <3>6, PrefixIsOneOf
  <2>6. \A k \in DOMAIN DocsOf : Tree!IsPrefix(dst, k) => Tree!IsPrefix(src, k)
    BY <1>1, <1>2, NothingInTheWay, TreeOperators
  <2>7. DocsOf' = [m \in {Tree!Relocated(k, src, dst) : k \in DOMAIN DocsOf} |->
                      DocsOf[CHOOSE k \in DOMAIN DocsOf : Tree!Relocated(k, src, dst) = m]]
    <3> DEFINE origin(m) == CHOOSE k \in DOMAIN DocsOf : Relocated(k, src, dst) = m
    <3>1. ASSUME NEW k \in DOMAIN DocsOf
          PROVE  origin(Relocated(k, src, dst)) = k
      <4>1. \E j \in DOMAIN DocsOf : Relocated(j, src, dst) = Relocated(k, src, dst)
        BY <3>1
      <4>2. PICK j : j = origin(Relocated(k, src, dst))
        OBVIOUS
      <4>3. j \in DOMAIN DocsOf /\ Relocated(j, src, dst) = Relocated(k, src, dst)
        BY <4>1, <4>2
      <4>4. j \in Kept(src, dst) /\ k \in Kept(src, dst)
        BY <1>1, <3>1, <4>3
      <4>5. j = k
        BY <1>2, <4>3, <4>4, RelocatedOnce
      <4>6. QED
        BY <4>2, <4>5
    <3> HIDE DEF origin
    <3>2. \A m \in (DOMAIN DocsOf)' : DocsOf'[m] = DocsOf[origin(m)]
      BY <1>1, <3>1
    <3>3. DocsOf' = [m \in {Relocated(k, src, dst) : k \in DOMAIN DocsOf} |-> DocsOf[origin(m)]]
      BY <1>1, <3>2, DocsAreThen
    <3>4. \A k : Tree!Relocated(k, src, dst) = Relocated(k, src, dst)
      BY TreeOperators
    <3>5. QED
      BY <3>3, <3>4 DEF origin
  <2>8. QED
    BY <1>1, <2>4, <2>5, <2>6, <2>7 DEF Tree!MoveSubtree
<1>5. QED
  BY <1>3, <1>4

\* What is visible after content.md of src has replaced that of dst.
LEMMA MovedVisible ==
    ASSUME NEW src \in DOMAIN dirs, NEW dst \in DOMAIN dirs, src # dst, ContentMove(src, dst)
    PROVE  /\ Visible(dst)' = Visible(src) /\ Visible(src)' = Absent
           /\ \A m \in DOMAIN dirs \ {src, dst} : Visible(m)' = Visible(m)
<1>1. Visible(dst)' = Visible(src)
  <2>1. /\ dirs'[dst].content = dirs[src].content /\ dirs'[dst].torn = dirs[src].torn
        /\ \A x \in Request : Writing(x, dst)' <=> Writing(x, src)
    BY DEF ContentMove
  <2>2. QED
    BY ONLY <2>1, SameVisible
<1>2. Visible(src)' = Absent
  BY DEF ContentMove, Visible
<1>3. ASSUME NEW m \in DOMAIN dirs \ {src, dst}
      PROVE  Visible(m)' = Visible(m)
  BY SameVisible DEF ContentMove
<1>4. QED
  BY <1>1, <1>2, <1>3

LEMMA MovedDocs ==
    ASSUME TypeInv, NEW src, NEW dst, src # dst, src \in DOMAIN dirs, dst \in DOMAIN dirs,
           InDocs(src), IsEntry(dst), ContentMove(src, dst)
    PROVE  Tree!MoveToTrashAlone \/ Tree!Purge \/ UNCHANGED DocsOf
<1>1. /\ DOMAIN dirs' = DOMAIN dirs
      /\ Visible(dst)' = Visible(src) /\ Visible(src)' = Absent
      /\ \A m \in DOMAIN dirs \ {src, dst} : Visible(m)' = Visible(m)
  BY MovedVisible DEF ContentMove
<1>2. Head(src) = "docs" /\ Head(dst) = "trash"
  BY DEF InDocs, IsEntry, IsPlace
<1>3. \A m \in DOMAIN DocsOf \ {src, dst} : m \in (DOMAIN DocsOf)' /\ DocsOf'[m] = DocsOf[m]
  BY <1>1, DocsAre, DocsAreThen
<1>4. /\ \A m \in (DOMAIN DocsOf)' \ {src, dst} : m \in DOMAIN DocsOf
      /\ src \notin (DOMAIN DocsOf)'
  BY <1>1, DocsAre, DocsAreThen
<1>5. CASE src \in DOMAIN DocsOf
  <2>1. dst \in (DOMAIN DocsOf)' /\ DocsOf'[dst] = DocsOf[src]
    BY <1>1, <1>5, DocsAre, DocsAreThen
  <2>2. (DOMAIN DocsOf)' = (DOMAIN DocsOf \ {src}) \cup {dst}
    BY <1>3, <1>4, <2>1
  <2>3. DocsOf' = Tree!Placed(dst, DocsOf[src], Tree!Without({src}))
    BY <1>3, <2>1, <2>2, DocsAreThen DEF Tree!Placed, Tree!Without
  <2>4. QED
    BY <1>2, <1>5, <2>1, <2>3 DEF Tree!MoveToTrashAlone
<1>6. CASE src \notin DOMAIN DocsOf
  <2>1. dst \notin (DOMAIN DocsOf)'
    BY <1>1, <1>6, DocsAre, DocsAreThen
  <2>2. (DOMAIN DocsOf)' = DOMAIN DocsOf \ {dst}
    BY <1>3, <1>4, <1>6, <2>1
  <2>3. DocsOf' = Tree!Without({dst})
    BY <1>3, <1>6, <2>2, DocsAreThen DEF Tree!Without
  <2>4. CASE dst \in DOMAIN DocsOf
    BY <1>2, <2>3, <2>4 DEF Tree!Purge
  <2>5. CASE dst \notin DOMAIN DocsOf
    <3>1. (DOMAIN DocsOf)' = DOMAIN DocsOf /\ \A m \in DOMAIN DocsOf : DocsOf'[m] = DocsOf[m]
      BY <1>3, <1>6, <2>2, <2>5
    <3>2. QED
      BY <3>1, DocsIn, DocsAreThen
  <2>6. QED
    BY <2>4, <2>5
<1>7. QED
  BY <1>5, <1>6

LEMMA RemoveAloneEntryDocs ==
    ASSUME TypeInv, TypeInv', WritersInv, NEW r \in Request, RemoveAloneEntry(r)
    PROVE  Tree!MoveToTrashAlone \/ Tree!Purge \/ UNCHANGED DocsOf
<1>1. PICK src, dst : src = req[r].src /\ dst = req[r].dst
  OBVIOUS
<1>2. /\ InDocs(src) /\ IsEntry(dst) /\ src # dst
      /\ src \in DOMAIN dirs /\ dst \in DOMAIN dirs
      /\ ContentMove(src, dst) \/ OtherMove(src, dst)
  BY <1>1, RemoveAloneEntryMoves
<1>3. CASE ContentMove(src, dst)
  BY <1>2, <1>3, MovedDocs
<1>4. CASE OtherMove(src, dst)
  BY <1>4, StillDocs DEF OtherMove
<1>5. QED
  BY <1>2, <1>3, <1>4

LEMMA PurgeOneDocs ==
    ASSUME TypeInv, TypeInv', WritersInv, NEW r \in Request, PurgeOne(r)
    PROVE  Tree!Purge \/ UNCHANGED DocsOf
<1>1. PICK l \in DOMAIN dirs :
          /\ Len(l) > 1 /\ l[1] = "trash"
          /\ DOMAIN dirs' = DOMAIN dirs \ {l}
          /\ \A m \in DOMAIN dirs \ {l} : dirs'[m] = dirs[m]
          /\ \A m \in DOMAIN dirs', x \in Request : Writing(x, m)' <=> Writing(x, m)
  BY PurgeOneIsCarried
<1>2. \A m \in DOMAIN dirs \ {l} : Visible(m)' = Visible(m)
  BY <1>1, SameVisible
<1>3. \A m \in DOMAIN DocsOf \ {l} : m \in (DOMAIN DocsOf)' /\ DocsOf'[m] = DocsOf[m]
  BY <1>1, <1>2, DocsAre, DocsAreThen
<1>4. (DOMAIN DocsOf)' = DOMAIN DocsOf \ {l}
  BY <1>1, <1>2, <1>3, DocsAre, DocsAreThen
<1>5. DocsOf' = Tree!Without({l})
  BY <1>3, <1>4, DocsAreThen DEF Tree!Without
<1>6. CASE l \in DOMAIN DocsOf
  <2>1. Head(l) = "trash"
    BY <1>1 DEF TypeInv, PlacesInv, IsTree, IsPlace
  <2>2. QED
    BY <1>5, <1>6, <2>1 DEF Tree!Purge
<1>7. CASE l \notin DOMAIN DocsOf
  <2>1. (DOMAIN DocsOf)' = DOMAIN DocsOf /\ \A m \in DOMAIN DocsOf : DocsOf'[m] = DocsOf[m]
    BY <1>3, <1>4, <1>7
  <2>2. QED
    BY <2>1, DocsIn, DocsAreThen
<1>8. QED
  BY <1>6, <1>7

LEMMA InitDocs == Init => Tree!Init
<1> SUFFICES ASSUME Init PROVE Tree!Init
  OBVIOUS
<1>1. dirs \in InitialDirs
  BY DEF Init
<1>2. \A l \in DOMAIN dirs : dirs[l].torn = FALSE
  BY <1>1, InitialDirsAssumption
<1>3. \A l \in DOMAIN dirs :
         Visible(l) = dirs[l].content /\ (HasFile(l) <=> dirs[l].content # Absent)
  BY <1>2 DEF Visible, HasFile, Exists
<1>4. DocsOf = [l \in {m \in DOMAIN dirs : dirs[m].content # Absent} |-> dirs[l].content]
  BY <1>3 DEF DocsOf
<1>5. QED
  BY <1>1, <1>4 DEF Tree!Init

LEMMA StepDocs ==
    ASSUME TypeInv, DamageInv, FreshInv, NEW r \in Request, Step(r)
    PROVE  Tree!Next \/ UNCHANGED DocsOf
<1>1. TypeInv' /\ WritersInv
  <2>1. [Next]_vars
    BY DEF Next
  <2>2. QED
    BY <2>1, TypesKept DEF DamageInv
<1>2. CASE Quiet \/ StoreCopy(r)
  <2>1. Still
    BY <1>1, <1>2, StoreCopyMoves DEF Quiet
  <2>2. QED
    BY <1>1, <2>1, StillDocs
<1>3. CASE StoreOpen(r)
  BY <1>3, StoreOpenDocs
<1>4. CASE StoreWrite(r)
  BY <1>4, StoreWriteDocs DEF Tree!Next
<1>5. CASE Rename(r)
  BY <1>1, <1>5, RenameDocs DEF Tree!Next
<1>6. CASE RemoveAloneEntry(r)
  BY <1>1, <1>6, RemoveAloneEntryDocs DEF Tree!Next
<1>7. CASE PurgeOne(r)
  BY <1>1, <1>7, PurgeOneDocs DEF Tree!Next
<1>8. QED
  BY <1>2, <1>3, <1>4, <1>5, <1>6, <1>7, QuietCases

LEMMA NextDocs == TypeInv /\ DamageInv /\ FreshInv /\ [Next]_vars => [Tree!Next]_DocsOf
<1> SUFFICES ASSUME TypeInv, DamageInv, FreshInv, [Next]_vars
             PROVE  Tree!Next \/ UNCHANGED DocsOf
  OBVIOUS
<1>1. CASE \E r \in Request : Step(r)
  BY <1>1, StepDocs
<1>2. CASE Crash
  BY <1>2, CrashDocs DEF Tree!Next
<1>3. CASE Tick \/ UNCHANGED vars
  <2>1. dirs' = dirs /\ req' = req
    BY <1>3 DEF Tick, vars
  <2>2. \A m \in DOMAIN dirs : Visible(m)' = Visible(m)
    BY <2>1, SameVisible DEF Writing
  <2>3. QED
    BY <2>1, <2>2, SameDocs
<1>4. QED
  BY <1>1, <1>2, <1>3 DEF Next

\* Requests made of file operations that interleave in any way, with crashes,
\* change the tree as the atomic requests of DocumentTree do.
THEOREM StoreIsAtomic == Spec => AtomicTree
<1>1. Init => TypeInv /\ DamageInv /\ FreshInv /\ Tree!Init
  BY InitTypes, InitDamage, InitFresh, InitDocs
<1>2. TypeInv /\ DamageInv /\ FreshInv /\ [Next]_vars
      => (TypeInv /\ DamageInv /\ FreshInv)' /\ [Tree!Next]_DocsOf
  BY TypesKept, DamageKept, FreshKept, NextDocs
<1>3. QED
  BY <1>1, <1>2, PTL DEF Spec, AtomicTree, Tree!Spec

=============================================================================
