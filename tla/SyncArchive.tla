----------------------------- MODULE SyncArchive -----------------------------
(***************************************************************************)
(* The archives of a synchronization: what POST /sync writes into one      *)
(* (appendDocumentFiles of backend/src/services/sync.service.ts) and which *)
(* archives PUT /sync accepts, and as which documents                      *)
(* (validateArchiveFiles).  In Sync an archive is the documents it was     *)
(* made of; the assumptions below check, over small archives, that the     *)
(* receiver reads just that out of it.                                     *)
(*                                                                         *)
(* A path is the sequence of its segments, the root document's is <<>>; of *)
(* the conversions of a name only the change to lower case is told apart.  *)
(* An empty segment stands for a separator that has nothing beside it.     *)
(***************************************************************************)
EXTENDS Naturals, Sequences, FiniteSets
LOCAL INSTANCE SequencesExt

CONTENT_FILE == "content.md"
VERSIONS_DIRECTORY == "_versions"

\* Names as users may spell them in the datasets, and in lower case.
LowerCase == ("X" :> "x") @@ ("Content.md" :> CONTENT_FILE) @@ ("_Versions" :> VERSIONS_DIRECTORY)

Lower(name) == IF name \in DOMAIN LowerCase THEN LowerCase[name] ELSE name

\* sanitizeDocumentPath fails for a path through the directory of versions.
sanitizeFails(path) == VERSIONS_DIRECTORY \in {Lower(path[i]) : i \in DOMAIN path}

sanitizeDocumentPath(path) == [i \in DOMAIN path |-> Lower(path[i])]

\* A path that sanitizing leaves as it is.
IsSanitized(path) == ~sanitizeFails(path) /\ sanitizeDocumentPath(path) = path

\* The paths of a POST /sync; paths that become the same are one.
normalizeActionPaths(paths) == {sanitizeDocumentPath(p) : p \in paths}

ActionsRefused(retrieve, delete) ==
    \/ \E p \in retrieve \cup delete : sanitizeFails(p)
    \/ normalizeActionPaths(retrieve) \cap normalizeActionPaths(delete) # {}

----------------------------------------------------------------------------
(* Export.  A directory of a document is the files in it, the name of its  *)
(* directory of versions and the files there.                              *)

CanAppend(dir) == \E f \in dir.files : Lower(f) = CONTENT_FILE

\* The files that appendDocumentFiles adds: every file of the directory, and of
\* its versions, under the name it has on disk.
appendDocumentFiles(path, dir) ==
    {path \o <<f>> : f \in dir.files}
        \cup {path \o <<dir.versionsName, v>> : v \in dir.versions}

\* An archive is the sequence of its entries.
FileEntry(path) == [path |-> path, type |-> "File"]

createArchive(tree) ==
    FoldSet(LAMBDA file, archive : Append(archive, FileEntry(file)), <<>>,
            UNION {appendDocumentFiles(p, tree[p]) : p \in DOMAIN tree})

----------------------------------------------------------------------------
(* Import.                                                                 *)

\* normalizeArchivePath drops one separator at either end.
Segments(path) ==
    LET first == IF path # <<>> /\ path[1] = "" THEN 2 ELSE 1
        last == IF path # <<>> /\ path[Len(path)] = "" THEN Len(path) - 1 ELSE Len(path)
    IN  SubSeq(path, first, last)

normalizeFails(path) == Segments(path) = <<>> \/ "" \in Range(Segments(path))

validateArchiveDirectoryFails(segments) ==
    \/ Last(segments) = CONTENT_FILE
    \/ VERSIONS_DIRECTORY \in Range(Front(segments))
    \/ /\ Last(segments) = VERSIONS_DIRECTORY
       /\ ~IsSanitized(Front(segments))
    \/ /\ Last(segments) # VERSIONS_DIRECTORY
       /\ ~IsSanitized(segments)

validateArchiveFileNameFails(name) ==
    name # CONTENT_FILE /\ ~IsSanitized(<<name>>)

\* The files of an archive, by their normalized paths.
FilesOf(archive) == {Segments(e.path) : e \in {x \in Range(archive) : x.type = "File"}}

\* The documents it holds: the directories with a content file.
DocumentPaths(archive) == {Front(f) : f \in {x \in FilesOf(archive) : Last(x) = CONTENT_FILE}}

\* The documents whose directory is above the file; the code takes the one with
\* the longest path.
Candidates(archive, file) == {d \in DocumentPaths(archive) : IsPrefix(d, file)}

OwnerOf(archive, file) ==
    CHOOSE d \in Candidates(archive, file) :
        \A other \in Candidates(archive, file) : Len(other) <= Len(d)

Remaining(archive, file) ==
    SubSeq(file, Len(OwnerOf(archive, file)) + 1, Len(file))

\* The first loop refuses an entry for itself or as a duplicate.
EntriesFail(archive) ==
    \/ \E e \in Range(archive) :
          \/ normalizeFails(e.path)
          \/ e.type \notin {"File", "Directory"}
          \/ e.type = "Directory" /\ validateArchiveDirectoryFails(Segments(e.path))
    \/ \E i, j \in DOMAIN archive :
          /\ i # j /\ archive[i].type = "File" /\ archive[j].type = "File"
          /\ Segments(archive[i].path) = Segments(archive[j].path)
    \/ \E d \in DocumentPaths(archive) : ~IsSanitized(d)

\* The second one refuses a file that is not in the directory, or among the
\* versions, of a document.
FilesFail(archive) ==
    \E f \in FilesOf(archive) :
        \/ Candidates(archive, f) = {}
        \/ LET remaining == Remaining(archive, f)
           IN  \/ ~ \/ Len(remaining) = 1
                    \/ Len(remaining) = 2 /\ remaining[1] = VERSIONS_DIRECTORY
               \/ validateArchiveFileNameFails(Last(remaining))

validateArchiveFails(archive) == EntriesFail(archive) \/ FilesFail(archive)

\* stageArchiveDocuments: the files of every document, under their paths in its
\* directory.
stageArchiveDocuments(archive) ==
    [d \in DocumentPaths(archive) |->
        {Remaining(archive, f) : f \in {x \in FilesOf(archive) : OwnerOf(archive, x) = d}}]

----------------------------------------------------------------------------
(* What the archives of the code satisfy, over small ones.                 *)

\* Directories as the backend keeps them: names in lower case.
CleanDirectory ==
    [files : {{CONTENT_FILE}, {CONTENT_FILE, "x"}},
     versionsName : {VERSIONS_DIRECTORY}, versions : SUBSET {"x", "y"}]

\* Documents in one another, one of them the root document; two siblings.
SomePaths == {<<>>, <<"a">>, <<"a", "b">>, <<"c">>}

CleanTrees == UNION {[paths -> CleanDirectory] : paths \in {p \in SUBSET SomePaths : Cardinality(p) <= 2}}

\* The same files as they are on disk.
OnDisk(dir) == {<<f>> : f \in dir.files} \cup {<<dir.versionsName, v>> : v \in dir.versions}

\* What one backend exports, another one imports as it was: no document loses a
\* file to the document above it, and none is refused.
ASSUME ExportIsImported ==
    \A tree \in CleanTrees :
        /\ ~validateArchiveFails(createArchive(tree))
        /\ stageArchiveDocuments(createArchive(tree)) = [p \in DOMAIN tree |-> OnDisk(tree[p])]

\* A directory whose names were given by hand in upper case is exported as well,
\* and the whole archive is refused by the receiver.
HandMade ==
    [files : {{CONTENT_FILE, "X"}, {"Content.md"}}, versionsName : {VERSIONS_DIRECTORY}, versions : {{}}]
        \cup [files : {{CONTENT_FILE}}, versionsName : {"_Versions"}, versions : {{"x"}}]

ASSUME HandMadeIsRefused ==
    \A dir \in HandMade, path \in SomePaths :
        CanAppend(dir) /\ validateArchiveFails(createArchive(path :> dir))

SomeNames == {"", "x", "X", CONTENT_FILE, VERSIONS_DIRECTORY}
SomeFiles == {FileEntry(path) : path \in UNION {[1 .. n -> SomeNames] : n \in 1 .. 3}}
SomeArchives == {<<e>> : e \in SomeFiles} \cup {<<e, f>> : e, f \in SomeFiles}

\* An accepted archive writes nothing but files with clean names, in the
\* directory or the directory of versions of documents that come with their
\* content file, and every file goes where its path says.
ASSUME AcceptedIsConfined ==
    \A archive \in SomeArchives : ~validateArchiveFails(archive) =>
        LET staged == stageArchiveDocuments(archive)
        IN  /\ UNION {{d \o r : r \in staged[d]} : d \in DOMAIN staged} = FilesOf(archive)
            /\ \A d \in DOMAIN staged :
                  /\ IsSanitized(d) /\ <<CONTENT_FILE>> \in staged[d]
                  /\ \A r \in staged[d] :
                        /\ IsSanitized(<<Last(r)>>)
                        /\ Front(r) \in {<<>>, <<VERSIONS_DIRECTORY>>}

=============================================================================
