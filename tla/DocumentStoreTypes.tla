------------------------- MODULE DocumentStoreTypes -------------------------
(***************************************************************************)
(* Type correctness of the document store, for any number of requests,     *)
(* paths, initial directories and crashes.                                 *)
(*                                                                         *)
(* 1. Sequences, and what a rename (Renamed), a recursive mkdir (WithDir)  *)
(*    and an rm make of a tree of locations: it stays a tree (IsTree).     *)
(*    The rename of a directory below itself, or over one that is not      *)
(*    empty, would not leave one: CanRename is what it needs.              *)
(* 2. What an operation leaves of the requests that do not take it         *)
(*    (Onward).                                                            *)
(* 3. For each operation, a lemma that says all that it does as the later  *)
(*    proofs need it (...Effect), and one that it preserves the types      *)
(*    (...Type).                                                           *)
(*                                                                         *)
(* TypeInv is TypeOK with what makes it inductive: the locations are a     *)
(* tree, whose trash entries are named after an instant and a document     *)
(* (PlacesInv), and every request is at an operation of its kind           *)
(* (Operations), with locations of the shape that its kind has (Shape).    *)
(***************************************************************************)
EXTENDS DocumentStore, SequenceTheorems, TLAPS

----------------------------------------------------------------------------
(* The inductive invariant.                                                *)

\* What a location is made of.
Element == {"docs", "trash"} \cup Name \cup (Instant \X Name)

IsPlace(l) == l \in Seq(Element) /\ l # <<>>

InDocs(l) == IsPlace(l) /\ l[1] = "docs"

\* A trash entry.
IsEntry(l) == IsPlace(l) /\ Len(l) = 2 /\ l[1] = "trash" /\ l[2] \in Instant \X Name

\* Locations that form a tree with two roots.
IsTree(D) ==
    /\ {<<"docs">>, <<"trash">>} \subseteq D
    /\ \A l \in D :
          /\ IsPlace(l)
          /\ \A i \in 1 .. Len(l) : SubSeq(l, 1, i) \in D
          /\ Len(l) = 2 /\ l[1] = "trash" => IsEntry(l)

\* The locations are a tree, every directory holds files of the right kinds, and
\* every request is at an operation of its kind.
PlacesInv == IsTree(DOMAIN dirs)

FilesInv == \A l \in DOMAIN dirs : IsDirectory(dirs[l])

\* The file operations that a request of each kind goes through.
Operations ==
    [idle        |-> {"end"},
     store       |-> {"mkdir", "look", "mkdirVersions", "copy", "open", "write"},
     move        |-> {"mkdir", "rename"},
     remove      |-> {"rename"},
     removeAlone |-> {"mkdir", "list", "entries"},
     recover     |-> {"look", "mkdir", "rename"},
     purge       |-> {"find", "rm"},
     upload      |-> {"write"},
     detach      |-> {"unlink"},
     retrieve    |-> {"metadata", "list", "describe", "attachments", "versions", "read"},
     tree        |-> {"list", "describe"},
     trash       |-> {"list", "describe"}]

\* Where a request reads and writes.
Shape(q) ==
    /\ q.kind \notin {"idle", "recover", "purge", "trash"} => InDocs(q.src)
    /\ q.kind \in {"move", "remove"} => Len(q.src) > 1
    /\ q.kind \in {"recover", "purge"} => IsEntry(q.src)
    /\ q.kind = "trash" => q.src = <<"trash">>
    /\ q.kind \in {"remove", "removeAlone"} => IsEntry(q.dst)
    /\ q.kind \in {"move", "recover"} => InDocs(q.dst) /\ Len(q.dst) > 1
    /\ q.kind = "move" => ~IsPrefix(q.src, Front(q.dst))
    /\ q.kind = "upload" => q.dst = Nowhere

\* What a request holds.
Fields(q) ==
    /\ DOMAIN q = DOMAIN Idle
    /\ q.kind = "idle" => q = Idle
    /\ q.ms \in Instant /\ q.versioning \in BOOLEAN /\ q.seen \in Content \cup {Absent}
    /\ q.id \in Nat /\ q.alone \in BOOLEAN
    /\ q.entries \subseteq {"content", "attachment", "versions"}
    /\ q.kind # "removeAlone" => q.entries = {}
    /\ \A e \in q.listed : e[2] \in {"check", "read"}
    /\ q.kind \notin {"retrieve", "tree", "trash"} => q.listed = {}

IsRequest(q) ==
    /\ q.kind \in Kind \cup {"idle"} /\ q.at \in Operations[q.kind]
    /\ Fields(q) /\ Shape(q)

RequestsInv == DOMAIN req = Request /\ \A x \in Request : IsRequest(req[x])

CountersInv ==
    /\ now \in 1 .. MaxNow /\ issued \in 0 .. MaxRequests
    /\ crashes \in 0 .. MaxCrashes /\ overlapped \in BOOLEAN

TypeInv == PlacesInv /\ FilesInv /\ RequestsInv /\ CountersInv

(* Sequences.                                                              *)

LEMMA SubSeqElements ==
    ASSUME NEW s \in Seq(Element), NEW n \in 0 .. Len(s)
    PROVE  /\ SubSeq(s, 1, n) \in Seq(Element) /\ Len(SubSeq(s, 1, n)) = n
           /\ \A i \in 1 .. n : SubSeq(s, 1, n)[i] = s[i]
OBVIOUS

LEMMA PrefixElements ==
    ASSUME NEW s \in Seq(Element), NEW t \in Seq(Element)
    PROVE  IsPrefix(s, t) <=> Len(s) <= Len(t) /\ \A i \in 1 .. Len(s) : s[i] = t[i]
<1>1. CASE Len(s) <= Len(t)
  <2>1. /\ Len(SubSeq(s, 1, Len(s))) = Len(s) /\ Len(SubSeq(t, 1, Len(s))) = Len(s)
        /\ \A i \in 1 .. Len(s) : /\ SubSeq(s, 1, Len(s))[i] = s[i]
                                  /\ SubSeq(t, 1, Len(s))[i] = t[i]
    BY <1>1
  <2>2. ASSUME \A i \in 1 .. Len(s) : s[i] = t[i]
        PROVE  SubSeq(s, 1, Len(s)) = SubSeq(t, 1, Len(s))
    BY <2>1, <2>2, <1>1
  <2>3. ASSUME SubSeq(s, 1, Len(s)) = SubSeq(t, 1, Len(s))
        PROVE  \A i \in 1 .. Len(s) : s[i] = t[i]
    BY <2>1, <2>3
  <2>4. QED
    BY <1>1, <2>2, <2>3 DEF IsPrefix
<1>2. CASE ~(Len(s) <= Len(t))
  BY <1>2 DEF IsPrefix
<1>3. QED
  BY <1>1, <1>2

\* A prefix of l is l cut off somewhere.
LEMMA PrefixCuts ==
    ASSUME NEW m \in Seq(Element), NEW l \in Seq(Element), IsPrefix(m, l)
    PROVE  Len(m) \in 0 .. Len(l) /\ m = SubSeq(l, 1, Len(m))
<1>1. Len(m) <= Len(l) /\ \A i \in 1 .. Len(m) : m[i] = l[i]
  BY PrefixElements
<1>2. /\ SubSeq(l, 1, Len(m)) \in Seq(Element) /\ Len(SubSeq(l, 1, Len(m))) = Len(m)
      /\ \A i \in 1 .. Len(m) : SubSeq(l, 1, Len(m))[i] = l[i]
  BY <1>1, SubSeqElements
<1>3. QED
  BY <1>1, <1>2

LEMMA CutIsPrefix ==
    ASSUME NEW l \in Seq(Element), NEW n \in 0 .. Len(l)
    PROVE  IsPrefix(SubSeq(l, 1, n), l)
<1>1. PICK m : m = SubSeq(l, 1, n)
  OBVIOUS
<1>2. m \in Seq(Element) /\ Len(m) = n /\ \A i \in 1 .. n : m[i] = l[i]
  BY <1>1, SubSeqElements
<1>3. Len(l) \in Nat /\ Len(m) <= Len(l)
  BY <1>2
<1>4. IsPrefix(m, l)
  BY <1>2, <1>3, PrefixElements
<1>5. QED
  BY <1>1, <1>4

LEMMA PrefixesAreCuts ==
    ASSUME NEW l \in Seq(Element)
    PROVE  Prefixes(l) \ {<<>>} = {SubSeq(l, 1, n) : n \in 1 .. Len(l)}
<1>1. ASSUME NEW n \in 0 .. Len(l) PROVE SubSeq(l, 1, n) = <<>> <=> n = 0
  <2>1. Len(SubSeq(l, 1, n)) = n /\ SubSeq(l, 1, n) \in Seq(Element)
    BY SubSeqElements
  <2>2. QED
    BY <2>1
<1>2. QED
  BY <1>1 DEF Prefixes

\* A cut of a cut.
LEMMA CutCut ==
    ASSUME NEW l \in Seq(Element), NEW n \in 1 .. Len(l), NEW i \in 1 .. n
    PROVE  SubSeq(SubSeq(l, 1, n), 1, i) = SubSeq(l, 1, i)
<1>1. /\ SubSeq(l, 1, n) \in Seq(Element) /\ Len(SubSeq(l, 1, n)) = n
      /\ \A j \in 1 .. n : SubSeq(l, 1, n)[j] = l[j]
  BY SubSeqElements
<1>2. /\ SubSeq(l, 1, i) \in Seq(Element) /\ Len(SubSeq(l, 1, i)) = i
      /\ \A j \in 1 .. i : SubSeq(l, 1, i)[j] = l[j]
  BY SubSeqElements
<1>3. i \in 0 .. Len(SubSeq(l, 1, n))
  BY <1>1
<1>4. /\ SubSeq(SubSeq(l, 1, n), 1, i) \in Seq(Element) /\ Len(SubSeq(SubSeq(l, 1, n), 1, i)) = i
      /\ \A j \in 1 .. i : SubSeq(SubSeq(l, 1, n), 1, i)[j] = SubSeq(l, 1, n)[j]
  BY <1>1, <1>3, SubSeqElements
<1>5. QED
  BY <1>1, <1>2, <1>4

LEMMA FrontIsCut ==
    ASSUME NEW l \in Seq(Element), l # <<>>
    PROVE  /\ Front(l) = SubSeq(l, 1, Len(l) - 1)
           /\ Front(l) \in Seq(Element) /\ Len(Front(l)) = Len(l) - 1
           /\ \A i \in 1 .. Len(l) - 1 : Front(l)[i] = l[i]
<1>1. Len(l) - 1 \in 0 .. Len(l)
  OBVIOUS
<1>2. QED
  BY <1>1, SubSeqElements DEF Front

\* What Relocated makes of a location at or below src.
LEMMA RelocatedBelow ==
    ASSUME NEW l \in Seq(Element), NEW src \in Seq(Element), NEW dst \in Seq(Element), IsPrefix(src, l)
    PROVE  /\ Relocated(l, src, dst) \in Seq(Element)
           /\ Len(Relocated(l, src, dst)) = Len(dst) + Len(l) - Len(src)
           /\ \A i \in 1 .. Len(dst) : Relocated(l, src, dst)[i] = dst[i]
           /\ \A i \in 1 .. Len(l) - Len(src) :
                 Relocated(l, src, dst)[Len(dst) + i] = l[Len(src) + i]
<1> DEFINE rest == SubSeq(l, Len(src) + 1, Len(l))
<1>1. Len(src) <= Len(l)
  BY PrefixElements
<1>2. /\ rest \in Seq(Element) /\ Len(rest) = Len(l) - Len(src)
      /\ \A i \in 1 .. Len(l) - Len(src) : rest[i] = l[Len(src) + i]
  BY <1>1
<1>3. Relocated(l, src, dst) = dst \o rest
  BY DEF Relocated
<1> HIDE DEF rest
<1>4. /\ dst \o rest \in Seq(Element) /\ Len(dst \o rest) = Len(dst) + Len(rest)
      /\ \A i \in 1 .. Len(dst) + Len(rest) :
            (dst \o rest)[i] = IF i <= Len(dst) THEN dst[i] ELSE rest[i - Len(dst)]
  BY <1>2, ConcatProperties
<1>5. ASSUME NEW i \in 1 .. Len(l) - Len(src)
      PROVE  (dst \o rest)[Len(dst) + i] = rest[i]
  <2>1. Len(dst) + i \in 1 .. Len(dst) + Len(rest) /\ ~(Len(dst) + i <= Len(dst))
    BY <1>2, <1>5
  <2>2. QED
    BY <1>2, <1>4, <2>1
<1>6. QED
  BY <1>1, <1>2, <1>3, <1>4, <1>5

----------------------------------------------------------------------------
(* The rename of a directory.                                              *)

Kept(src, dst) == (DOMAIN dirs \ {dst}) \cup {src}

\* Nothing that is kept is where something is moved to.
LEMMA NothingInTheWay ==
    ASSUME PlacesInv, NEW src, NEW dst, IsPlace(src), IsPlace(dst), CanRename(src, dst),
           NEW m \in Kept(src, dst), IsPrefix(dst, m)
    PROVE  IsPrefix(src, m) /\ (dst # src => FALSE)
<1>1. m \in DOMAIN dirs /\ m \in Seq(Element) /\ dst \in Seq(Element) /\ src \in Seq(Element)
  BY DEF PlacesInv, IsTree, Kept, CanRename, Exists, IsPlace
<1>2. CASE dst = src
  BY <1>2
<1>3. CASE dst # src
  <2>1. CASE m = src
    <3>1. IsStrictPrefix(dst, src)
      BY <1>3, <2>1 DEF IsStrictPrefix
    <3>2. dst = SubSeq(src, 1, Len(dst)) /\ Len(dst) \in 1 .. Len(src)
      BY <1>1, <2>1, PrefixCuts DEF IsPlace
    <3>3. dst \in DOMAIN dirs
      BY <1>1, <2>1, <3>2 DEF PlacesInv, IsTree
    <3>4. QED
      BY <1>1, <1>3, <2>1, <3>1, <3>3 DEF CanRename, IsEmpty, Exists
  <2>2. CASE m # src
    <3>1. m # dst
      BY <2>2 DEF Kept
    <3>2. IsStrictPrefix(dst, m)
      BY <3>1 DEF IsStrictPrefix
    <3>3. dst = SubSeq(m, 1, Len(dst)) /\ Len(dst) \in 1 .. Len(m)
      BY <1>1, PrefixCuts DEF IsPlace
    <3>4. dst \in DOMAIN dirs
      BY <1>1, <3>3 DEF PlacesInv, IsTree
    <3>5. QED
      BY <1>1, <1>3, <3>2, <3>4 DEF CanRename, IsEmpty, Exists
  <2>3. QED
    BY <2>1, <2>2
<1>4. QED
  BY <1>2, <1>3

LEMMA RelocatedOnce ==
    ASSUME PlacesInv, NEW src, NEW dst, IsPlace(src), IsPlace(dst), CanRename(src, dst),
           NEW l \in Kept(src, dst), NEW m \in Kept(src, dst),
           Relocated(l, src, dst) = Relocated(m, src, dst)
    PROVE  l = m
<1>1. /\ l \in Seq(Element) /\ m \in Seq(Element)
      /\ dst \in Seq(Element) /\ src \in Seq(Element)
  BY DEF PlacesInv, IsTree, Kept, CanRename, Exists, IsPlace
<1>2. ASSUME NEW x \in Kept(src, dst), NEW y \in Kept(src, dst), x \in Seq(Element), y \in Seq(Element),
             IsPrefix(src, x), ~IsPrefix(src, y)
      PROVE  Relocated(x, src, dst) # y
  <2>1. SUFFICES ASSUME Relocated(x, src, dst) = y PROVE FALSE
    OBVIOUS
  <2>2. /\ Len(Relocated(x, src, dst)) = Len(dst) + Len(x) - Len(src)
        /\ \A i \in 1 .. Len(dst) : Relocated(x, src, dst)[i] = dst[i]
    BY <1>1, <1>2, RelocatedBelow
  <2>3. Len(src) <= Len(x)
    BY <1>1, <1>2, PrefixElements
  <2>4. IsPrefix(dst, y)
    <3>1. Len(dst) <= Len(y) /\ \A i \in 1 .. Len(dst) : dst[i] = y[i]
      BY <1>1, <1>2, <2>1, <2>2, <2>3
    <3>2. QED
      BY <1>1, <1>2, <3>1, PrefixElements
  <2>5. QED
    BY <1>2, <2>4, NothingInTheWay
<1>3. CASE IsPrefix(src, l) /\ IsPrefix(src, m)
  <2>1. /\ Len(l) = Len(m)
        /\ Len(src) <= Len(l)
        /\ \A i \in 1 .. Len(src) : l[i] = src[i] /\ m[i] = src[i]
        /\ \A i \in 1 .. Len(l) - Len(src) : l[Len(src) + i] = m[Len(src) + i]
    <3>1. /\ Len(src) <= Len(l) /\ \A i \in 1 .. Len(src) : l[i] = src[i]
          /\ Len(src) <= Len(m) /\ \A i \in 1 .. Len(src) : m[i] = src[i]
      BY <1>1, <1>3, PrefixElements
    <3>2. /\ Len(Relocated(l, src, dst)) = Len(dst) + Len(l) - Len(src)
          /\ \A i \in 1 .. Len(l) - Len(src) :
                 Relocated(l, src, dst)[Len(dst) + i] = l[Len(src) + i]
      BY <1>1, <1>3, RelocatedBelow
    <3>3. /\ Len(Relocated(m, src, dst)) = Len(dst) + Len(m) - Len(src)
          /\ \A i \in 1 .. Len(m) - Len(src) :
                 Relocated(m, src, dst)[Len(dst) + i] = m[Len(src) + i]
      BY <1>1, <1>3, RelocatedBelow
    <3>4. Len(l) \in Nat /\ Len(m) \in Nat /\ Len(src) \in Nat /\ Len(dst) \in Nat
      BY <1>1
    <3>5. Len(l) = Len(m)
      BY <3>2, <3>3, <3>4
    <3>6. QED
      BY <3>1, <3>2, <3>3, <3>5
  <2>2. \A i \in 1 .. Len(l) : l[i] = m[i]
    <3>1. SUFFICES ASSUME NEW i \in 1 .. Len(l) PROVE l[i] = m[i]
      OBVIOUS
    <3>2. CASE i <= Len(src)
      <4>1. i \in 1 .. Len(src)
        BY <1>1, <3>2
      <4>2. QED
        BY <2>1, <4>1
    <3>3. CASE ~(i <= Len(src))
      <4>1. i - Len(src) \in 1 .. Len(l) - Len(src) /\ Len(src) + (i - Len(src)) = i
        BY <1>1, <2>1, <3>3
      <4>2. QED
        BY <2>1, <4>1
    <3>4. QED
      BY <3>2, <3>3
  <2>3. QED
    BY <1>1, <2>1, <2>2, SeqEqual
<1>4. CASE ~IsPrefix(src, l) /\ ~IsPrefix(src, m)
  BY <1>4 DEF Relocated
<1>5. CASE IsPrefix(src, l) /\ ~IsPrefix(src, m)
  <2>1. Relocated(m, src, dst) = m
    BY <1>5 DEF Relocated
  <2>2. QED
    BY <1>1, <1>2, <1>5, <2>1
<1>6. CASE ~IsPrefix(src, l) /\ IsPrefix(src, m)
  <2>1. Relocated(l, src, dst) = l
    BY <1>6 DEF Relocated
  <2>2. QED
    BY <1>1, <1>2, <1>6, <2>1
<1>7. QED
  BY <1>3, <1>4, <1>5, <1>6

\* A rename moves every kept directory, and nothing else.
LEMMA RenamedDirs ==
    ASSUME PlacesInv, NEW src, NEW dst, IsPlace(src), IsPlace(dst), CanRename(src, dst)
    PROVE  /\ Kept(src, dst) \subseteq DOMAIN dirs
           /\ DOMAIN Renamed(src, dst) = {Relocated(l, src, dst) : l \in Kept(src, dst)}
           /\ \A l \in Kept(src, dst) : Renamed(src, dst)[Relocated(l, src, dst)] = dirs[l]
<1>1. Kept(src, dst) \subseteq DOMAIN dirs
  BY DEF Kept, CanRename, Exists
<1> DEFINE origin(m) == CHOOSE l \in Kept(src, dst) : Relocated(l, src, dst) = m
<1>2. Renamed(src, dst) = [m \in {Relocated(l, src, dst) : l \in Kept(src, dst)} |-> dirs[origin(m)]]
  BY DEF Renamed, Kept
<1>3. ASSUME NEW l \in Kept(src, dst)
      PROVE  origin(Relocated(l, src, dst)) = l
  <2>1. \E k \in Kept(src, dst) : Relocated(k, src, dst) = Relocated(l, src, dst)
    BY <1>3
  <2>2. PICK k : k = origin(Relocated(l, src, dst))
    OBVIOUS
  <2>3. k \in Kept(src, dst) /\ Relocated(k, src, dst) = Relocated(l, src, dst)
    BY <2>1, <2>2
  <2>4. QED
    BY <1>3, <2>2, <2>3, RelocatedOnce
<1> HIDE DEF origin
<1>4. QED
  BY <1>1, <1>2, <1>3

----------------------------------------------------------------------------
(* What stays a tree.                                                      *)

LEMMA CutsArePlaces ==
    ASSUME NEW l, IsPlace(l), InDocs(l) \/ IsEntry(l), NEW n \in 1 .. Len(l)
    PROVE  /\ IsPlace(SubSeq(l, 1, n)) /\ Len(SubSeq(l, 1, n)) = n
           /\ SubSeq(l, 1, n)[1] = l[1]
           /\ \A i \in 1 .. n : SubSeq(SubSeq(l, 1, n), 1, i) = SubSeq(l, 1, i)
           /\ n = 2 /\ l[1] = "trash" => IsEntry(SubSeq(l, 1, n))
<1>1. l \in Seq(Element) /\ l # <<>>
  BY DEF IsPlace
<1>2. PICK m : m = SubSeq(l, 1, n)
  OBVIOUS
<1>3. m \in Seq(Element) /\ Len(m) = n /\ \A i \in 1 .. n : m[i] = l[i]
  BY <1>1, <1>2, SubSeqElements
<1>4. \A i \in 1 .. n : SubSeq(SubSeq(l, 1, n), 1, i) = SubSeq(l, 1, i)
  BY <1>1, CutCut
<1>5. m # <<>>
  BY <1>3
<1>6. m[1] = l[1]
  BY <1>3
<1>7. IsPlace(m)
  BY <1>3, <1>5 DEF IsPlace
<1>8. ASSUME n = 2, l[1] = "trash" PROVE IsEntry(m)
  <2>1. IsEntry(l)
    BY <1>8 DEF InDocs
  <2>2. m[2] = l[2]
    BY <1>3, <1>8
  <2>3. QED
    BY <1>3, <1>6, <1>7, <1>8, <2>1, <2>2 DEF IsEntry
<1>9. QED
  BY <1>2, <1>3, <1>4, <1>6, <1>7, <1>8

LEMMA WithDirDomain ==
    ASSUME NEW l, IsPlace(l)
    PROVE  /\ DOMAIN WithDir(l) = DOMAIN dirs \cup {SubSeq(l, 1, n) : n \in 1 .. Len(l)}
           /\ \A m \in DOMAIN dirs : WithDir(l)[m] = dirs[m]
           /\ \A m \in DOMAIN WithDir(l) \ DOMAIN dirs : WithDir(l)[m] = EmptyDir
           /\ l \in DOMAIN WithDir(l)
<1>1. l \in Seq(Element) /\ l # <<>> /\ Len(l) \in 1 .. Len(l)
  BY DEF IsPlace
<1>2. Prefixes(l) \ {<<>>} = {SubSeq(l, 1, n) : n \in 1 .. Len(l)}
  BY <1>1, PrefixesAreCuts
<1>3. l = SubSeq(l, 1, Len(l))
  <2>1. Len(l) \in 0 .. Len(l)
    BY <1>1
  <2>2. /\ SubSeq(l, 1, Len(l)) \in Seq(Element) /\ Len(SubSeq(l, 1, Len(l))) = Len(l)
        /\ \A i \in 1 .. Len(l) : SubSeq(l, 1, Len(l))[i] = l[i]
    BY <1>1, <2>1, SubSeqElements
  <2>3. QED
    BY <1>1, <2>2, SeqEqual
<1>4. DOMAIN WithDir(l) = DOMAIN dirs \cup {SubSeq(l, 1, n) : n \in 1 .. Len(l)}
  BY <1>2 DEF WithDir
<1>5. l \in DOMAIN WithDir(l)
  BY <1>1, <1>3, <1>4
<1>6. QED
  BY <1>4, <1>5 DEF WithDir, Exists

LEMMA WithDirTree ==
    ASSUME PlacesInv, NEW l, InDocs(l) \/ IsEntry(l)
    PROVE  IsTree(DOMAIN WithDir(l))
<1>1. IsPlace(l)
  BY DEF InDocs, IsEntry
<1> DEFINE D == DOMAIN dirs \cup {SubSeq(l, 1, n) : n \in 1 .. Len(l)}
<1>2. SUFFICES IsTree(D)
  BY <1>1, WithDirDomain
<1>3. {<<"docs">>, <<"trash">>} \subseteq D
  BY DEF PlacesInv, IsTree
<1>4. ASSUME NEW m \in D
      PROVE  /\ IsPlace(m)
             /\ \A i \in 1 .. Len(m) : SubSeq(m, 1, i) \in D
             /\ Len(m) = 2 /\ m[1] = "trash" => IsEntry(m)
  <2>1. CASE m \in DOMAIN dirs
    BY <2>1 DEF PlacesInv, IsTree
  <2>2. CASE m \notin DOMAIN dirs
    <3>1. PICK n \in 1 .. Len(l) : m = SubSeq(l, 1, n)
      BY <2>2
    <3>2. /\ IsPlace(m) /\ Len(m) = n
          /\ m[1] = l[1]
          /\ \A i \in 1 .. n : SubSeq(m, 1, i) = SubSeq(l, 1, i)
          /\ n = 2 /\ l[1] = "trash" => IsEntry(m)
      BY <1>1, <3>1, CutsArePlaces
    <3>3. l \in Seq(Element)
      BY <1>1 DEF IsPlace
    <3>4. \A i \in 1 .. n : i \in 1 .. Len(l)
      BY <3>3
    <3>5. QED
      BY <3>2, <3>4
  <2>3. QED
    BY <2>1, <2>2
<1>5. QED
  BY <1>3, <1>4 DEF IsTree

LEMMA WithoutLeafTree ==
    ASSUME PlacesInv, NEW l \in DOMAIN dirs, Len(l) > 1,
           \A m \in DOMAIN dirs : ~IsStrictPrefix(l, m)
    PROVE  IsTree(DOMAIN dirs \ {l})
<1>1. l # <<"docs">> /\ l # <<"trash">>
  <2>1. ASSUME l = <<"docs">> PROVE FALSE
    BY <2>1
  <2>2. ASSUME l = <<"trash">> PROVE FALSE
    BY <2>2
  <2>3. QED
    BY <2>1, <2>2
<1>2. ASSUME NEW m \in DOMAIN dirs, m # l, NEW i \in 1 .. Len(m)
      PROVE  SubSeq(m, 1, i) # l
  <2>1. SUFFICES ASSUME SubSeq(m, 1, i) = l PROVE FALSE
    OBVIOUS
  <2>2. m \in Seq(Element) /\ i \in 0 .. Len(m)
    BY <1>2 DEF PlacesInv, IsTree, IsPlace
  <2>3. IsPrefix(l, m)
    BY <2>1, <2>2, CutIsPrefix
  <2>4. QED
    BY <1>2, <2>3 DEF IsStrictPrefix
<1>3. QED
  BY <1>1, <1>2 DEF PlacesInv, IsTree

LEMMA PrefixOfPrefix ==
    ASSUME NEW s \in Seq(Element), NEW t \in Seq(Element), NEW u \in Seq(Element),
           IsPrefix(s, t), IsPrefix(t, u)
    PROVE  IsPrefix(s, u)
<1>1. Len(s) <= Len(t) /\ \A i \in 1 .. Len(s) : s[i] = t[i]
  BY PrefixElements
<1>2. Len(t) <= Len(u) /\ \A i \in 1 .. Len(t) : t[i] = u[i]
  BY PrefixElements
<1>3. Len(s) <= Len(u) /\ \A i \in 1 .. Len(s) : s[i] = u[i]
  BY <1>1, <1>2
<1>4. QED
  BY <1>3, PrefixElements

\* What is above the destination of a rename stays where it is.
LEMMA AboveStays ==
    ASSUME PlacesInv, NEW src, NEW dst, IsPlace(src), IsPlace(dst), CanRename(src, dst),
           NEW i \in 1 .. Len(dst) - 1
    PROVE  /\ SubSeq(dst, 1, i) \in Kept(src, dst)
           /\ Relocated(SubSeq(dst, 1, i), src, dst) = SubSeq(dst, 1, i)
<1>1. src \in Seq(Element) /\ dst \in Seq(Element) /\ dst # <<>>
  BY DEF IsPlace
<1>2. PICK m : m = SubSeq(dst, 1, i)
  OBVIOUS
<1>3. m \in Seq(Element) /\ Len(m) = i /\ IsPrefix(m, dst)
  <2>1. i \in 0 .. Len(dst)
    BY <1>1
  <2>2. QED
    BY <1>1, <1>2, <2>1, SubSeqElements, CutIsPrefix
<1>4. m # dst
  BY <1>1, <1>3
<1>5. m \in DOMAIN dirs
  <2>1. /\ Front(dst) = SubSeq(dst, 1, Len(dst) - 1) /\ Len(Front(dst)) = Len(dst) - 1
        /\ Front(dst) \in DOMAIN dirs
    BY <1>1, FrontIsCut DEF CanRename, Exists
  <2>2. Len(dst) - 1 \in 1 .. Len(dst)
    BY <1>1
  <2>3. SubSeq(SubSeq(dst, 1, Len(dst) - 1), 1, i) = SubSeq(dst, 1, i)
    BY <1>1, <2>2, CutCut
  <2>4. QED
    BY <1>2, <2>1, <2>3 DEF PlacesInv, IsTree
<1>6. ~IsPrefix(src, m)
  <2>1. SUFFICES ASSUME IsPrefix(src, m) PROVE FALSE
    OBVIOUS
  <2>2. IsPrefix(src, dst)
    BY <1>1, <1>3, <2>1, PrefixOfPrefix
  <2>3. Len(src) <= Len(m)
    BY <1>1, <1>3, <2>1, PrefixElements
  <2>4. src # dst
    BY <1>1, <1>3, <2>3
  <2>5. QED
    BY <2>2, <2>4 DEF CanRename, IsStrictPrefix
<1>7. QED
  BY <1>2, <1>4, <1>5, <1>6 DEF Kept, Relocated

\* The locations above a kept one are kept, and stay above it.
LEMMA RelocatedCuts ==
    ASSUME PlacesInv, NEW src, NEW dst, IsPlace(src), IsPlace(dst), CanRename(src, dst),
           NEW l \in Kept(src, dst), NEW i \in 1 .. Len(Relocated(l, src, dst))
    PROVE  \E k \in Kept(src, dst) :
               SubSeq(Relocated(l, src, dst), 1, i) = Relocated(k, src, dst)
<1>1. /\ src \in Seq(Element) /\ dst \in Seq(Element)
      /\ l \in Seq(Element) /\ l \in DOMAIN dirs
  BY DEF PlacesInv, IsTree, Kept, CanRename, Exists, IsPlace
<1>2. \A n \in 1 .. Len(l) : SubSeq(l, 1, n) \in DOMAIN dirs
  BY <1>1 DEF PlacesInv, IsTree
<1>3. ASSUME NEW n \in 1 .. Len(l), dst # src
      PROVE  SubSeq(l, 1, n) = dst => FALSE
  <2>1. SUFFICES ASSUME SubSeq(l, 1, n) = dst PROVE FALSE
    OBVIOUS
  <2>2. n \in 0 .. Len(l)
    BY <1>1
  <2>3. IsPrefix(dst, l)
    BY <1>1, <2>1, <2>2, CutIsPrefix
  <2>4. QED
    BY <1>3, <2>3, NothingInTheWay
<1>4. \A n \in 1 .. Len(l) : SubSeq(l, 1, n) \in Kept(src, dst)
  BY <1>2, <1>3 DEF Kept
<1>5. CASE ~IsPrefix(src, l)
  <2>1. Relocated(l, src, dst) = l
    BY <1>5 DEF Relocated
  <2>2. i \in 1 .. Len(l) /\ i \in 0 .. Len(l)
    BY <1>1, <2>1
  <2>3. SubSeq(l, 1, i) \in Seq(Element) /\ IsPrefix(SubSeq(l, 1, i), l)
    BY <1>1, <2>2, SubSeqElements, CutIsPrefix
  <2>4. ~IsPrefix(src, SubSeq(l, 1, i))
    BY <1>1, <1>5, <2>3, PrefixOfPrefix
  <2>5. Relocated(SubSeq(l, 1, i), src, dst) = SubSeq(l, 1, i)
    BY <2>4 DEF Relocated
  <2>6. QED
    BY <1>4, <2>1, <2>2, <2>5
<1>6. CASE IsPrefix(src, l)
  <2> PICK n : n = Relocated(l, src, dst)
    OBVIOUS
  <2>1. /\ n \in Seq(Element) /\ Len(n) = Len(dst) + Len(l) - Len(src)
        /\ \A j \in 1 .. Len(dst) : n[j] = dst[j]
        /\ \A j \in 1 .. Len(l) - Len(src) : n[Len(dst) + j] = l[Len(src) + j]
    BY <1>1, <1>6, RelocatedBelow
  <2>2. /\ Len(src) <= Len(l) /\ \A j \in 1 .. Len(src) : src[j] = l[j]
    BY <1>1, <1>6, PrefixElements
  <2>3. Len(src) \in Nat /\ Len(dst) \in Nat /\ Len(l) \in Nat /\ i \in 0 .. Len(n) /\ i \in 1 .. Len(n)
    BY <1>1, <2>1
  <2>4. /\ SubSeq(n, 1, i) \in Seq(Element) /\ Len(SubSeq(n, 1, i)) = i
        /\ \A j \in 1 .. i : SubSeq(n, 1, i)[j] = n[j]
    BY <2>1, <2>3, SubSeqElements
  <2>5. CASE i < Len(dst)
    <3>1. i \in 1 .. Len(dst) - 1 /\ i \in 0 .. Len(dst)
      BY <2>3, <2>5
    <3>2. /\ SubSeq(dst, 1, i) \in Seq(Element) /\ Len(SubSeq(dst, 1, i)) = i
          /\ \A j \in 1 .. i : SubSeq(dst, 1, i)[j] = dst[j]
      BY <1>1, <3>1, SubSeqElements
    <3>3. \A j \in 1 .. i : SubSeq(n, 1, i)[j] = SubSeq(dst, 1, i)[j]
      BY <2>1, <2>4, <3>1, <3>2
    <3>4. SubSeq(n, 1, i) = SubSeq(dst, 1, i)
      BY <2>4, <3>2, <3>3, SeqEqual
    <3>5. QED
      BY <3>1, <3>4, AboveStays
  <2>6. CASE ~(i < Len(dst))
    <3>1. PICK k : k = i - Len(dst) + Len(src)
      OBVIOUS
    <3>2. k \in Nat /\ Len(src) <= k /\ k <= Len(l) /\ k \in 0 .. Len(l)
      BY <2>1, <2>3, <2>6, <3>1
    <3>3. Len(src) # 0
      BY <1>1 DEF IsPlace
    <3>4. k \in 1 .. Len(l)
      BY <2>3, <3>2, <3>3
    <3>5. PICK m : m = SubSeq(l, 1, k)
      OBVIOUS
    <3>6. /\ m \in Seq(Element) /\ Len(m) = k
          /\ \A j \in 1 .. k : m[j] = l[j]
      BY <1>1, <3>2, <3>5, SubSeqElements
    <3>7. IsPrefix(src, m)
      <4>1. Len(src) <= Len(m) /\ \A j \in 1 .. Len(src) : src[j] = m[j]
        BY <2>2, <2>3, <3>2, <3>6
      <4>2. QED
        BY <1>1, <3>6, <4>1, PrefixElements
    <3>8. /\ Relocated(m, src, dst) \in Seq(Element)
          /\ Len(Relocated(m, src, dst)) = Len(dst) + k - Len(src)
          /\ \A j \in 1 .. Len(dst) : Relocated(m, src, dst)[j] = dst[j]
          /\ \A j \in 1 .. k - Len(src) :
                 Relocated(m, src, dst)[Len(dst) + j] = m[Len(src) + j]
      BY <1>1, <3>6, <3>7, RelocatedBelow
    <3>9. Len(Relocated(m, src, dst)) = i
      BY <2>3, <3>1, <3>8
    <3>10. ASSUME NEW j \in 1 .. i
           PROVE  SubSeq(n, 1, i)[j] = Relocated(m, src, dst)[j]
      <4>1. CASE j <= Len(dst)
        <5>1. j \in 1 .. Len(dst)
          BY <2>3, <4>1
        <5>2. QED
          BY <2>1, <2>4, <3>8, <5>1
      <4>2. CASE ~(j <= Len(dst))
        <5>1. PICK h : h = j - Len(dst)
          OBVIOUS
        <5>2. /\ h \in 1 .. k - Len(src) /\ h \in 1 .. Len(l) - Len(src)
              /\ j = Len(dst) + h /\ Len(src) + h \in 1 .. k
          BY <2>3, <3>1, <3>2, <4>2, <5>1
        <5>3. Relocated(m, src, dst)[j] = m[Len(src) + h]
          BY <3>8, <5>2
        <5>4. n[j] = l[Len(src) + h]
          BY <2>1, <5>2
        <5>5. m[Len(src) + h] = l[Len(src) + h]
          BY <3>6, <5>2
        <5>6. QED
          BY <2>4, <5>3, <5>4, <5>5
      <4>3. QED
        BY <4>1, <4>2
    <3>11. SubSeq(n, 1, i) = Relocated(m, src, dst)
      BY <2>4, <3>8, <3>9, <3>10, SeqEqual
    <3>12. m \in Kept(src, dst)
      BY <1>4, <3>4, <3>5
    <3>13. QED
      BY <3>11, <3>12
  <2>7. QED
    BY <2>5, <2>6
<1>7. QED
  BY <1>5, <1>6

LEMMA RenamedTree ==
    ASSUME PlacesInv, NEW src, NEW dst, IsPlace(src), IsPlace(dst), CanRename(src, dst),
           Len(src) > 1, Len(dst) > 1, InDocs(dst) \/ IsEntry(dst)
    PROVE  IsTree(DOMAIN Renamed(src, dst))
<1> DEFINE D == {Relocated(l, src, dst) : l \in Kept(src, dst)}
<1>1. DOMAIN Renamed(src, dst) = D
  BY RenamedDirs
<1>2. src \in Seq(Element) /\ dst \in Seq(Element) /\ Kept(src, dst) \subseteq DOMAIN dirs
  BY RenamedDirs DEF IsPlace
<1>3. ASSUME NEW l \in {<<"docs">>, <<"trash">>}
      PROVE  l \in D
  <2>1. l \in DOMAIN dirs /\ Len(l) = 1 /\ l \in Seq(Element)
    <3>1. Len(l) = 1 /\ l \in DOMAIN dirs
      BY <1>3 DEF PlacesInv, IsTree
    <3>2. QED
      BY <3>1 DEF PlacesInv, IsTree, IsPlace
  <2>2. ~IsPrefix(src, l)
    BY <1>2, <2>1, PrefixElements
  <2>3. l # dst
    BY <2>1
  <2>4. QED
    BY <2>1, <2>2, <2>3 DEF Kept, Relocated
<1>4. ASSUME NEW l \in Kept(src, dst)
      PROVE  /\ IsPlace(Relocated(l, src, dst))
             /\ Len(Relocated(l, src, dst)) = 2 /\ Relocated(l, src, dst)[1] = "trash" =>
                   IsEntry(Relocated(l, src, dst))
  <2>1. IsPlace(l) /\ (Len(l) = 2 /\ l[1] = "trash" => IsEntry(l)) /\ l \in Seq(Element)
    BY <1>2, <1>4 DEF PlacesInv, IsTree, IsPlace
  <2>2. CASE ~IsPrefix(src, l)
    BY <2>1, <2>2 DEF Relocated
  <2>3. CASE IsPrefix(src, l)
    <3>1. PICK n : n = Relocated(l, src, dst)
      OBVIOUS
    <3>2. /\ n \in Seq(Element)
          /\ Len(n) = Len(dst) + Len(l) - Len(src)
          /\ \A j \in 1 .. Len(dst) : n[j] = dst[j]
      <4>1. /\ Relocated(l, src, dst) \in Seq(Element)
            /\ Len(Relocated(l, src, dst)) = Len(dst) + Len(l) - Len(src)
            /\ \A j \in 1 .. Len(dst) : Relocated(l, src, dst)[j] = dst[j]
        BY <1>2, <2>1, <2>3, RelocatedBelow
      <4>2. QED
        BY <3>1, <4>1
    <3>3. Len(src) <= Len(l)
      BY <1>2, <2>1, <2>3, PrefixElements
    <3>4. Len(src) \in Nat /\ Len(dst) \in Nat /\ Len(l) \in Nat
      BY <1>2, <2>1
    <3>5. Len(n) > 1
      BY <3>2, <3>3, <3>4
    <3>6. IsPlace(n)
      BY <3>2, <3>5 DEF IsPlace
    <3>7. ASSUME Len(n) = 2, n[1] = "trash" PROVE IsEntry(n)
      <4>1. Len(n) = Len(dst)
        <5>1. 2 = Len(dst) + Len(l) - Len(src)
          BY <3>2, <3>7
        <5>2. \A d, k, h \in Nat : 2 = d + k - h /\ h <= k /\ d > 1 => d = 2
          OBVIOUS
        <5>3. Len(dst) = 2
          BY <3>3, <3>4, <5>1, <5>2
        <5>4. QED
          BY <3>7, <5>3
      <4>2. n = dst
        BY <1>2, <3>2, <4>1, SeqEqual
      <4>3. QED
        BY <3>7, <4>2 DEF InDocs
    <3>8. QED
      BY <3>1, <3>6, <3>7
  <2>4. QED
    BY <2>2, <2>3
<1>5. \A m \in D : \A i \in 1 .. Len(m) : SubSeq(m, 1, i) \in D
  BY RelocatedCuts
<1>6. IsTree(D)
  BY <1>3, <1>4, <1>5 DEF IsTree
<1>7. QED
  BY <1>1, <1>6

----------------------------------------------------------------------------
(* What an operation does to the other requests.                           *)

\* p is what becomes of the request q when another one makes of the
\* directories newDirs.
Onward(q, p, newDirs) ==
    /\ DOMAIN p = DOMAIN Idle
    /\ p.kind = q.kind /\ p.at = q.at /\ p.src = q.src /\ p.ms = q.ms
    /\ p.versioning = q.versioning /\ p.entries = q.entries
    /\ p.listed = q.listed /\ p.id = q.id
    /\ q.at # "write" \/ q.dst = Nowhere => p.dst = q.dst
    /\ p.alone \in BOOLEAN /\ (p.alone => q.alone)
    /\ q.kind # "idle" /\ p.alone => newDirs = dirs
    /\ p.seen \in {q.seen, Absent}
    /\ p.seen \notin Versioned(dirs) \ Versioned(newDirs)
    /\ q = Idle => p = Idle

Others(r) == \A x \in Request \ {r} : Onward(req[x], req'[x], dirs')

SameFiles(r) == \A x \in Request \ {r} : req'[x].dst = req[x].dst

LEMMA IdleFields ==
    /\ DOMAIN Idle = {"kind", "at", "src", "dst", "ms", "versioning", "seen", "entries",
                      "listed", "id", "alone"}
    /\ Idle.kind = "idle" /\ Idle.at = "end" /\ Idle.src = Nowhere /\ Idle.dst = Nowhere
    /\ Idle.ms = 0 /\ Idle.versioning = FALSE /\ Idle.seen = Absent /\ Idle.entries = {}
    /\ Idle.listed = {} /\ Idle.id = 0 /\ Idle.alone = TRUE
BY DEF Idle

LEMMA IdleIsRequest == IsRequest(Idle)
<1>1. 0 \in Instant
  BY DocumentStoreAssumption DEF Instant
<1>2. Fields(Idle)
  <2>1. /\ Idle.ms \in Instant /\ Idle.seen \in Content \cup {Absent} /\ Idle.id \in Nat
    BY <1>1, IdleFields
  <2>4. Idle.versioning \in BOOLEAN /\ Idle.alone \in BOOLEAN
    BY DEF Idle
  <2>2. /\ Idle.entries = {} /\ \A e \in Idle.listed : e[2] \in {"check", "read"}
        /\ Idle.listed = {}
    BY IdleFields
  <2>3. QED
    BY <2>1, <2>2, <2>4 DEF Fields
<1>3. Shape(Idle)
  BY IdleFields DEF Shape
<1>4. QED
  BY <1>2, <1>3, IdleFields DEF IsRequest, Operations

LEMMA AbsentIsNotContent == Absent \notin Content /\ Damaged \notin Nat /\ Damaged \in Content
BY DocumentStoreAssumption DEF Content

\* The versions of the directories are contents.
LEMMA VersionsAreContents ==
    ASSUME NEW d, IsDirectory(d)
    PROVE  /\ DOMAIN VersionsOf(d) \subseteq Instant
           /\ VersionsOf(d) \in [DOMAIN VersionsOf(d) -> Content]
           /\ Range(VersionsOf(d)) \subseteq Content
<1>1. CASE d.versions = Absent
  BY <1>1 DEF VersionsOf, Range
<1>2. CASE d.versions # Absent
  BY <1>2 DEF VersionsOf, IsDirectory, Range
<1>3. QED
  BY <1>1, <1>2

LEMMA AbsentIsNotVersioned == FilesInv => Absent \notin Versioned(dirs)
BY VersionsAreContents, AbsentIsNotContent DEF FilesInv, Versioned

LEMMA BesideIsOnward ==
    ASSUME FilesInv, NEW q, IsRequest(q), NEW d, NEW newDirs,
           q.at # "write" \/ q.dst = Nowhere => d = q.dst
    PROVE  Onward(q, Beside(q, newDirs, d), newDirs) /\ Beside(q, newDirs, d).dst = d
<1> PICK p : p = Beside(q, newDirs, d)
  OBVIOUS
<1>1. CASE q = Idle
  <2>1. p = Idle
    BY <1>1 DEF Beside
  <2>2. d = Idle.dst
    BY <1>1, IdleFields
  <2>3. Idle.seen \notin Versioned(dirs)
    BY AbsentIsNotVersioned, IdleFields
  <2>4. Onward(q, p, newDirs) /\ p.dst = d
    BY <1>1, <2>1, <2>2, <2>3, IdleFields DEF Onward
  <2>5. QED
    BY <2>4
<1>2. CASE q # Idle
  <2>1. p = [q EXCEPT !.alone = @ /\ newDirs = dirs, !.seen = StillSeen(@, newDirs), !.dst = d]
    BY <1>2 DEF Beside
  <2>2. DOMAIN q = {"kind", "at", "src", "dst", "ms", "versioning", "seen", "entries",
                    "listed", "id", "alone"}
    BY IdleFields DEF IsRequest, Fields
  <2>3. /\ DOMAIN p = DOMAIN Idle
        /\ p.kind = q.kind /\ p.at = q.at /\ p.src = q.src /\ p.ms = q.ms
        /\ p.versioning = q.versioning /\ p.entries = q.entries
        /\ p.listed = q.listed /\ p.id = q.id /\ p.dst = d
    BY <2>1, <2>2, IdleFields
  <2>4. p.seen = StillSeen(q.seen, newDirs)
    BY <2>1, <2>2
  <2>5. p.alone = (q.alone /\ newDirs = dirs)
    BY <2>1, <2>2
  <2>6. q.alone \in BOOLEAN /\ q # Idle /\ q.kind # "idle"
    BY <1>2 DEF IsRequest, Fields
  <2>7. p.alone \in BOOLEAN /\ (p.alone => q.alone /\ newDirs = dirs)
    BY <2>5, <2>6
  <2>8. /\ p.seen \in {q.seen, Absent}
        /\ p.seen \notin Versioned(dirs) \ Versioned(newDirs)
    BY <2>4, AbsentIsNotVersioned DEF StillSeen
  <2>9. Onward(q, p, newDirs) /\ p.dst = d
    BY <2>3, <2>6, <2>7, <2>8 DEF Onward
  <2>10. QED
    BY <2>9
<1>3. QED
  BY <1>1, <1>2

LEMMA HereEffect ==
    ASSUME FilesInv, RequestsInv, NEW r \in Request, NEW q, NEW newDirs, Change(r, q, newDirs, Here)
    PROVE  /\ dirs' = newDirs /\ DOMAIN req' = Request /\ req'[r] = q
           /\ Others(r) /\ SameFiles(r)
           /\ UNCHANGED <<now, issued, crashes>>
<1>1. /\ dirs' = newDirs /\ DOMAIN req' = Request /\ req'[r] = q
      /\ UNCHANGED <<now, issued, crashes>>
  BY DEF Change
<1>2. ASSUME NEW x \in Request \ {r}
      PROVE  Onward(req[x], req'[x], dirs') /\ req'[x].dst = req[x].dst
  <2>1. IsRequest(req[x])
    BY DEF RequestsInv
  <2>2. req'[x] = Beside(req[x], newDirs, req[x].dst)
    BY <1>2 DEF Change, Here
  <2>3. QED
    BY <1>1, <2>1, <2>2, BesideIsOnward
<1>3. QED
  BY <1>1, <1>2 DEF Others, SameFiles

LEMMA LookEffect ==
    ASSUME RequestsInv, NEW r \in Request, NEW q, Look(r, q)
    PROVE  /\ dirs' = dirs /\ DOMAIN req' = Request /\ req'[r] = q
           /\ \A x \in Request \ {r} : req'[x] = req[x]
           /\ UNCHANGED <<now, issued, crashes, overlapped>>
BY DEF Look, RequestsInv

----------------------------------------------------------------------------
(* Requests stay requests.                                                 *)

LEMMA OnwardIsRequest ==
    ASSUME NEW q, NEW p, NEW newDirs, IsRequest(q), Onward(q, p, newDirs)
    PROVE  IsRequest(p)
<1>1. CASE q = Idle
  BY <1>1, IdleIsRequest DEF Onward
<1>2. CASE q # Idle
  <2>1. q.kind # "idle" /\ p.kind = q.kind /\ p.at = q.at
    BY <1>2 DEF IsRequest, Fields, Onward
  <2>2. Fields(p)
    <3>1. DOMAIN p = DOMAIN Idle /\ p.ms \in Instant /\ p.seen \in Content \cup {Absent} /\ p.id \in Nat
      BY DEF IsRequest, Fields, Onward
    <3>2. p.versioning \in BOOLEAN /\ p.alone \in BOOLEAN
      BY DEF IsRequest, Fields, Onward
    <3>3. /\ p.entries \subseteq {"content", "attachment", "versions"}
          /\ p.kind # "removeAlone" => p.entries = {}
          /\ \A e \in p.listed : e[2] \in {"check", "read"}
          /\ p.kind \notin {"retrieve", "tree", "trash"} => p.listed = {}
      BY DEF IsRequest, Fields, Onward
    <3>4. QED
      BY <2>1, <3>1, <3>2, <3>3 DEF Fields
  <2>3. p.src = q.src /\ (q.kind \notin {"store"} => p.dst = q.dst)
    BY <2>1 DEF IsRequest, Onward, Kind, Operations, Shape
  <2>4. Shape(p)
    BY <2>1, <2>3 DEF IsRequest, Shape
  <2>5. QED
    BY <2>1, <2>2, <2>4 DEF IsRequest
<1>3. QED
  BY <1>1, <1>2

LEMMA OthersAreRequests ==
    ASSUME RequestsInv, NEW r \in Request, Others(r), DOMAIN req' = Request, IsRequest(req'[r])
    PROVE  RequestsInv'
<1>1. ASSUME NEW x \in Request PROVE IsRequest(req'[x])
  <2>1. CASE x = r
    BY <2>1
  <2>2. CASE x # r
    BY <2>2, OnwardIsRequest DEF Others, RequestsInv
  <2>3. QED
    BY <2>1, <2>2
<1>2. QED
  BY <1>1 DEF RequestsInv

\* The next operation of a request.
LEMMA GoingOn ==
    ASSUME NEW q, IsRequest(q), NEW at, NEW p, p = [q EXCEPT !.at = at]
    PROVE  /\ DOMAIN p = DOMAIN Idle /\ p.kind = q.kind /\ p.at = at /\ p.src = q.src /\ p.dst = q.dst
           /\ p.ms = q.ms /\ p.versioning = q.versioning /\ p.seen = q.seen
           /\ p.entries = q.entries /\ p.listed = q.listed /\ p.id = q.id /\ p.alone = q.alone
BY IdleFields DEF IsRequest, Fields

LEMMA ShapeStays ==
    ASSUME NEW q, NEW p, IsRequest(q), p.kind = q.kind, p.src = q.src, p.dst = q.dst \/ q.kind = "store"
    PROVE  Shape(p)
BY DEF IsRequest, Shape

LEMMA GoingIsRequest ==
    ASSUME NEW q, IsRequest(q), q.kind # "idle", NEW at \in Operations[q.kind]
    PROVE  IsRequest([q EXCEPT !.at = at])
<1> PICK p : p = [q EXCEPT !.at = at]
  OBVIOUS
<1>1. /\ DOMAIN p = DOMAIN Idle /\ p.kind = q.kind /\ p.at = at /\ p.src = q.src /\ p.dst = q.dst
      /\ p.ms = q.ms /\ p.versioning = q.versioning /\ p.seen = q.seen
      /\ p.entries = q.entries /\ p.listed = q.listed /\ p.id = q.id /\ p.alone = q.alone
  BY GoingOn
<1>3. p.versioning \in BOOLEAN /\ p.alone \in BOOLEAN /\ p.id \in Nat
  BY <1>1 DEF IsRequest, Fields
<1>2. /\ p.ms \in Instant /\ p.seen \in Content \cup {Absent}
      /\ p.entries \subseteq {"content", "attachment", "versions"}
      /\ p.kind # "removeAlone" => p.entries = {}
      /\ \A e \in p.listed : e[2] \in {"check", "read"}
      /\ p.kind \notin {"retrieve", "tree", "trash"} => p.listed = {}
  BY <1>1 DEF IsRequest, Fields
<1>4. Fields(p)
  BY <1>1, <1>2, <1>3 DEF Fields
<1>6. Shape(p)
  BY <1>1, ShapeStays
<1>7. IsRequest(p)
  BY <1>1, <1>4, <1>6 DEF IsRequest
<1>5. QED
  BY <1>7

----------------------------------------------------------------------------
(* New requests.                                                           *)

LEMMA NewIsRequest ==
    ASSUME CountersInv, NEW p, p.kind \in Kind, p.at \in Operations[p.kind], Shape(p),
           DOMAIN p = DOMAIN Idle, p.ms = now, p.versioning \in BOOLEAN, p.seen = Absent,
           p.entries = {}, \A e \in p.listed : e[2] \in {"check", "read"},
           p.kind \notin {"retrieve", "tree", "trash"} => p.listed = {},
           p.id = NewContent + issued, p.alone = TRUE
    PROVE  IsRequest(p)
<1>1. p.ms \in Instant /\ p.id \in Nat
  BY DocumentStoreAssumption DEF CountersInv, Instant
<1>2. p.kind # "idle"
  BY DEF Kind
<1>3. Fields(p)
  BY <1>1, <1>2 DEF Fields
<1>4. QED
  BY <1>3 DEF IsRequest

LEMMA NewType ==
    ASSUME CountersInv, NEW kind \in Kind, NEW at \in Operations[kind], NEW src, NEW dst, NEW p,
           p = New(kind, at, src, dst), Shape(p)
    PROVE  IsRequest(p)
<1>1. /\ DOMAIN p = DOMAIN Idle /\ p.kind = kind /\ p.at = at
      /\ p.ms = now /\ p.versioning = FALSE /\ p.seen = Absent
      /\ p.entries = {} /\ p.listed = {} /\ p.id = NewContent + issued /\ p.alone = TRUE
  BY IdleFields DEF New
<1>2. p.versioning \in BOOLEAN /\ \A e \in p.listed : e[2] \in {"check", "read"}
  BY <1>1
<1>3. QED
  BY <1>1, <1>2, NewIsRequest

LEMMA DocsPlaces ==
    ASSUME NEW p \in Path
    PROVE  /\ p \in Seq(Name) /\ InDocs(Docs(p)) /\ Len(Docs(p)) = 1 + Len(p)
           /\ \A i \in 1 .. Len(p) : Docs(p)[1 + i] = p[i]
<1>1. p \in Seq(Name)
  BY DocumentStoreAssumption
<1>2. p \in Seq(Element) /\ <<"docs">> \in Seq(Element)
  BY <1>1 DEF Element
<1>3. /\ Docs(p) \in Seq(Element) /\ Len(Docs(p)) = Len(<<"docs">>) + Len(p)
      /\ \A i \in 1 .. Len(<<"docs">>) + Len(p) :
            Docs(p)[i] = IF i <= Len(<<"docs">>) THEN <<"docs">>[i] ELSE p[i - Len(<<"docs">>)]
  BY <1>2, ConcatProperties DEF Docs
<1>4. Len(<<"docs">>) = 1 /\ <<"docs">>[1] = "docs" /\ Len(p) \in Nat
  BY <1>1
<1>5. Len(Docs(p)) = 1 + Len(p) /\ Docs(p)[1] = "docs"
  BY <1>3, <1>4
<1>6. Docs(p) # <<>>
  BY <1>3, <1>4, <1>5
<1>7. \A i \in 1 .. Len(p) : Docs(p)[1 + i] = p[i]
  BY <1>3, <1>4
<1>8. QED
  BY <1>1, <1>3, <1>5, <1>6, <1>7 DEF InDocs, IsPlace

LEMMA BasenameIsName ==
    ASSUME NEW p \in Path
    PROVE  Basename(p) \in Name /\ (p # <<>> => Last(p) \in Name)
<1>1. p \in Seq(Name)
  BY DocumentStoreAssumption
<1>2. p # <<>> => Last(p) \in Name
  BY <1>1 DEF Last
<1>3. "index" \in Name
  BY DEF Name
<1>4. QED
  BY <1>2, <1>3 DEF Basename

LEMMA TrashPlaces ==
    ASSUME CountersInv, NEW name \in Name
    PROVE  IsEntry(Trash(now, name))
<1>1. now \in Instant
  BY DocumentStoreAssumption DEF CountersInv, Instant
<1>2. <<now, name>> \in Element /\ "trash" \in Element /\ <<now, name>> \in Instant \X Name
  BY <1>1 DEF Element
<1> PICK e : e = <<now, name>>
  OBVIOUS
<1>3. /\ <<"trash", e>> \in Seq(Element) /\ Len(<<"trash", e>>) = 2 /\ <<"trash", e>> # <<>>
      /\ <<"trash", e>>[1] = "trash" /\ <<"trash", e>>[2] = e
  BY <1>2
<1>4. QED
  BY <1>2, <1>3 DEF IsEntry, IsPlace, Trash

LEMMA AppendPlaces ==
    ASSUME NEW l, InDocs(l), NEW name \in Element
    PROVE  InDocs(Append(l, name)) /\ Len(Append(l, name)) > 1 /\ Front(Append(l, name)) = l
<1>1. l \in Seq(Element) /\ l # <<>> /\ l[1] = "docs"
  BY DEF InDocs, IsPlace
<1> PICK m : m = Append(l, name)
  OBVIOUS
<1>2. m \in Seq(Element) /\ Len(m) = Len(l) + 1 /\ \A i \in 1 .. Len(l) : m[i] = l[i]
  BY <1>1
<1>3. Len(l) \in Nat \ {0}
  BY <1>1
<1>4. m # <<>> /\ m[1] = "docs" /\ Len(m) > 1
  BY <1>1, <1>2, <1>3
<1>5. Front(m) = l
  <2>1. /\ Front(m) \in Seq(Element) /\ Len(Front(m)) = Len(m) - 1
        /\ \A i \in 1 .. Len(m) - 1 : Front(m)[i] = m[i]
    BY <1>2, <1>4, FrontIsCut
  <2>2. Len(Front(m)) = Len(l)
    BY <1>2, <1>3, <2>1
  <2>3. QED
    BY <1>1, <1>2, <1>3, <2>1, <2>2, SeqEqual
<1>6. QED
  BY <1>2, <1>4, <1>5 DEF InDocs, IsPlace

LEMMA BeginEffect ==
    ASSUME TypeInv, NEW r \in Request, NEW q, Begin(r, q)
    PROVE  /\ dirs' = dirs /\ DOMAIN req' = Request /\ req'[r] = q /\ req[r] = Idle
           /\ \A x \in Request \ {r} : req'[x] = req[x]
           /\ issued' = issued + 1 /\ issued' \in 0 .. MaxRequests
           /\ UNCHANGED <<now, crashes, overlapped>>
<1>1. MaxRequests \in Nat
  BY DocumentStoreAssumption
<1>2. QED
  BY <1>1 DEF Begin, TypeInv, RequestsInv, CountersInv

LEMMA AloneRequests ==
    ASSUME RequestsInv, NEW r \in Request, DOMAIN req' = Request, IsRequest(req'[r]),
           \A x \in Request \ {r} : req'[x] = req[x]
    PROVE  RequestsInv'
<1>1. ASSUME NEW x \in Request PROVE IsRequest(req'[x])
  <2>1. CASE x = r
    BY <2>1
  <2>2. CASE x # r
    BY <2>2 DEF RequestsInv
  <2>3. QED
    BY <2>1, <2>2
<1>2. QED
  BY <1>1 DEF RequestsInv

\* The actions that begin a request.
Beginning(r) ==
    \/ BeginStore(r) \/ BeginMove(r) \/ BeginRemove(r) \/ BeginRemoveAlone(r)
    \/ BeginRecover(r) \/ BeginPurge(r) \/ BeginUpload(r) \/ BeginDetach(r)
    \/ BeginRetrieve(r) \/ BeginTree(r) \/ BeginListTrash(r)

LEMMA MoveOutside ==
    ASSUME NEW p \in Path, NEW q \in Path, p # <<>>, ~StartsWith(q, p)
    PROVE  ~IsPrefix(Docs(p), Docs(q))
<1>1. SUFFICES ASSUME IsPrefix(Docs(p), Docs(q)) PROVE FALSE
  OBVIOUS
<1>2. /\ p \in Seq(Name) /\ InDocs(Docs(p)) /\ Len(Docs(p)) = 1 + Len(p)
      /\ \A i \in 1 .. Len(p) : Docs(p)[1 + i] = p[i]
  BY DocsPlaces
<1>3. /\ q \in Seq(Name) /\ InDocs(Docs(q)) /\ Len(Docs(q)) = 1 + Len(q)
      /\ \A i \in 1 .. Len(q) : Docs(q)[1 + i] = q[i]
  BY DocsPlaces
<1>4. p \in Seq(Element) /\ q \in Seq(Element) /\ Docs(p) \in Seq(Element) /\ Docs(q) \in Seq(Element)
  BY <1>2, <1>3 DEF Element, InDocs, IsPlace
<1>5. Len(Docs(p)) <= Len(Docs(q)) /\ \A i \in 1 .. Len(Docs(p)) : Docs(p)[i] = Docs(q)[i]
  BY <1>1, <1>4, PrefixElements
<1>6. Len(p) \in Nat \ {0} /\ Len(q) \in Nat
  BY <1>4
<1>7. Len(p) <= Len(q) /\ \A i \in 1 .. Len(p) : p[i] = q[i]
  <2>1. Len(p) <= Len(q)
    BY <1>2, <1>3, <1>5, <1>6
  <2>2. ASSUME NEW i \in 1 .. Len(p) PROVE p[i] = q[i]
    <3>1. i \in 1 .. Len(q) /\ 1 + i \in 1 .. Len(Docs(p))
      BY <1>2, <1>6, <2>1
    <3>2. QED
      BY <1>2, <1>3, <1>5, <3>1
  <2>3. QED
    BY <2>1, <2>2
<1>8. IsPrefix(Front(p), q)
  <2>1. /\ Front(p) \in Seq(Element) /\ Len(Front(p)) = Len(p) - 1
        /\ \A i \in 1 .. Len(p) - 1 : Front(p)[i] = p[i]
    BY <1>4, FrontIsCut
  <2>2. Len(Front(p)) <= Len(q) /\ \A i \in 1 .. Len(Front(p)) : Front(p)[i] = q[i]
    BY <1>6, <1>7, <2>1
  <2>3. QED
    BY <1>4, <2>1, <2>2, PrefixElements
<1>9. Last(p) = p[Len(p)] /\ q[Len(p)] = Last(p)
  BY <1>6, <1>7 DEF Last
<1>10. Last(p) \in Range(p)
  BY <1>2, <1>6, <1>9 DEF Range
<1>11. <<Last(p), Last(p)>> \in BeginsWith
  BY <1>10, DocumentStoreAssumption
<1>12. QED
  BY <1>6, <1>7, <1>8, <1>9, <1>11 DEF StartsWith

LEMMA BeginTypes ==
    ASSUME TypeInv, NEW r \in Request, Beginning(r)
    PROVE  /\ \E q : Begin(r, q)
           /\ IsRequest(req'[r])
<1> USE DEF TypeInv
<1>1. CASE BeginStore(r)
  <2>1. PICK p \in Path, versioning \in BOOLEAN :
            Begin(r, [New("store", "mkdir", Docs(p), Nowhere) EXCEPT !.versioning = versioning])
    BY <1>1 DEF BeginStore
  <2>2. PICK q : q = [New("store", "mkdir", Docs(p), Nowhere) EXCEPT !.versioning = versioning]
    OBVIOUS
  <2>3. Begin(r, q)
    BY <2>1, <2>2
  <2>4. PICK n : n = New("store", "mkdir", Docs(p), Nowhere)
    OBVIOUS
  <2>5. /\ DOMAIN n = DOMAIN Idle /\ n.kind = "store" /\ n.at = "mkdir" /\ n.src = Docs(p) /\ n.dst = Nowhere
        /\ n.ms = now /\ n.versioning = FALSE /\ n.seen = Absent
        /\ n.entries = {} /\ n.listed = {} /\ n.id = NewContent + issued /\ n.alone = TRUE
    BY <2>4, IdleFields DEF New
  <2>6. q = [n EXCEPT !.versioning = versioning]
    BY <2>2, <2>4
  <2>7. /\ DOMAIN q = DOMAIN Idle /\ q.kind = "store" /\ q.at = "mkdir" /\ q.src = Docs(p) /\ q.dst = Nowhere
        /\ q.ms = now /\ q.versioning = versioning /\ q.seen = Absent
        /\ q.entries = {} /\ q.listed = {} /\ q.id = NewContent + issued /\ q.alone = TRUE
    BY <2>5, <2>6, IdleFields
  <2>8. Shape(q)
    BY <2>7, DocsPlaces DEF Shape
  <2>9. IsRequest(q)
    <3>1. q.kind \in Kind /\ q.at \in Operations[q.kind] /\ q.versioning \in BOOLEAN
      BY <2>7 DEF Kind, Operations
    <3>2. QED
      BY <2>7, <2>8, <3>1, NewIsRequest
  <2>10. QED
    BY <2>3, <2>9, BeginEffect
<1>2. CASE BeginMove(r)
  <2>1. PICK p \in Path \ {<<>>}, q \in Path :
            /\ ~StartsWith(q, p)
            /\ Begin(r, New("move", "mkdir", Docs(p), Append(Docs(q), Last(p))))
    BY <1>2 DEF BeginMove
  <2>2. PICK n : n = New("move", "mkdir", Docs(p), Append(Docs(q), Last(p)))
    OBVIOUS
  <2>3. /\ n.kind = "move" /\ n.at = "mkdir" /\ n.src = Docs(p)
        /\ n.dst = Append(Docs(q), Last(p))
    BY <2>2, IdleFields DEF New
  <2>4. InDocs(Docs(p)) /\ Len(Docs(p)) > 1 /\ InDocs(Docs(q))
    BY DocsPlaces
  <2>5. Last(p) \in Element
    BY BasenameIsName DEF Element
  <2>6. /\ InDocs(Append(Docs(q), Last(p))) /\ Len(Append(Docs(q), Last(p))) > 1
        /\ Front(Append(Docs(q), Last(p))) = Docs(q)
    BY <2>4, <2>5, AppendPlaces
  <2>7. ~IsPrefix(Docs(p), Docs(q))
    BY <2>1, MoveOutside
  <2>8. Shape(n)
    BY <2>3, <2>4, <2>6, <2>7 DEF Shape
  <2>9. IsRequest(n)
    <3>1. "move" \in Kind /\ "mkdir" \in Operations["move"]
      BY DEF Kind, Operations
    <3>2. QED
      BY <2>2, <2>8, <3>1, NewType
  <2>10. QED
    BY <2>1, <2>2, <2>9, BeginEffect
<1>3. CASE BeginRemove(r)
  <2>1. PICK p \in Path \ {<<>>} : Begin(r, New("remove", "rename", Docs(p), Trash(now, Basename(p))))
    BY <1>3 DEF BeginRemove
  <2>2. PICK n : n = New("remove", "rename", Docs(p), Trash(now, Basename(p)))
    OBVIOUS
  <2>3. /\ n.kind = "remove" /\ n.at = "rename" /\ n.src = Docs(p)
        /\ n.dst = Trash(now, Basename(p))
    BY <2>2, IdleFields DEF New
  <2>4. InDocs(Docs(p)) /\ Len(Docs(p)) > 1
    BY DocsPlaces
  <2>5. IsEntry(Trash(now, Basename(p)))
    BY BasenameIsName, TrashPlaces
  <2>6. Shape(n)
    BY <2>3, <2>4, <2>5 DEF Shape
  <2>7. IsRequest(n)
    <3>1. "remove" \in Kind /\ "rename" \in Operations["remove"]
      BY DEF Kind, Operations
    <3>2. QED
      BY <2>2, <2>6, <3>1, NewType
  <2>8. QED
    BY <2>1, <2>2, <2>7, BeginEffect
<1>4. CASE BeginRemoveAlone(r)
  <2>1. PICK p \in Path : Begin(r, New("removeAlone", "mkdir", Docs(p), Trash(now, Basename(p))))
    BY <1>4 DEF BeginRemoveAlone
  <2>2. PICK n : n = New("removeAlone", "mkdir", Docs(p), Trash(now, Basename(p)))
    OBVIOUS
  <2>3. /\ n.kind = "removeAlone" /\ n.at = "mkdir" /\ n.src = Docs(p)
        /\ n.dst = Trash(now, Basename(p))
    BY <2>2, IdleFields DEF New
  <2>4. InDocs(Docs(p)) /\ IsEntry(Trash(now, Basename(p)))
    BY DocsPlaces, BasenameIsName, TrashPlaces
  <2>5. Shape(n)
    BY <2>3, <2>4 DEF Shape
  <2>6. IsRequest(n)
    <3>1. "removeAlone" \in Kind /\ "mkdir" \in Operations["removeAlone"]
      BY DEF Kind, Operations
    <3>2. QED
      BY <2>2, <2>5, <3>1, NewType
  <2>7. QED
    BY <2>1, <2>2, <2>6, BeginEffect
<1>5. CASE BeginRecover(r)
  <2>1. PICK t \in TrashEntries, q \in Path :
            Begin(r, New("recover", "look", t, Append(Docs(q), t[2][2])))
    BY <1>5 DEF BeginRecover
  <2>2. IsEntry(t)
    <3>1. t \in DOMAIN dirs /\ Len(t) = 2 /\ Head(t) = "trash" /\ IsPlace(t)
      BY DEF TrashEntries, PlacesInv, IsTree
    <3>2. t[1] = "trash"
      BY <3>1 DEF IsPlace
    <3>3. QED
      BY <3>1, <3>2 DEF PlacesInv, IsTree
  <2>3. t[2][2] \in Element
    BY <2>2 DEF IsEntry, Element
  <2>4. PICK n : n = New("recover", "look", t, Append(Docs(q), t[2][2]))
    OBVIOUS
  <2>5. /\ n.kind = "recover" /\ n.at = "look" /\ n.src = t
        /\ n.dst = Append(Docs(q), t[2][2])
    BY <2>4, IdleFields DEF New
  <2>6. InDocs(Append(Docs(q), t[2][2])) /\ Len(Append(Docs(q), t[2][2])) > 1
    BY <2>3, DocsPlaces, AppendPlaces
  <2>7. Shape(n)
    BY <2>2, <2>5, <2>6 DEF Shape
  <2>8. IsRequest(n)
    <3>1. "recover" \in Kind /\ "look" \in Operations["recover"]
      BY DEF Kind, Operations
    <3>2. QED
      BY <2>4, <2>7, <3>1, NewType
  <2>9. QED
    BY <2>1, <2>4, <2>8, BeginEffect
<1>6. CASE BeginPurge(r)
  <2>1. PICK t \in TrashEntries : Begin(r, New("purge", "find", t, Nowhere))
    BY <1>6 DEF BeginPurge
  <2>2. IsEntry(t)
    <3>1. t \in DOMAIN dirs /\ Len(t) = 2 /\ Head(t) = "trash" /\ IsPlace(t)
      BY DEF TrashEntries, PlacesInv, IsTree
    <3>2. t[1] = "trash"
      BY <3>1 DEF IsPlace
    <3>3. QED
      BY <3>1, <3>2 DEF PlacesInv, IsTree
  <2>3. PICK n : n = New("purge", "find", t, Nowhere)
    OBVIOUS
  <2>4. /\ n.kind = "purge" /\ n.at = "find" /\ n.src = t /\ n.dst = Nowhere
    BY <2>3, IdleFields DEF New
  <2>5. Shape(n)
    BY <2>2, <2>4 DEF Shape
  <2>6. IsRequest(n)
    <3>1. "purge" \in Kind /\ "find" \in Operations["purge"]
      BY DEF Kind, Operations
    <3>2. QED
      BY <2>3, <2>5, <3>1, NewType
  <2>7. QED
    BY <2>1, <2>3, <2>6, BeginEffect
<1>7. CASE BeginUpload(r) \/ BeginDetach(r)
  <2>1. PICK p \in Path : \/ Begin(r, New("upload", "write", Docs(p), Nowhere))
                          \/ Begin(r, New("detach", "unlink", Docs(p), Nowhere))
    BY <1>7 DEF BeginUpload, BeginDetach
  <2>2. PICK k, a : /\ \/ k = "upload" /\ a = "write"
                       \/ k = "detach" /\ a = "unlink"
                    /\ Begin(r, New(k, a, Docs(p), Nowhere))
    BY <2>1
  <2>3. PICK n : n = New(k, a, Docs(p), Nowhere)
    OBVIOUS
  <2>4. /\ n.kind = k /\ n.at = a /\ n.src = Docs(p) /\ n.dst = Nowhere
    BY <2>3, IdleFields DEF New
  <2>6. Shape(n)
    BY <2>2, <2>4, DocsPlaces DEF Shape
  <2>7. IsRequest(n)
    <3>1. k \in Kind /\ a \in Operations[k]
      BY <2>2 DEF Kind, Operations
    <3>2. QED
      BY <2>3, <2>6, <3>1, NewType
  <2>8. QED
    BY <2>2, <2>3, <2>7, BeginEffect
<1>8. CASE BeginRetrieve(r) \/ BeginTree(r)
  <2>1. PICK p \in Path, k \in {"retrieve", "tree"}, a \in {"metadata", "list"} :
            /\ \/ k = "retrieve" /\ a = "metadata"
               \/ k = "tree" /\ a = "list"
            /\ Begin(r, [New(k, a, Docs(p), Nowhere) EXCEPT !.listed = {<<Docs(p), "check">>}])
    <3>1. PICK p \in Path :
              \/ Begin(r, [New("retrieve", "metadata", Docs(p), Nowhere)
                              EXCEPT !.listed = {<<Docs(p), "check">>}])
              \/ Begin(r, [New("tree", "list", Docs(p), Nowhere)
                              EXCEPT !.listed = {<<Docs(p), "check">>}])
      BY <1>8 DEF BeginRetrieve, BeginTree
    <3>2. QED
      BY <3>1
  <2>2. PICK n : n = New(k, a, Docs(p), Nowhere)
    OBVIOUS
  <2>3. /\ DOMAIN n = DOMAIN Idle /\ n.kind = k /\ n.at = a /\ n.src = Docs(p) /\ n.dst = Nowhere
        /\ n.ms = now /\ n.versioning = FALSE /\ n.seen = Absent
        /\ n.entries = {} /\ n.listed = {} /\ n.id = NewContent + issued /\ n.alone = TRUE
    BY <2>2, IdleFields DEF New
  <2>4. PICK q : q = [n EXCEPT !.listed = {<<Docs(p), "check">>}]
    OBVIOUS
  <2>5. /\ DOMAIN q = DOMAIN Idle /\ q.kind = k /\ q.at = a /\ q.src = Docs(p) /\ q.dst = Nowhere
        /\ q.ms = now /\ q.versioning = FALSE /\ q.seen = Absent
        /\ q.entries = {} /\ q.listed = {<<Docs(p), "check">>} /\ q.id = NewContent + issued /\ q.alone = TRUE
    BY <2>3, <2>4, IdleFields
  <2>6. Shape(q)
    BY <2>1, <2>5, DocsPlaces DEF Shape
  <2>7. IsRequest(q)
    <3>1. /\ q.kind \in Kind /\ q.at \in Operations[q.kind] /\ q.kind \in {"retrieve", "tree", "trash"}
          /\ \A e \in q.listed : e[2] \in {"check", "read"}
      BY <2>1, <2>5 DEF Kind, Operations
    <3>2. QED
      BY <2>5, <2>6, <3>1, NewIsRequest
  <2>8. QED
    BY <2>1, <2>2, <2>4, <2>7, BeginEffect
<1>9. CASE BeginListTrash(r)
  <2>1. PICK n : n = New("trash", "list", <<"trash">>, Nowhere)
    OBVIOUS
  <2>2. /\ n.kind = "trash" /\ n.at = "list" /\ n.src = <<"trash">>
        /\ n.dst = Nowhere
    BY <2>1, IdleFields DEF New
  <2>3. Shape(n)
    BY <2>2 DEF Shape
  <2>4. IsRequest(n)
    <3>1. "trash" \in Kind /\ "list" \in Operations["trash"]
      BY DEF Kind, Operations
    <3>2. QED
      BY <2>1, <2>3, <3>1, NewType
  <2>5. Begin(r, n)
    BY <1>9, <2>1 DEF BeginListTrash
  <2>6. QED
    BY <2>4, <2>5, BeginEffect
<1>10. QED
  BY <1>1, <1>2, <1>3, <1>4, <1>5, <1>6, <1>7, <1>8, <1>9 DEF Beginning

----------------------------------------------------------------------------
(* Types are preserved by the operations.                                  *)

LEMMA DirectoryFields ==
    /\ DOMAIN EmptyDir = {"content", "torn", "attachment", "versions"}
    /\ EmptyDir.content = Absent /\ EmptyDir.torn = FALSE
    /\ EmptyDir.attachment = Absent /\ EmptyDir.versions = Absent
    /\ IsDirectory(EmptyDir)
BY DEF EmptyDir, IsDirectory

\* The directories after one of them has changed.
LEMMA UpdatedDirs ==
    ASSUME FilesInv, NEW l \in DOMAIN dirs, NEW d, IsDirectory(d), dirs' = [dirs EXCEPT ![l] = d]
    PROVE  /\ FilesInv' /\ DOMAIN dirs' = DOMAIN dirs /\ dirs'[l] = d
           /\ \A m \in DOMAIN dirs \ {l} : dirs'[m] = dirs[m]
BY DEF FilesInv

LEMMA WithDirFiles ==
    ASSUME FilesInv, NEW l, IsPlace(l), NEW m \in DOMAIN WithDir(l)
    PROVE  IsDirectory(WithDir(l)[m])
<1>1. CASE m \in DOMAIN dirs
  <2>1. WithDir(l)[m] = dirs[m]
    BY <1>1, WithDirDomain
  <2>2. QED
    BY <1>1, <2>1 DEF FilesInv
<1>2. CASE m \notin DOMAIN dirs
  <2>1. WithDir(l)[m] = EmptyDir
    BY <1>2, WithDirDomain
  <2>2. QED
    BY <2>1, DirectoryFields
<1>3. QED
  BY <1>1, <1>2

LEMMA StoreMkdirType ==
    ASSUME TypeInv, NEW r \in Request, StoreMkdir(r)
    PROVE  TypeInv'
<1> USE DEF TypeInv
<1>1. /\ req[r].kind = "store" /\ IsRequest(req[r]) /\ InDocs(req[r].src)
      /\ IsPlace(req[r].src)
  BY DEF StoreMkdir, At, RequestsInv, IsRequest, Shape, InDocs
<1>2. /\ dirs' = WithDir(req[r].src) /\ DOMAIN req' = Request /\ req'[r] = Going(r, "look")
      /\ Others(r) /\ UNCHANGED <<now, issued, crashes, overlapped>>
  BY HereEffect DEF StoreMkdir
<1>3. IsRequest(req'[r])
  BY <1>1, <1>2, GoingIsRequest DEF Operations, Going
<1>4. RequestsInv'
  BY <1>2, <1>3, OthersAreRequests
<1>5. PlacesInv'
  BY <1>1, <1>2, WithDirTree DEF PlacesInv
<1>6. FilesInv'
  BY <1>1, <1>2, WithDirFiles DEF FilesInv
<1>7. QED
  BY <1>2, <1>4, <1>5, <1>6 DEF CountersInv

\* Operations that only look.
LEMMA LookType ==
    ASSUME TypeInv, NEW r \in Request, NEW q, Look(r, q), IsRequest(q)
    PROVE  TypeInv'
<1> USE DEF TypeInv
<1>1. /\ dirs' = dirs /\ DOMAIN req' = Request /\ req'[r] = q
      /\ \A x \in Request \ {r} : req'[x] = req[x]
      /\ UNCHANGED <<now, issued, crashes, overlapped>>
  BY LookEffect
<1>2. RequestsInv'
  BY <1>1, AloneRequests
<1>3. QED
  BY <1>1, <1>2 DEF PlacesInv, FilesInv, CountersInv

LEMMA StoreLookType ==
    ASSUME TypeInv, NEW r \in Request, StoreLook(r)
    PROVE  TypeInv'
<1> USE DEF TypeInv
<1> PICK q : q = req[r]
  OBVIOUS
<1>1. q.kind = "store" /\ IsRequest(q)
  BY DEF StoreLook, At, RequestsInv
<1>2. PICK at \in {"mkdirVersions", "open"} :
          Look(r, [q EXCEPT !.at = at, !.ms = now, !.seen = WholeContent(q.src)])
  BY DEF StoreLook
<1> PICK p : p = [q EXCEPT !.at = at, !.ms = now, !.seen = WholeContent(q.src)]
  OBVIOUS
<1>3. /\ DOMAIN p = DOMAIN Idle /\ p.kind = q.kind /\ p.at = at /\ p.src = q.src /\ p.dst = q.dst
      /\ p.ms = now /\ p.versioning = q.versioning /\ p.seen = WholeContent(q.src)
      /\ p.entries = q.entries /\ p.listed = q.listed /\ p.id = q.id /\ p.alone = q.alone
  BY <1>1, IdleFields DEF IsRequest, Fields
<1>4. p.ms \in Instant /\ p.seen \in Content \cup {Absent}
  <2>1. WholeContent(q.src) \in Content \cup {Absent}
    BY DEF WholeContent, HasFile, Exists, FilesInv, IsDirectory
  <2>2. now \in Instant
    BY DocumentStoreAssumption DEF CountersInv, Instant
  <2>3. QED
    BY <1>3, <2>1, <2>2
<1>5. Fields(p)
  <2>1. p.versioning \in BOOLEAN /\ p.alone \in BOOLEAN /\ p.id \in Nat
    BY <1>1, <1>3 DEF IsRequest, Fields
  <2>2. p.kind = "store" /\ p.entries = {} /\ p.listed = {}
    BY <1>1, <1>3 DEF IsRequest, Fields
  <2>3. QED
    BY <1>3, <1>4, <2>1, <2>2 DEF Fields
<1>6. Shape(p)
  BY <1>1, <1>3, ShapeStays
<1>7. IsRequest(p)
  BY <1>1, <1>3, <1>5, <1>6 DEF IsRequest, Operations
<1>8. QED
  BY <1>2, <1>7, LookType

LEMMA StoreMkdirVersionsEffect ==
    ASSUME TypeInv, NEW r \in Request, StoreMkdirVersions(r)
    PROVE  LET l == req[r].src IN
           /\ req[r].kind = "store" /\ req[r].at = "mkdirVersions"
           /\ IsRequest(req[r]) /\ InDocs(l) /\ IsPlace(l) /\ l \in DOMAIN WithDir(l)
           /\ DOMAIN dirs' = DOMAIN WithDir(l)
           /\ \A m \in DOMAIN dirs' \ {l} : dirs'[m] = WithDir(l)[m]
           /\ dirs'[l] = [WithDir(l)[l] EXCEPT !.versions = VersionsOf(WithDir(l)[l])]
           /\ DOMAIN req' = Request /\ req'[r] = Going(r, "copy")
           /\ Others(r) /\ SameFiles(r) /\ UNCHANGED <<now, issued, crashes, overlapped>>
<1> DEFINE l == req[r].src
<1> USE DEF TypeInv
<1>1. req[r].kind = "store" /\ req[r].at = "mkdirVersions" /\ IsRequest(req[r])
  BY DEF StoreMkdirVersions, At, RequestsInv
<1>2. InDocs(l) /\ IsPlace(l)
  BY <1>1 DEF IsRequest, Shape, InDocs
<1>3. l \in DOMAIN WithDir(l)
  BY <1>2, WithDirDomain
<1>4. /\ dirs' = [WithDir(l) EXCEPT ![l] = [@ EXCEPT !.versions = VersionsOf(WithDir(l)[l])]]
      /\ DOMAIN req' = Request /\ req'[r] = Going(r, "copy")
      /\ Others(r) /\ SameFiles(r) /\ UNCHANGED <<now, issued, crashes, overlapped>>
  BY HereEffect DEF StoreMkdirVersions
<1>5. /\ DOMAIN dirs' = DOMAIN WithDir(l)
      /\ \A m \in DOMAIN dirs' \ {l} : dirs'[m] = WithDir(l)[m]
      /\ dirs'[l] = [WithDir(l)[l] EXCEPT !.versions = VersionsOf(WithDir(l)[l])]
  BY <1>3, <1>4
<1>6. QED
  BY <1>1, <1>2, <1>3, <1>4, <1>5

LEMMA DirectoryUpdates ==
    ASSUME NEW d, IsDirectory(d)
    PROVE  /\ \A v : \/ v = Absent
                     \/ DOMAIN v \subseteq Instant /\ v \in [DOMAIN v -> Content]
                     => IsDirectory([d EXCEPT !.versions = v])
           /\ \A c \in Content \cup {Absent} : \A t \in BOOLEAN :
                 IsDirectory([d EXCEPT !.content = c, !.torn = t])
           /\ \A a \in {Attached, Absent} : IsDirectory([d EXCEPT !.attachment = a])
<1>1. DOMAIN d = {"content", "torn", "attachment", "versions"}
  BY DirectoryFields DEF IsDirectory
<1>2. ASSUME NEW v, \/ v = Absent
                    \/ DOMAIN v \subseteq Instant /\ v \in [DOMAIN v -> Content]
      PROVE  IsDirectory([d EXCEPT !.versions = v])
  <2> PICK e : e = [d EXCEPT !.versions = v]
    OBVIOUS
  <2>1. /\ DOMAIN e = DOMAIN d /\ e.content = d.content /\ e.torn = d.torn
        /\ e.attachment = d.attachment /\ e.versions = v
    BY <1>1
  <2>2. e.torn \in BOOLEAN
    BY <2>1 DEF IsDirectory
  <2>3. IsDirectory(e)
    BY <1>2, <2>1, <2>2 DEF IsDirectory
  <2>4. QED
    BY <2>3
<1>3. ASSUME NEW c \in Content \cup {Absent}, NEW t \in BOOLEAN
      PROVE  IsDirectory([d EXCEPT !.content = c, !.torn = t])
  <2> PICK e : e = [d EXCEPT !.content = c, !.torn = t]
    OBVIOUS
  <2>1. /\ DOMAIN e = DOMAIN d /\ e.content = c
        /\ e.attachment = d.attachment /\ e.versions = d.versions
    BY <1>1
  <2>2. e.torn = t
    BY <1>1
  <2>3. IsDirectory(e)
    BY <2>1, <2>2 DEF IsDirectory
  <2>4. QED
    BY <2>3
<1>4. ASSUME NEW a \in {Attached, Absent}
      PROVE  IsDirectory([d EXCEPT !.attachment = a])
  <2> PICK e : e = [d EXCEPT !.attachment = a]
    OBVIOUS
  <2>1. /\ DOMAIN e = DOMAIN d /\ e.content = d.content /\ e.torn = d.torn
        /\ e.attachment = a /\ e.versions = d.versions
    BY <1>1
  <2>2. e.torn \in BOOLEAN
    BY <2>1 DEF IsDirectory
  <2>3. IsDirectory(e)
    BY <2>1, <2>2 DEF IsDirectory
  <2>4. QED
    BY <2>3
<1>5. QED
  BY <1>2, <1>3, <1>4

LEMMA StoreMkdirVersionsType ==
    ASSUME TypeInv, NEW r \in Request, StoreMkdirVersions(r)
    PROVE  TypeInv'
<1> USE DEF TypeInv
<1> PICK l : l = req[r].src
  OBVIOUS
<1>1. /\ req[r].kind = "store" /\ IsRequest(req[r]) /\ InDocs(l) /\ IsPlace(l)
      /\ DOMAIN dirs' = DOMAIN WithDir(l) /\ l \in DOMAIN WithDir(l)
      /\ \A m \in DOMAIN dirs' \ {l} : dirs'[m] = WithDir(l)[m]
      /\ dirs'[l] = [WithDir(l)[l] EXCEPT !.versions = VersionsOf(WithDir(l)[l])]
      /\ DOMAIN req' = Request /\ req'[r] = Going(r, "copy")
      /\ Others(r) /\ UNCHANGED <<now, issued, crashes, overlapped>>
  BY StoreMkdirVersionsEffect
<1>2. IsRequest(req'[r])
  BY <1>1, GoingIsRequest DEF Operations, Going
<1>3. RequestsInv'
  BY <1>1, <1>2, OthersAreRequests
<1>4. PlacesInv'
  BY <1>1, WithDirTree DEF PlacesInv
<1>5. \A m \in DOMAIN WithDir(l) : IsDirectory(WithDir(l)[m])
  BY <1>1, WithDirFiles
<1>6. IsDirectory(dirs'[l])
  <2> PICK d : d = WithDir(l)[l]
    OBVIOUS
  <2>1. IsDirectory(d)
    BY <1>1, <1>5
  <2>2. DOMAIN VersionsOf(d) \subseteq Instant /\ VersionsOf(d) \in [DOMAIN VersionsOf(d) -> Content]
    BY <2>1, VersionsAreContents
  <2>3. IsDirectory([d EXCEPT !.versions = VersionsOf(d)])
    BY <2>1, <2>2, DirectoryUpdates
  <2>4. QED
    BY <1>1, <2>3
<1>7. FilesInv'
  BY <1>1, <1>5, <1>6 DEF FilesInv
<1>8. QED
  BY <1>1, <1>3, <1>4, <1>7 DEF CountersInv

\* A store copies the document into its versions.
LEMMA StoreCopyEffect ==
    ASSUME TypeInv, NEW r \in Request, StoreCopy(r)
    PROVE  LET l == req[r].src
               copied == IF dirs[l].torn THEN Damaged ELSE dirs[l].content
           IN
           /\ req[r].kind = "store" /\ req[r].at = "copy" /\ IsRequest(req[r])
           /\ l \in DOMAIN dirs /\ CanCopy(l) /\ copied \in Content
           /\ dirs' = [dirs EXCEPT ![l] = [dirs[l] EXCEPT
                           !.versions = WithVersion(VersionsOf(dirs[l]), req[r].ms, copied)]]
           /\ DOMAIN req' = Request
           /\ req'[r] = [req[r] EXCEPT !.at = "open", !.seen = WholeContent(l)]
           /\ Others(r) /\ SameFiles(r) /\ UNCHANGED <<now, issued, crashes>>
           /\ overlapped' = (overlapped \/ OpenElsewhere(r, l))
<1> USE DEF TypeInv
<1> PICK l : l = req[r].src
  OBVIOUS
<1> PICK copied : copied = IF dirs[l].torn THEN Damaged ELSE dirs[l].content
  OBVIOUS
<1>1. req[r].kind = "store" /\ req[r].at = "copy" /\ IsRequest(req[r])
  BY DEF StoreCopy, At, RequestsInv
<1>2. CanCopy(l) /\ l \in DOMAIN dirs
  BY DEF StoreCopy, CanCopy, HasFile, Exists
<1>3. copied \in Content
  BY <1>2, AbsentIsNotContent DEF CanCopy, HasFile, FilesInv, IsDirectory
<1>4. Change(r, [Going(r, "open") EXCEPT !.seen = WholeContent(l)],
             With(l, "versions", WithVersion(VersionsOf(dirs[l]), req[r].ms, copied)), Here)
  BY DEF StoreCopy
<1>5. /\ dirs' = With(l, "versions", WithVersion(VersionsOf(dirs[l]), req[r].ms, copied))
      /\ DOMAIN req' = Request /\ req'[r] = [Going(r, "open") EXCEPT !.seen = WholeContent(l)]
      /\ Others(r) /\ SameFiles(r) /\ UNCHANGED <<now, issued, crashes>>
  BY <1>4, HereEffect
<1>6. dirs' = [dirs EXCEPT ![l] = [dirs[l] EXCEPT
                   !.versions = WithVersion(VersionsOf(dirs[l]), req[r].ms, copied)]]
  BY <1>2, <1>5 DEF With
<1>7. req'[r] = [req[r] EXCEPT !.at = "open", !.seen = WholeContent(l)]
  BY <1>5 DEF Going
<1>8. overlapped' = (overlapped \/ OpenElsewhere(r, l))
  BY DEF StoreCopy
<1>9. QED
  BY <1>1, <1>2, <1>3, <1>5, <1>6, <1>7, <1>8

LEMMA WithVersionType ==
    ASSUME NEW versions, DOMAIN versions \subseteq Instant, versions \in [DOMAIN versions -> Content],
           NEW ms \in Instant, NEW c \in Content, NEW v, v = WithVersion(versions, ms, c)
    PROVE  DOMAIN v \subseteq Instant /\ v \in [DOMAIN v -> Content]
BY DEF WithVersion

LEMMA SeenType ==
    ASSUME FilesInv, NEW l
    PROVE  WholeContent(l) \in Content \cup {Absent}
BY DEF WholeContent, HasFile, Exists, FilesInv, IsDirectory

LEMMA OverlapType ==
    ASSUME CountersInv, NEW r, NEW l, overlapped' = (overlapped \/ OpenElsewhere(r, l))
    PROVE  overlapped' \in BOOLEAN
BY DEF CountersInv

LEMMA StoreCopyType ==
    ASSUME TypeInv, NEW r \in Request, StoreCopy(r)
    PROVE  TypeInv'
<1> USE DEF TypeInv
<1> PICK l : l = req[r].src
  OBVIOUS
<1> PICK copied : copied = IF dirs[l].torn THEN Damaged ELSE dirs[l].content
  OBVIOUS
<1> PICK q : q = req[r]
  OBVIOUS
<1>1. /\ q.kind = "store" /\ IsRequest(q)
      /\ l \in DOMAIN dirs /\ copied \in Content
      /\ dirs' = [dirs EXCEPT ![l] = [dirs[l] EXCEPT
                      !.versions = WithVersion(VersionsOf(dirs[l]), q.ms, copied)]]
      /\ DOMAIN req' = Request
      /\ req'[r] = [q EXCEPT !.at = "open", !.seen = WholeContent(l)]
      /\ Others(r) /\ UNCHANGED <<now, issued, crashes>>
      /\ overlapped' = (overlapped \/ OpenElsewhere(r, l))
  BY StoreCopyEffect
<1> PICK p : p = req'[r]
  OBVIOUS
<1>2. IsRequest(p)
  <2>1. /\ DOMAIN p = DOMAIN Idle /\ p.kind = q.kind /\ p.at = "open" /\ p.src = q.src /\ p.dst = q.dst
        /\ p.ms = q.ms /\ p.versioning = q.versioning /\ p.seen = WholeContent(l)
        /\ p.entries = q.entries /\ p.listed = q.listed /\ p.id = q.id /\ p.alone = q.alone
    BY <1>1, IdleFields DEF IsRequest, Fields
  <2>2. p.versioning \in BOOLEAN /\ p.alone \in BOOLEAN /\ p.id \in Nat /\ p.ms \in Instant
    BY <1>1, <2>1 DEF IsRequest, Fields
  <2>3. p.kind = "store" /\ p.entries = {} /\ p.listed = {}
    BY <1>1, <2>1 DEF IsRequest, Fields
  <2>4. p.seen \in Content \cup {Absent}
    BY <2>1, SeenType
  <2>5. Fields(p)
    BY <2>1, <2>2, <2>3, <2>4 DEF Fields
  <2>6. Shape(p)
    BY <1>1, <2>1, ShapeStays
  <2>7. QED
    BY <2>1, <2>3, <2>5, <2>6 DEF IsRequest, Operations, Kind
<1>3. RequestsInv'
  BY <1>1, <1>2, OthersAreRequests
<1> PICK v : v = WithVersion(VersionsOf(dirs[l]), q.ms, copied)
  OBVIOUS
<1>4. DOMAIN v \subseteq Instant /\ v \in [DOMAIN v -> Content]
  <2> PICK w : w = VersionsOf(dirs[l])
    OBVIOUS
  <2>1. DOMAIN w \subseteq Instant /\ w \in [DOMAIN w -> Content]
    BY <1>1, VersionsAreContents DEF FilesInv
  <2>2. q.ms \in Instant
    BY <1>1 DEF IsRequest, Fields
  <2>3. v = WithVersion(w, q.ms, copied)
    OBVIOUS
  <2>4. QED
    BY <1>1, <2>1, <2>2, <2>3, WithVersionType
<1>5. IsDirectory([dirs[l] EXCEPT !.versions = v])
  BY <1>1, <1>4, DirectoryUpdates DEF FilesInv
<1>6. FilesInv' /\ DOMAIN dirs' = DOMAIN dirs
  BY <1>1, <1>5, UpdatedDirs
<1>7. PlacesInv'
  BY <1>6 DEF PlacesInv
<1>8. CountersInv'
  BY <1>1, OverlapType DEF CountersInv
<1>9. QED
  BY <1>3, <1>6, <1>7, <1>8

LEMMA VisibleType ==
    ASSUME FilesInv, NEW l \in DOMAIN dirs
    PROVE  Visible(l) \in Content \cup {Absent}
BY AbsentIsNotContent DEF Visible, FilesInv, IsDirectory

LEMMA StoreOpenEffect ==
    ASSUME TypeInv, NEW r \in Request, StoreOpen(r)
    PROVE  LET l == req[r].src IN
           /\ req[r].kind = "store" /\ req[r].at = "open" /\ IsRequest(req[r])
           /\ l \in DOMAIN dirs
           /\ dirs' = [dirs EXCEPT ![l] = [dirs[l] EXCEPT !.content = Visible(l), !.torn = TRUE]]
           /\ DOMAIN req' = Request
           /\ req'[r] = [req[r] EXCEPT !.at = "write", !.dst = l]
           /\ Others(r) /\ SameFiles(r) /\ UNCHANGED <<now, issued, crashes>>
           /\ overlapped' = (overlapped \/ OpenElsewhere(r, l))
<1> USE DEF TypeInv
<1> PICK l : l = req[r].src
  OBVIOUS
<1>1. req[r].kind = "store" /\ req[r].at = "open" /\ IsRequest(req[r]) /\ l \in DOMAIN dirs
  BY DEF StoreOpen, At, RequestsInv, Exists
<1>2. Change(r, [Going(r, "write") EXCEPT !.dst = l], Truncated(l), Here)
  BY DEF StoreOpen
<1>3. /\ dirs' = Truncated(l)
      /\ DOMAIN req' = Request /\ req'[r] = [Going(r, "write") EXCEPT !.dst = l]
      /\ Others(r) /\ SameFiles(r) /\ UNCHANGED <<now, issued, crashes>>
  BY <1>2, HereEffect
<1>4. dirs' = [dirs EXCEPT ![l] = [dirs[l] EXCEPT !.content = Visible(l), !.torn = TRUE]]
  BY <1>1, <1>3 DEF Truncated
<1>5. req'[r] = [req[r] EXCEPT !.at = "write", !.dst = l]
  BY <1>3 DEF Going
<1>6. overlapped' = (overlapped \/ OpenElsewhere(r, l))
  BY DEF StoreOpen
<1>7. QED
  BY <1>1, <1>3, <1>4, <1>5, <1>6

LEMMA StoreOpenType ==
    ASSUME TypeInv, NEW r \in Request, StoreOpen(r)
    PROVE  TypeInv'
<1> USE DEF TypeInv
<1> PICK l : l = req[r].src
  OBVIOUS
<1> PICK q : q = req[r]
  OBVIOUS
<1>1. /\ q.kind = "store" /\ IsRequest(q)
      /\ l \in DOMAIN dirs
      /\ dirs' = [dirs EXCEPT ![l] = [dirs[l] EXCEPT !.content = Visible(l), !.torn = TRUE]]
      /\ DOMAIN req' = Request
      /\ req'[r] = [q EXCEPT !.at = "write", !.dst = l]
      /\ Others(r) /\ UNCHANGED <<now, issued, crashes>>
      /\ overlapped' = (overlapped \/ OpenElsewhere(r, l))
  BY StoreOpenEffect
<1> PICK p : p = req'[r]
  OBVIOUS
<1>2. IsRequest(p)
  <2>1. /\ DOMAIN p = DOMAIN Idle /\ p.kind = q.kind /\ p.at = "write" /\ p.src = q.src /\ p.dst = l
        /\ p.ms = q.ms /\ p.versioning = q.versioning /\ p.seen = q.seen
        /\ p.entries = q.entries /\ p.listed = q.listed /\ p.id = q.id /\ p.alone = q.alone
    BY <1>1, IdleFields DEF IsRequest, Fields
  <2>2. p.versioning \in BOOLEAN /\ p.alone \in BOOLEAN /\ p.id \in Nat /\ p.ms \in Instant
    BY <1>1, <2>1 DEF IsRequest, Fields
  <2>3. p.kind = "store" /\ p.entries = {} /\ p.listed = {} /\ p.seen \in Content \cup {Absent}
    BY <1>1, <2>1 DEF IsRequest, Fields
  <2>5. Fields(p)
    BY <2>1, <2>2, <2>3 DEF Fields
  <2>6. Shape(p)
    BY <1>1, <2>1, ShapeStays
  <2>7. QED
    BY <2>1, <2>3, <2>5, <2>6 DEF IsRequest, Operations, Kind
<1>3. RequestsInv'
  BY <1>1, <1>2, OthersAreRequests
<1>5. IsDirectory([dirs[l] EXCEPT !.content = Visible(l), !.torn = TRUE])
  BY <1>1, VisibleType, DirectoryUpdates DEF FilesInv
<1>6. FilesInv' /\ DOMAIN dirs' = DOMAIN dirs
  BY <1>1, <1>5, UpdatedDirs
<1>7. PlacesInv'
  BY <1>6 DEF PlacesInv
<1>8. CountersInv'
  BY <1>1, OverlapType DEF CountersInv
<1>9. QED
  BY <1>3, <1>6, <1>7, <1>8

LEMMA StoreWriteEffect ==
    ASSUME TypeInv, NEW r \in Request, StoreWrite(r)
    PROVE  LET l == req[r].dst IN
           /\ req[r].kind = "store" /\ req[r].at = "write" /\ IsRequest(req[r])
           /\ DOMAIN req' = Request /\ req'[r] = Idle
           /\ Others(r) /\ SameFiles(r) /\ UNCHANGED <<now, issued, crashes, overlapped>>
           /\ ~Exists(l) => dirs' = dirs
           /\ Exists(l) => \E c \in {req[r].id, Damaged} :
                 /\ c = Damaged => ~dirs[l].torn
                 /\ dirs' = [dirs EXCEPT ![l] = [dirs[l] EXCEPT !.content = c, !.torn = FALSE]]
<1> USE DEF TypeInv
<1> PICK l : l = req[r].dst
  OBVIOUS
<1>1. req[r].kind = "store" /\ req[r].at = "write" /\ IsRequest(req[r])
  BY DEF StoreWrite, At, RequestsInv
<1>2. PICK c \in {req[r].id, Damaged} :
          /\ c = Damaged => Exists(l) /\ ~dirs[l].torn
          /\ Change(r, Idle,
                    IF Exists(l)
                    THEN [dirs EXCEPT ![l] = [@ EXCEPT !.content = c, !.torn = FALSE]]
                    ELSE dirs, Here)
  BY DEF StoreWrite
<1>3. /\ dirs' = IF Exists(l)
                 THEN [dirs EXCEPT ![l] = [@ EXCEPT !.content = c, !.torn = FALSE]]
                 ELSE dirs
      /\ DOMAIN req' = Request /\ req'[r] = Idle
      /\ Others(r) /\ SameFiles(r) /\ UNCHANGED <<now, issued, crashes>>
  BY <1>2, HereEffect
<1>4. Exists(l) => dirs' = [dirs EXCEPT ![l] = [dirs[l] EXCEPT !.content = c, !.torn = FALSE]]
  BY <1>3 DEF Exists
<1>5. overlapped' = overlapped
  BY DEF StoreWrite
<1>6. QED
  BY <1>1, <1>2, <1>3, <1>4, <1>5

LEMMA StoreWriteType ==
    ASSUME TypeInv, NEW r \in Request, StoreWrite(r)
    PROVE  TypeInv'
<1> USE DEF TypeInv
<1> PICK l : l = req[r].dst
  OBVIOUS
<1>1. /\ IsRequest(req[r]) /\ DOMAIN req' = Request /\ req'[r] = Idle
      /\ Others(r) /\ UNCHANGED <<now, issued, crashes, overlapped>>
      /\ ~Exists(l) => dirs' = dirs
      /\ Exists(l) => \E c \in {req[r].id, Damaged} :
             dirs' = [dirs EXCEPT ![l] = [dirs[l] EXCEPT !.content = c, !.torn = FALSE]]
  BY StoreWriteEffect
<1>2. RequestsInv'
  BY <1>1, IdleIsRequest, OthersAreRequests
<1>3. CountersInv'
  BY <1>1 DEF CountersInv
<1>4. CASE ~Exists(l)
  BY <1>1, <1>2, <1>3, <1>4 DEF PlacesInv, FilesInv
<1>5. CASE Exists(l)
  <2>1. PICK c \in {req[r].id, Damaged} :
            dirs' = [dirs EXCEPT ![l] = [dirs[l] EXCEPT !.content = c, !.torn = FALSE]]
    BY <1>1, <1>5
  <2>2. c \in Content
    BY <1>1 DEF IsRequest, Fields, Content
  <2>3. IsDirectory([dirs[l] EXCEPT !.content = c, !.torn = FALSE])
    BY <1>5, <2>2, DirectoryUpdates DEF FilesInv, Exists
  <2>4. FilesInv' /\ DOMAIN dirs' = DOMAIN dirs
    BY <1>5, <2>1, <2>3, UpdatedDirs DEF Exists
  <2>5. QED
    BY <1>2, <1>3, <2>4 DEF PlacesInv
<1>6. QED
  BY <1>4, <1>5

\* The directory above the destination.
LEMMA AboveDestination ==
    ASSUME NEW q, IsRequest(q), q.kind \in {"move", "recover"}
    PROVE  /\ InDocs(q.dst) /\ Len(q.dst) > 1 /\ IsPlace(q.dst)
           /\ InDocs(Front(q.dst)) /\ IsPlace(Front(q.dst)) /\ Front(q.dst) # q.dst
<1>1. InDocs(q.dst) /\ Len(q.dst) > 1
  BY DEF IsRequest, Shape
<1>2. q.dst \in Seq(Element) /\ q.dst # <<>> /\ q.dst[1] = "docs"
  BY <1>1 DEF InDocs, IsPlace
<1>3. /\ Front(q.dst) \in Seq(Element) /\ Len(Front(q.dst)) = Len(q.dst) - 1
      /\ \A i \in 1 .. Len(q.dst) - 1 : Front(q.dst)[i] = q.dst[i]
  BY <1>2, FrontIsCut
<1>4. Len(q.dst) \in Nat
  BY <1>2
<1>5. Front(q.dst)[1] = "docs" /\ Len(Front(q.dst)) # Len(q.dst) /\ Len(Front(q.dst)) # 0
  BY <1>1, <1>2, <1>3, <1>4
<1>6. QED
  BY <1>1, <1>2, <1>3, <1>5 DEF InDocs, IsPlace

LEMMA MkdirEffect ==
    ASSUME TypeInv, NEW r \in Request, Mkdir(r)
    PROVE  LET l == Front(req[r].dst) IN
           /\ req[r].kind \in {"move", "recover"} /\ req[r].at = "mkdir" /\ IsRequest(req[r])
           /\ InDocs(l) /\ IsPlace(l)
           /\ dirs' = WithDir(l) /\ DOMAIN req' = Request /\ req'[r] = Going(r, "rename")
           /\ Others(r) /\ SameFiles(r) /\ UNCHANGED <<now, issued, crashes, overlapped>>
<1> USE DEF TypeInv
<1>1. req[r].kind \in {"move", "recover"} /\ req[r].at = "mkdir" /\ IsRequest(req[r])
  BY DEF Mkdir, RequestsInv
<1>2. InDocs(Front(req[r].dst)) /\ IsPlace(Front(req[r].dst))
  BY <1>1, AboveDestination
<1>3. Change(r, Going(r, "rename"), WithDir(Front(req[r].dst)), Here) /\ UNCHANGED overlapped
  BY DEF Mkdir
<1>4. /\ dirs' = WithDir(Front(req[r].dst)) /\ DOMAIN req' = Request /\ req'[r] = Going(r, "rename")
      /\ Others(r) /\ SameFiles(r) /\ UNCHANGED <<now, issued, crashes>>
  BY <1>3, HereEffect
<1>5. QED
  BY <1>1, <1>2, <1>3, <1>4

LEMMA MkdirType ==
    ASSUME TypeInv, NEW r \in Request, Mkdir(r)
    PROVE  TypeInv'
<1> USE DEF TypeInv
<1> PICK l : l = Front(req[r].dst)
  OBVIOUS
<1>1. /\ req[r].kind \in {"move", "recover"} /\ IsRequest(req[r]) /\ InDocs(l) /\ IsPlace(l)
      /\ dirs' = WithDir(l) /\ DOMAIN req' = Request /\ req'[r] = Going(r, "rename")
      /\ Others(r) /\ UNCHANGED <<now, issued, crashes, overlapped>>
  BY MkdirEffect
<1>2. IsRequest(req'[r])
  BY <1>1, GoingIsRequest DEF Operations, Going
<1>3. RequestsInv'
  BY <1>1, <1>2, OthersAreRequests
<1>4. PlacesInv'
  BY <1>1, WithDirTree DEF PlacesInv
<1>5. FilesInv'
  BY <1>1, WithDirFiles DEF FilesInv
<1>6. QED
  BY <1>1, <1>3, <1>4, <1>5 DEF CountersInv

LEMMA RenameEffect ==
    ASSUME TypeInv, NEW r \in Request, Rename(r)
    PROVE  LET src == req[r].src
               dst == req[r].dst
           IN
           /\ req[r].kind \in {"move", "remove", "recover"} /\ req[r].at = "rename" /\ IsRequest(req[r])
           /\ CanRename(src, dst) /\ IsPlace(src) /\ IsPlace(dst) /\ Len(src) > 1 /\ Len(dst) > 1
           /\ InDocs(dst) \/ IsEntry(dst)
           /\ dirs' = Renamed(src, dst) /\ DOMAIN req' = Request /\ req'[r] = Idle
           /\ Others(r) /\ UNCHANGED <<now, issued, crashes, overlapped>>
           /\ \A x \in Request \ {r} :
                 req'[x].dst = IF req[x].at = "write" THEN Relocated(req[x].dst, src, dst)
                               ELSE req[x].dst
<1> USE DEF TypeInv
<1> PICK src, dst : src = req[r].src /\ dst = req[r].dst
  OBVIOUS
<1>1. req[r].at = "rename" /\ IsRequest(req[r]) /\ CanRename(src, dst)
  BY DEF Rename, RequestsInv
<1>2. req[r].kind \in {"move", "remove", "recover"}
  BY <1>1 DEF IsRequest, Operations, Kind
<1>3. /\ InDocs(dst) \/ IsEntry(dst)
      /\ Len(src) > 1 /\ Len(dst) > 1 /\ IsPlace(src) /\ IsPlace(dst)
  BY <1>1, <1>2 DEF IsRequest, Shape, InDocs, IsEntry
<1>4. /\ dirs' = Renamed(src, dst)
      /\ req' = [x \in Request |->
                   IF x = r THEN Idle
                   ELSE Beside(req[x], Renamed(src, dst),
                               IF req[x].at = "write" THEN Relocated(req[x].dst, src, dst)
                               ELSE req[x].dst)]
      /\ UNCHANGED <<now, issued, crashes, overlapped>>
  BY DEF Rename, Change
<1>5. Relocated(Nowhere, src, dst) = Nowhere
  <2>1. src \in Seq(Element) /\ Len(src) > Len(Nowhere)
    BY <1>3 DEF IsPlace, Nowhere
  <2>2. ~IsPrefix(src, Nowhere)
    BY <2>1 DEF IsPrefix
  <2>3. QED
    BY <2>2 DEF Relocated
<1>6. ASSUME NEW x \in Request \ {r}
      PROVE  /\ Onward(req[x], req'[x], dirs')
             /\ req'[x].dst = IF req[x].at = "write" THEN Relocated(req[x].dst, src, dst)
                              ELSE req[x].dst
  <2> PICK d : d = IF req[x].at = "write" THEN Relocated(req[x].dst, src, dst) ELSE req[x].dst
    OBVIOUS
  <2>1. IsRequest(req[x])
    BY DEF RequestsInv
  <2>2. req'[x] = Beside(req[x], dirs', d)
    BY <1>4, <1>6
  <2>3. req[x].at # "write" \/ req[x].dst = Nowhere => d = req[x].dst
    BY <1>5
  <2>4. Onward(req[x], req'[x], dirs') /\ req'[x].dst = d
    BY <2>1, <2>2, <2>3, BesideIsOnward
  <2>5. QED
    BY <2>4
<1>7. Others(r)
  BY <1>6 DEF Others
<1>8. DOMAIN req' = Request /\ req'[r] = Idle
  BY <1>4
<1>9. QED
  BY <1>1, <1>2, <1>3, <1>4, <1>6, <1>7, <1>8

LEMMA RenameType ==
    ASSUME TypeInv, NEW r \in Request, Rename(r)
    PROVE  TypeInv'
<1> USE DEF TypeInv
<1> PICK src, dst : src = req[r].src /\ dst = req[r].dst
  OBVIOUS
<1>1. /\ CanRename(src, dst) /\ IsPlace(src) /\ IsPlace(dst) /\ Len(src) > 1 /\ Len(dst) > 1
      /\ InDocs(dst) \/ IsEntry(dst)
      /\ dirs' = Renamed(src, dst) /\ DOMAIN req' = Request /\ req'[r] = Idle
      /\ Others(r) /\ UNCHANGED <<now, issued, crashes, overlapped>>
  BY RenameEffect
<1>2. RequestsInv'
  BY <1>1, IdleIsRequest, OthersAreRequests
<1>3. PlacesInv'
  BY <1>1, RenamedTree DEF PlacesInv
<1>4. FilesInv'
  <2>1. /\ Kept(src, dst) \subseteq DOMAIN dirs
        /\ DOMAIN dirs' = {Relocated(l, src, dst) : l \in Kept(src, dst)}
        /\ \A l \in Kept(src, dst) : dirs'[Relocated(l, src, dst)] = dirs[l]
    <3>1. /\ Kept(src, dst) \subseteq DOMAIN dirs
          /\ DOMAIN Renamed(src, dst) = {Relocated(l, src, dst) : l \in Kept(src, dst)}
          /\ \A l \in Kept(src, dst) : Renamed(src, dst)[Relocated(l, src, dst)] = dirs[l]
      <4>1. PlacesInv /\ IsPlace(src) /\ IsPlace(dst) /\ CanRename(src, dst)
        BY <1>1
      <4>2. QED
        BY ONLY <4>1, RenamedDirs
    <3>2. dirs' = Renamed(src, dst)
      BY <1>1
    <3>3. QED
      BY <3>1, <3>2
  <2>2. QED
    BY <2>1 DEF FilesInv
<1>5. QED
  BY <1>1, <1>2, <1>3, <1>4 DEF CountersInv

LEMMA RecoverLookType ==
    ASSUME TypeInv, NEW r \in Request, RecoverLook(r)
    PROVE  TypeInv'
<1>1. req[r].kind = "recover" /\ IsRequest(req[r])
  BY DEF RecoverLook, At, TypeInv, RequestsInv
<1>2. IsRequest(Going(r, "mkdir"))
  BY <1>1, GoingIsRequest DEF Operations, Going
<1>3. QED
  BY <1>2, IdleIsRequest, LookType DEF RecoverLook

LEMMA RemoveAloneMkdirEffect ==
    ASSUME TypeInv, NEW r \in Request, RemoveAloneMkdir(r)
    PROVE  LET l == req[r].dst IN
           /\ req[r].kind = "removeAlone" /\ req[r].at = "mkdir" /\ IsRequest(req[r])
           /\ IsEntry(l) /\ IsPlace(l) /\ l \notin DOMAIN dirs
           /\ dirs' = WithDir(l) /\ DOMAIN req' = Request /\ req'[r] = Going(r, "list")
           /\ Others(r) /\ SameFiles(r) /\ UNCHANGED <<now, issued, crashes, overlapped>>
<1> USE DEF TypeInv
<1>1. /\ req[r].kind = "removeAlone" /\ req[r].at = "mkdir" /\ IsRequest(req[r])
      /\ req[r].dst \notin DOMAIN dirs
  BY DEF RemoveAloneMkdir, At, RequestsInv, Exists
<1>2. IsEntry(req[r].dst) /\ IsPlace(req[r].dst)
  BY <1>1 DEF IsRequest, Shape, IsEntry
<1>3. Change(r, Going(r, "list"), WithDir(req[r].dst), Here) /\ UNCHANGED overlapped
  BY DEF RemoveAloneMkdir
<1>4. /\ dirs' = WithDir(req[r].dst) /\ DOMAIN req' = Request /\ req'[r] = Going(r, "list")
      /\ Others(r) /\ SameFiles(r) /\ UNCHANGED <<now, issued, crashes>>
  BY <1>3, HereEffect
<1>5. QED
  BY <1>1, <1>2, <1>3, <1>4

LEMMA RemoveAloneMkdirType ==
    ASSUME TypeInv, NEW r \in Request, RemoveAloneMkdir(r)
    PROVE  TypeInv'
<1> USE DEF TypeInv
<1> PICK l : l = req[r].dst
  OBVIOUS
<1>1. /\ req[r].kind = "removeAlone" /\ IsRequest(req[r]) /\ IsEntry(l) /\ IsPlace(l)
      /\ dirs' = WithDir(l) /\ DOMAIN req' = Request /\ req'[r] = Going(r, "list")
      /\ Others(r) /\ UNCHANGED <<now, issued, crashes, overlapped>>
  BY RemoveAloneMkdirEffect
<1>2. IsRequest(req'[r])
  BY <1>1, GoingIsRequest DEF Operations, Going
<1>3. RequestsInv'
  BY <1>1, <1>2, OthersAreRequests
<1>4. PlacesInv'
  BY <1>1, WithDirTree DEF PlacesInv
<1>5. FilesInv'
  BY <1>1, WithDirFiles DEF FilesInv
<1>6. QED
  BY <1>1, <1>3, <1>4, <1>5 DEF CountersInv

LEMMA RemoveAloneListType ==
    ASSUME TypeInv, NEW r \in Request, RemoveAloneList(r)
    PROVE  TypeInv'
<1> PICK q, e : q = req[r] /\ e = EntriesOf(req[r].src)
  OBVIOUS
<1>1. q.kind = "removeAlone" /\ IsRequest(q)
  BY DEF RemoveAloneList, At, TypeInv, RequestsInv
<1> PICK p : p = [q EXCEPT !.at = "entries", !.entries = e]
  OBVIOUS
<1>2. /\ DOMAIN p = DOMAIN Idle /\ p.kind = q.kind /\ p.at = "entries" /\ p.src = q.src /\ p.dst = q.dst
      /\ p.ms = q.ms /\ p.versioning = q.versioning /\ p.seen = q.seen
      /\ p.entries = e /\ p.listed = q.listed /\ p.id = q.id /\ p.alone = q.alone
  BY <1>1, IdleFields DEF IsRequest, Fields
<1>3. p.versioning \in BOOLEAN /\ p.alone \in BOOLEAN /\ p.id \in Nat /\ p.ms \in Instant
  BY <1>1, <1>2 DEF IsRequest, Fields
<1>4. p.kind = "removeAlone" /\ p.listed = {} /\ p.seen \in Content \cup {Absent}
  BY <1>1, <1>2 DEF IsRequest, Fields
<1>5. p.entries \subseteq {"content", "attachment", "versions"}
  BY <1>2 DEF EntriesOf
<1>6. Fields(p)
  BY <1>2, <1>3, <1>4, <1>5 DEF Fields
<1>7. Shape(p)
  BY <1>1, <1>2, ShapeStays
<1>8. IsRequest(p)
  BY <1>2, <1>4, <1>6, <1>7 DEF IsRequest, Operations, Kind
<1>9. Look(r, Idle) \/ Look(r, p)
  BY DEF RemoveAloneList, Going
<1>10. QED
  BY <1>8, <1>9, IdleIsRequest, LookType

\* Where a file of src or dst is, once content.md of src has replaced that of dst.
MovedFile(l, src, dst) == IF l = src THEN dst ELSE IF l = dst THEN Nowhere ELSE l

LEMMA ContentMoved ==
    ASSUME FilesInv, NEW src \in DOMAIN dirs, NEW dst \in DOMAIN dirs, src # dst
    PROVE  LET new == EntryMoved("content", src, dst) IN
           /\ DOMAIN new = DOMAIN dirs
           /\ \A l \in DOMAIN dirs \ {src, dst} : new[l] = dirs[l]
           /\ DOMAIN new[src] = DOMAIN EmptyDir /\ DOMAIN new[dst] = DOMAIN EmptyDir
           /\ new[dst].content = dirs[src].content /\ new[src].content = Absent
           /\ new[dst].torn = dirs[src].torn /\ new[src].torn \in BOOLEAN /\ ~new[src].torn
           /\ new[dst].attachment = dirs[dst].attachment /\ new[src].attachment = dirs[src].attachment
           /\ new[dst].versions = dirs[dst].versions /\ new[src].versions = dirs[src].versions
<1> PICK new, s, d : new = EntryMoved("content", src, dst) /\ s = dirs[src] /\ d = dirs[dst]
  OBVIOUS
<1>1. /\ DOMAIN s = {"content", "torn", "attachment", "versions"}
      /\ DOMAIN d = {"content", "torn", "attachment", "versions"}
  BY DirectoryFields DEF FilesInv, IsDirectory
<1>2. /\ new[dst] = [d EXCEPT !.content = s.content, !.torn = s.torn]
      /\ new[src] = [s EXCEPT !.content = Absent, !.torn = FALSE]
      /\ DOMAIN new = DOMAIN dirs
      /\ \A l \in DOMAIN dirs \ {src, dst} : new[l] = dirs[l]
  BY DEF EntryMoved
<1>3. QED
  BY <1>1, <1>2, DirectoryFields

LEMMA AttachmentMoved ==
    ASSUME FilesInv, NEW src \in DOMAIN dirs, NEW dst \in DOMAIN dirs, src # dst
    PROVE  LET new == EntryMoved("attachment", src, dst) IN
           /\ DOMAIN new = DOMAIN dirs
           /\ \A l \in DOMAIN dirs \ {src, dst} : new[l] = dirs[l]
           /\ DOMAIN new[src] = DOMAIN EmptyDir /\ DOMAIN new[dst] = DOMAIN EmptyDir
           /\ new[dst].attachment = dirs[src].attachment /\ new[src].attachment = Absent
           /\ new[dst].content = dirs[dst].content /\ new[src].content = dirs[src].content
           /\ new[dst].torn = dirs[dst].torn /\ new[src].torn = dirs[src].torn
           /\ new[dst].versions = dirs[dst].versions /\ new[src].versions = dirs[src].versions
<1> PICK new, s, d : new = EntryMoved("attachment", src, dst) /\ s = dirs[src] /\ d = dirs[dst]
  OBVIOUS
<1>1. /\ DOMAIN s = {"content", "torn", "attachment", "versions"}
      /\ DOMAIN d = {"content", "torn", "attachment", "versions"}
  BY DirectoryFields DEF FilesInv, IsDirectory
<1>2. /\ new[dst] = [d EXCEPT !.attachment = s.attachment]
      /\ new[src] = [s EXCEPT !.attachment = Absent]
      /\ DOMAIN new = DOMAIN dirs
      /\ \A l \in DOMAIN dirs \ {src, dst} : new[l] = dirs[l]
  BY DEF EntryMoved
<1>3. QED
  BY <1>1, <1>2, DirectoryFields

LEMMA VersionsMoved ==
    ASSUME FilesInv, NEW src \in DOMAIN dirs, NEW dst \in DOMAIN dirs, src # dst
    PROVE  LET new == EntryMoved("versions", src, dst) IN
           /\ DOMAIN new = DOMAIN dirs
           /\ \A l \in DOMAIN dirs \ {src, dst} : new[l] = dirs[l]
           /\ DOMAIN new[src] = DOMAIN EmptyDir /\ DOMAIN new[dst] = DOMAIN EmptyDir
           /\ new[dst].versions = dirs[src].versions /\ new[src].versions = Absent
           /\ new[dst].content = dirs[dst].content /\ new[src].content = dirs[src].content
           /\ new[dst].torn = dirs[dst].torn /\ new[src].torn = dirs[src].torn
           /\ new[dst].attachment = dirs[dst].attachment /\ new[src].attachment = dirs[src].attachment
<1> PICK new, s, d : new = EntryMoved("versions", src, dst) /\ s = dirs[src] /\ d = dirs[dst]
  OBVIOUS
<1>1. /\ DOMAIN s = {"content", "torn", "attachment", "versions"}
      /\ DOMAIN d = {"content", "torn", "attachment", "versions"}
  BY DirectoryFields DEF FilesInv, IsDirectory
<1>2. /\ new[dst] = [d EXCEPT !.versions = s.versions]
      /\ new[src] = [s EXCEPT !.versions = Absent]
      /\ DOMAIN new = DOMAIN dirs
      /\ \A l \in DOMAIN dirs \ {src, dst} : new[l] = dirs[l]
  BY DEF EntryMoved
<1>3. QED
  BY <1>1, <1>2, DirectoryFields

LEMMA DocsAreNotEntries ==
    ASSUME NEW src, NEW dst, InDocs(src), IsEntry(dst)
    PROVE  src # dst /\ ~IsPrefix(src, dst) /\ ~IsPrefix(dst, src)
<1>1. /\ src \in Seq(Element) /\ dst \in Seq(Element) /\ src[1] = "docs" /\ dst[1] = "trash"
      /\ src # <<>> /\ dst # <<>>
  BY DEF InDocs, IsEntry, IsPlace
<1>2. 1 \in 1 .. Len(src) /\ 1 \in 1 .. Len(dst)
  BY <1>1
<1>3. QED
  BY <1>1, <1>2, PrefixElements

LEMMA RemoveAloneEntryEffect ==
    ASSUME TypeInv, NEW r \in Request, RemoveAloneEntry(r)
    PROVE  LET src == req[r].src
               dst == req[r].dst
           IN
           /\ req[r].kind = "removeAlone" /\ req[r].at = "entries" /\ IsRequest(req[r])
           /\ InDocs(src) /\ IsEntry(dst) /\ src # dst
           /\ src \in DOMAIN dirs /\ dst \in DOMAIN dirs
           /\ DOMAIN req' = Request /\ Others(r) /\ UNCHANGED <<now, issued, crashes, overlapped>>
           /\ \E e \in req[r].entries :
                 /\ e \in {"content", "attachment", "versions"}
                 /\ CanMoveEntry(e, src, dst) /\ dirs' = EntryMoved(e, src, dst)
                 /\ req'[r] = IF req[r].entries = {e} THEN Idle
                              ELSE [req[r] EXCEPT !.entries = req[r].entries \ {e}]
                 /\ \A x \in Request \ {r} :
                       req'[x].dst = IF req[x].at = "write" /\ e = "content"
                                     THEN MovedFile(req[x].dst, src, dst) ELSE req[x].dst
<1> USE DEF TypeInv
<1> PICK src, dst : src = req[r].src /\ dst = req[r].dst
  OBVIOUS
<1>1. req[r].kind = "removeAlone" /\ req[r].at = "entries" /\ IsRequest(req[r])
  BY DEF RemoveAloneEntry, At, RequestsInv
<1>2. InDocs(src) /\ IsEntry(dst) /\ src # dst
  BY <1>1, DocsAreNotEntries DEF IsRequest, Shape
<1>3. PICK e \in req[r].entries :
          /\ CanMoveEntry(e, src, dst)
          /\ dirs' = EntryMoved(e, src, dst)
          /\ req' = [x \in Request |->
                       IF x = r THEN IF req[r].entries \ {e} = {} THEN Idle
                                     ELSE [req[r] EXCEPT !.entries = req[r].entries \ {e}]
                       ELSE Beside(req[x], EntryMoved(e, src, dst),
                                   IF req[x].at = "write"
                                   THEN IF e # "content" THEN req[x].dst
                                        ELSE IF req[x].dst = src THEN dst
                                        ELSE IF req[x].dst = dst THEN Nowhere ELSE req[x].dst
                                   ELSE req[x].dst)]
          /\ UNCHANGED <<now, issued, crashes, overlapped>>
  BY DEF RemoveAloneEntry, Change
<1>4. e \in {"content", "attachment", "versions"} /\ src \in DOMAIN dirs /\ dst \in DOMAIN dirs
  BY <1>3 DEF CanMoveEntry, EntriesOf, Exists
<1>5. Nowhere # src
  BY <1>2 DEF InDocs, IsPlace, Nowhere
<1>6. ASSUME NEW x \in Request \ {r}
      PROVE  /\ Onward(req[x], req'[x], dirs')
             /\ req'[x].dst = IF req[x].at = "write" /\ e = "content"
                              THEN MovedFile(req[x].dst, src, dst) ELSE req[x].dst
  <2> PICK d : d = IF req[x].at = "write" /\ e = "content"
                   THEN MovedFile(req[x].dst, src, dst) ELSE req[x].dst
    OBVIOUS
  <2>1. IsRequest(req[x])
    BY DEF RequestsInv
  <2>2. req'[x] = Beside(req[x], dirs', d)
    BY <1>3, <1>6 DEF MovedFile
  <2>3. req[x].at # "write" \/ req[x].dst = Nowhere => d = req[x].dst
    BY <1>5 DEF MovedFile
  <2>4. Onward(req[x], req'[x], dirs') /\ req'[x].dst = d
    BY <2>1, <2>2, <2>3, BesideIsOnward
  <2>5. QED
    BY <2>4
<1>7. Others(r)
  BY <1>6 DEF Others
<1>8. /\ DOMAIN req' = Request
      /\ req'[r] = IF req[r].entries = {e} THEN Idle
                   ELSE [req[r] EXCEPT !.entries = req[r].entries \ {e}]
  <2>1. req[r].entries \ {e} = {} <=> req[r].entries = {e}
    BY <1>3
  <2>2. QED
    BY <1>3, <2>1
<1>9. QED
  BY <1>1, <1>2, <1>3, <1>4, <1>6, <1>7, <1>8

LEMMA RemoveAloneEntryType ==
    ASSUME TypeInv, NEW r \in Request, RemoveAloneEntry(r)
    PROVE  TypeInv'
<1> USE DEF TypeInv
<1> PICK src, dst : src = req[r].src /\ dst = req[r].dst
  OBVIOUS
<1> PICK q : q = req[r]
  OBVIOUS
<1>1. /\ q.kind = "removeAlone" /\ q.at = "entries" /\ IsRequest(q) /\ src # dst
      /\ src \in DOMAIN dirs /\ dst \in DOMAIN dirs
      /\ DOMAIN req' = Request /\ Others(r) /\ UNCHANGED <<now, issued, crashes, overlapped>>
  BY RemoveAloneEntryEffect
<1>2. PICK e \in q.entries :
          /\ e \in {"content", "attachment", "versions"}
          /\ dirs' = EntryMoved(e, src, dst)
          /\ req'[r] = IF q.entries = {e} THEN Idle ELSE [q EXCEPT !.entries = q.entries \ {e}]
  BY RemoveAloneEntryEffect
<1>3. IsRequest(req'[r])
  <2> PICK p : p = [q EXCEPT !.entries = q.entries \ {e}]
    OBVIOUS
  <2>1. /\ DOMAIN p = DOMAIN Idle /\ p.kind = q.kind /\ p.at = q.at /\ p.src = q.src /\ p.dst = q.dst
        /\ p.ms = q.ms /\ p.versioning = q.versioning /\ p.seen = q.seen
        /\ p.entries = q.entries \ {e} /\ p.listed = q.listed /\ p.id = q.id /\ p.alone = q.alone
    BY <1>1, IdleFields DEF IsRequest, Fields
  <2>2. p.versioning \in BOOLEAN /\ p.alone \in BOOLEAN /\ p.id \in Nat /\ p.ms \in Instant
    BY <1>1, <2>1 DEF IsRequest, Fields
  <2>3. p.kind = "removeAlone" /\ p.listed = {} /\ p.seen \in Content \cup {Absent}
    BY <1>1, <2>1 DEF IsRequest, Fields
  <2>4. p.entries \subseteq {"content", "attachment", "versions"}
    BY <1>1, <2>1 DEF IsRequest, Fields
  <2>5. Fields(p)
    BY <2>1, <2>2, <2>3, <2>4 DEF Fields
  <2>6. Shape(p)
    BY <1>1, <2>1, ShapeStays
  <2>7. IsRequest(p)
    BY <1>1, <2>1, <2>5, <2>6 DEF IsRequest
  <2>8. QED
    BY <1>2, <2>7, IdleIsRequest
<1>4. RequestsInv'
  BY <1>1, <1>3, OthersAreRequests
<1>5. FilesInv' /\ DOMAIN dirs' = DOMAIN dirs
  <2>1. FilesInv /\ src # dst /\ src \in DOMAIN dirs /\ dst \in DOMAIN dirs
    BY <1>1
  <2>2. e \in {"content", "attachment", "versions"} /\ dirs' = EntryMoved(e, src, dst)
    BY <1>2
  <2>3. IsDirectory(dirs[src]) /\ IsDirectory(dirs[dst])
    BY <2>1 DEF FilesInv
  <2>4. dirs[src].torn \in BOOLEAN /\ dirs[dst].torn \in BOOLEAN
    BY <2>3 DEF IsDirectory
  <2>5. SUFFICES /\ DOMAIN dirs' = DOMAIN dirs
                 /\ \A l \in DOMAIN dirs \ {src, dst} : dirs'[l] = dirs[l]
                 /\ IsDirectory(dirs'[src]) /\ IsDirectory(dirs'[dst])
    BY <2>1 DEF FilesInv
  <2>6. CASE e = "content"
    <3> PICK new : new = EntryMoved("content", src, dst)
      OBVIOUS
    <3>1. /\ DOMAIN new = DOMAIN dirs /\ \A l \in DOMAIN dirs \ {src, dst} : new[l] = dirs[l]
          /\ DOMAIN new[src] = DOMAIN EmptyDir /\ DOMAIN new[dst] = DOMAIN EmptyDir
          /\ new[dst].content = dirs[src].content /\ new[src].content = Absent
          /\ new[dst].attachment = dirs[dst].attachment /\ new[src].attachment = dirs[src].attachment
          /\ new[dst].versions = dirs[dst].versions /\ new[src].versions = dirs[src].versions
      <4>1. /\ DOMAIN new = DOMAIN dirs
            /\ \A l \in DOMAIN dirs \ {src, dst} : new[l] = dirs[l]
            /\ DOMAIN new[src] = DOMAIN EmptyDir /\ DOMAIN new[dst] = DOMAIN EmptyDir
        BY <2>1, ContentMoved
      <4>2. /\ new[dst].content = dirs[src].content /\ new[src].content = Absent
            /\ new[dst].attachment = dirs[dst].attachment /\ new[src].attachment = dirs[src].attachment
            /\ new[dst].versions = dirs[dst].versions /\ new[src].versions = dirs[src].versions
        BY <2>1, ContentMoved
      <4>3. QED
        BY <2>1, <4>1, <4>2
    <3>2. new[dst].torn \in BOOLEAN /\ new[src].torn \in BOOLEAN
      BY <2>1, <2>4, ContentMoved
    <3>3. IsDirectory(new[src]) /\ IsDirectory(new[dst])
      BY <2>3, <3>1, <3>2 DEF IsDirectory
    <3>4. QED
      BY <2>2, <2>6, <3>1, <3>3
  <2>7. CASE e = "attachment"
    <3> PICK new : new = EntryMoved("attachment", src, dst)
      OBVIOUS
    <3>1. /\ DOMAIN new = DOMAIN dirs /\ \A l \in DOMAIN dirs \ {src, dst} : new[l] = dirs[l]
          /\ DOMAIN new[src] = DOMAIN EmptyDir /\ DOMAIN new[dst] = DOMAIN EmptyDir
          /\ new[dst].content = dirs[dst].content /\ new[src].content = dirs[src].content
          /\ new[dst].attachment = dirs[src].attachment /\ new[src].attachment = Absent
          /\ new[dst].versions = dirs[dst].versions /\ new[src].versions = dirs[src].versions
      BY <2>1, AttachmentMoved
    <3>2. new[dst].torn \in BOOLEAN /\ new[src].torn \in BOOLEAN
      BY <2>1, <2>4, AttachmentMoved
    <3>3. IsDirectory(new[src]) /\ IsDirectory(new[dst])
      BY <2>3, <3>1, <3>2 DEF IsDirectory
    <3>4. QED
      BY <2>2, <2>7, <3>1, <3>3
  <2>8. CASE e = "versions"
    <3> PICK new : new = EntryMoved("versions", src, dst)
      OBVIOUS
    <3>1. /\ DOMAIN new = DOMAIN dirs /\ \A l \in DOMAIN dirs \ {src, dst} : new[l] = dirs[l]
          /\ DOMAIN new[src] = DOMAIN EmptyDir /\ DOMAIN new[dst] = DOMAIN EmptyDir
          /\ new[dst].content = dirs[dst].content /\ new[src].content = dirs[src].content
          /\ new[dst].attachment = dirs[dst].attachment /\ new[src].attachment = dirs[src].attachment
          /\ new[dst].versions = dirs[src].versions /\ new[src].versions = Absent
      BY <2>1, VersionsMoved
    <3>2. new[dst].torn \in BOOLEAN /\ new[src].torn \in BOOLEAN
      BY <2>1, <2>4, VersionsMoved
    <3>3. IsDirectory(new[src]) /\ IsDirectory(new[dst])
      BY <2>3, <3>1, <3>2 DEF IsDirectory
    <3>4. QED
      BY <2>2, <2>8, <3>1, <3>3
  <2>9. QED
    BY <2>2, <2>6, <2>7, <2>8
<1>6. QED
  BY <1>1, <1>4, <1>5 DEF PlacesInv, CountersInv

LEMMA PurgeFindType ==
    ASSUME TypeInv, NEW r \in Request, PurgeFind(r)
    PROVE  TypeInv'
<1>1. IsRequest(req[r]) /\ req[r].kind = "purge"
  BY DEF PurgeFind, At, TypeInv, RequestsInv
<1>2. IsRequest(Going(r, "rm"))
  <2>1. "rm" \in Operations["purge"]
    BY DEF Operations
  <2>2. QED
    BY <1>1, <2>1, GoingIsRequest DEF Going
<1>3. QED
  BY <1>2, LookType DEF PurgeFind

LEMMA PurgeOneEffect ==
    ASSUME TypeInv, NEW r \in Request, PurgeOne(r)
    PROVE  /\ req[r].kind = "purge" /\ req[r].at = "rm" /\ IsRequest(req[r])
           /\ IsEntry(req[r].src)
           /\ \E l \in DOMAIN dirs :
                 /\ IsPrefix(req[r].src, l) /\ Len(l) > 1 /\ l[1] = "trash"
                 /\ \A m \in DOMAIN dirs : ~IsStrictPrefix(l, m)
                 /\ DOMAIN dirs' = DOMAIN dirs \ {l}
                 /\ \A m \in DOMAIN dirs \ {l} : dirs'[m] = dirs[m]
                 /\ \A x \in Request \ {r} :
                       req'[x].dst = IF req[x].at = "write" /\ req[x].dst = l THEN Nowhere
                                     ELSE req[x].dst
           /\ DOMAIN req' = Request /\ req'[r] \in {req[r], Idle}
           /\ Others(r) /\ UNCHANGED <<now, issued, crashes, overlapped>>
<1> USE DEF TypeInv
<1>1. req[r].kind = "purge" /\ req[r].at = "rm" /\ IsRequest(req[r])
  BY DEF PurgeOne, At, RequestsInv
<1>2. IsEntry(req[r].src)
  BY <1>1 DEF IsRequest, Shape
<1>3. PICK l \in DOMAIN dirs :
          /\ IsPrefix(req[r].src, l)
          /\ \A m \in DOMAIN dirs : ~IsStrictPrefix(l, m)
          /\ dirs' = Restrict(dirs, DOMAIN dirs \ {l})
          /\ req' = [x \in Request |->
                       IF x = r THEN IF l = req[r].src THEN Idle ELSE req[r]
                       ELSE Beside(req[x], Restrict(dirs, DOMAIN dirs \ {l}),
                                   IF req[x].at = "write"
                                   THEN IF req[x].dst = l THEN Nowhere ELSE req[x].dst
                                   ELSE req[x].dst)]
          /\ UNCHANGED <<now, issued, crashes, overlapped>>
  BY DEF PurgeOne, Change
<1>4. Len(l) > 1 /\ l[1] = "trash"
  <2>1. l \in Seq(Element) /\ req[r].src \in Seq(Element) /\ Len(req[r].src) = 2 /\ req[r].src[1] = "trash"
    BY <1>2 DEF IsEntry, IsPlace, PlacesInv, IsTree
  <2>2. Len(req[r].src) <= Len(l) /\ \A i \in 1 .. Len(req[r].src) : req[r].src[i] = l[i]
    BY <1>3, <2>1, PrefixElements
  <2>3. QED
    BY <2>1, <2>2
<1>5. DOMAIN dirs' = DOMAIN dirs \ {l} /\ \A m \in DOMAIN dirs \ {l} : dirs'[m] = dirs[m]
  BY <1>3 DEF Restrict
<1>6. ASSUME NEW x \in Request \ {r}
      PROVE  /\ Onward(req[x], req'[x], dirs')
             /\ req'[x].dst = IF req[x].at = "write" /\ req[x].dst = l THEN Nowhere ELSE req[x].dst
  <2> PICK d : d = IF req[x].at = "write" /\ req[x].dst = l THEN Nowhere ELSE req[x].dst
    OBVIOUS
  <2>1. IsRequest(req[x])
    BY DEF RequestsInv
  <2>2. req'[x] = Beside(req[x], dirs', d)
    BY <1>3, <1>6
  <2>3. req[x].at # "write" \/ req[x].dst = Nowhere => d = req[x].dst
    OBVIOUS
  <2>4. Onward(req[x], req'[x], dirs') /\ req'[x].dst = d
    BY <2>1, <2>2, <2>3, BesideIsOnward
  <2>5. QED
    BY <2>4
<1>7. Others(r)
  BY <1>6 DEF Others
<1>8. DOMAIN req' = Request /\ req'[r] \in {req[r], Idle}
  BY <1>3
<1>9. QED
  BY <1>1, <1>2, <1>3, <1>4, <1>5, <1>6, <1>7, <1>8

LEMMA PurgeOneType ==
    ASSUME TypeInv, NEW r \in Request, PurgeOne(r)
    PROVE  TypeInv'
<1> USE DEF TypeInv
<1>1. /\ IsRequest(req[r]) /\ DOMAIN req' = Request /\ req'[r] \in {req[r], Idle}
      /\ Others(r) /\ UNCHANGED <<now, issued, crashes, overlapped>>
  BY PurgeOneEffect
<1>2. PICK l \in DOMAIN dirs :
          /\ Len(l) > 1 /\ \A m \in DOMAIN dirs : ~IsStrictPrefix(l, m)
          /\ DOMAIN dirs' = DOMAIN dirs \ {l}
          /\ \A m \in DOMAIN dirs \ {l} : dirs'[m] = dirs[m]
  BY PurgeOneEffect
<1>3. RequestsInv'
  BY <1>1, IdleIsRequest, OthersAreRequests
<1>4. PlacesInv'
  BY <1>2, WithoutLeafTree DEF PlacesInv
<1>5. FilesInv'
  BY <1>2 DEF FilesInv
<1>6. QED
  BY <1>1, <1>3, <1>4, <1>5 DEF CountersInv

LEMMA PurgeEndsType ==
    ASSUME TypeInv, NEW r \in Request, PurgeEnds(r)
    PROVE  TypeInv'
BY IdleIsRequest, LookType DEF PurgeEnds

LEMMA RemoveVersionEffect ==
    ASSUME TypeInv, NEW r \in Request, RemoveVersion(r)
    PROVE  \E p \in Path :
              LET l == Docs(p)
                  versions == VersionsOf(dirs[l])
              IN
              /\ l \in DOMAIN dirs
              /\ \E ms \in DOMAIN versions :
                    dirs' = [dirs EXCEPT ![l] = [dirs[l] EXCEPT
                                 !.versions = [m \in DOMAIN versions \ {ms} |-> versions[m]]]]
              /\ DOMAIN req' = Request
              /\ req[r] = Idle /\ req'[r] = Idle /\ Others(r) /\ SameFiles(r)
              /\ issued' = issued + 1 /\ issued' \in 0 .. MaxRequests
              /\ UNCHANGED <<now, crashes, overlapped>>
<1> USE DEF TypeInv
<1>1. PICK p \in Path :
          /\ req[r] = Idle /\ issued < MaxRequests
          /\ Exists(Docs(p))
          /\ \E ms \in DOMAIN VersionsOf(dirs[Docs(p)]) :
                /\ dirs' = With(Docs(p), "versions",
                                Restrict(VersionsOf(dirs[Docs(p)]),
                                         DOMAIN VersionsOf(dirs[Docs(p)]) \ {ms}))
                /\ req' = [x \in Request |-> Beside(req[x], dirs', req[x].dst)]
          /\ issued' = issued + 1
          /\ UNCHANGED <<now, crashes, overlapped>>
  BY DEF RemoveVersion
<1> PICK l, versions : l = Docs(p) /\ versions = VersionsOf(dirs[l])
  OBVIOUS
<1>2. PICK ms \in DOMAIN versions :
          dirs' = With(l, "versions", Restrict(versions, DOMAIN versions \ {ms}))
  BY <1>1
<1>3. dirs' = [dirs EXCEPT ![l] = [dirs[l] EXCEPT
                   !.versions = [m \in DOMAIN versions \ {ms} |-> versions[m]]]]
  BY <1>1, <1>2 DEF With, Restrict, Exists
<1>4. req' = [x \in Request |-> Beside(req[x], dirs', req[x].dst)]
  BY <1>1
<1>5. ASSUME NEW x \in Request
      PROVE  Onward(req[x], req'[x], dirs') /\ req'[x].dst = req[x].dst
  <2>1. IsRequest(req[x])
    BY DEF RequestsInv
  <2>2. req'[x] = Beside(req[x], dirs', req[x].dst)
    BY <1>4
  <2>3. QED
    BY <2>1, <2>2, BesideIsOnward
<1>6. Others(r) /\ SameFiles(r)
  BY <1>5 DEF Others, SameFiles
<1>7. req'[r] = Idle
  BY <1>1, <1>4 DEF Beside
<1>8. MaxRequests \in Nat /\ issued \in Nat
  BY DocumentStoreAssumption DEF CountersInv
<1>9. issued' \in 0 .. MaxRequests
  BY <1>1, <1>8
<1>10. l \in DOMAIN dirs /\ DOMAIN req' = Request
  BY <1>1, <1>4 DEF Exists
<1>11. QED
  BY <1>1, <1>3, <1>6, <1>7, <1>9, <1>10

LEMMA RemoveVersionType ==
    ASSUME TypeInv, NEW r \in Request, RemoveVersion(r)
    PROVE  TypeInv'
<1> USE DEF TypeInv
<1>1. PICK p \in Path :
          /\ Docs(p) \in DOMAIN dirs
          /\ \E ms \in DOMAIN VersionsOf(dirs[Docs(p)]) :
                dirs' = [dirs EXCEPT ![Docs(p)] = [dirs[Docs(p)] EXCEPT
                             !.versions = [m \in DOMAIN VersionsOf(dirs[Docs(p)]) \ {ms} |->
                                             VersionsOf(dirs[Docs(p)])[m]]]]
          /\ DOMAIN req' = Request /\ req'[r] = Idle /\ Others(r)
          /\ issued' \in 0 .. MaxRequests
          /\ UNCHANGED <<now, crashes, overlapped>>
  BY RemoveVersionEffect
<1> PICK l, versions : l = Docs(p) /\ versions = VersionsOf(dirs[l])
  OBVIOUS
<1>2. PICK ms : dirs' = [dirs EXCEPT ![l] = [dirs[l] EXCEPT
                             !.versions = [m \in DOMAIN versions \ {ms} |-> versions[m]]]]
  BY <1>1
<1> PICK v : v = [m \in DOMAIN versions \ {ms} |-> versions[m]]
  OBVIOUS
<1>3. DOMAIN v \subseteq Instant /\ v \in [DOMAIN v -> Content]
  <2>1. DOMAIN versions \subseteq Instant /\ versions \in [DOMAIN versions -> Content]
    BY <1>1, VersionsAreContents DEF FilesInv
  <2>2. QED
    BY <2>1
<1>4. IsDirectory([dirs[l] EXCEPT !.versions = v])
  BY <1>1, <1>3, DirectoryUpdates DEF FilesInv
<1>5. FilesInv' /\ DOMAIN dirs' = DOMAIN dirs
  BY <1>1, <1>2, <1>4, UpdatedDirs
<1>6. RequestsInv'
  BY <1>1, IdleIsRequest, OthersAreRequests
<1>7. QED
  BY <1>1, <1>5, <1>6 DEF PlacesInv, CountersInv

\* The uploads and the deletions of attachments.
LEMMA AttachmentEffect ==
    ASSUME TypeInv, NEW r \in Request, Upload(r) \/ Detach(r)
    PROVE  LET l == req[r].src IN
           /\ l \in DOMAIN dirs /\ IsRequest(req[r]) /\ req[r].kind \in {"upload", "detach"}
           /\ \E a \in {Attached, Absent} : dirs' = [dirs EXCEPT ![l] = [dirs[l] EXCEPT !.attachment = a]]
           /\ DOMAIN req' = Request /\ req'[r] = Idle
           /\ Others(r) /\ SameFiles(r) /\ UNCHANGED <<now, issued, crashes, overlapped>>
<1> USE DEF TypeInv
<1> PICK l : l = req[r].src
  OBVIOUS
<1>1. IsRequest(req[r]) /\ req[r].kind \in {"upload", "detach"} /\ l \in DOMAIN dirs
  BY DEF Upload, Detach, At, RequestsInv, HasAttachment, Exists
<1>3. PICK a \in {Attached, Absent} : Change(r, Idle, With(l, "attachment", a), Here) /\ UNCHANGED overlapped
  BY DEF Upload, Detach
<1>4. /\ dirs' = With(l, "attachment", a)
      /\ DOMAIN req' = Request /\ req'[r] = Idle
      /\ Others(r) /\ SameFiles(r) /\ UNCHANGED <<now, issued, crashes>>
  BY <1>3, HereEffect
<1>5. dirs' = [dirs EXCEPT ![l] = [dirs[l] EXCEPT !.attachment = a]]
  BY <1>1, <1>4 DEF With
<1>6. QED
  BY <1>1, <1>3, <1>4, <1>5

LEMMA AttachmentType ==
    ASSUME TypeInv, NEW r \in Request, Upload(r) \/ Detach(r)
    PROVE  TypeInv'
<1> USE DEF TypeInv
<1> PICK l : l = req[r].src
  OBVIOUS
<1>1. /\ l \in DOMAIN dirs
      /\ \E a \in {Attached, Absent} : dirs' = [dirs EXCEPT ![l] = [dirs[l] EXCEPT !.attachment = a]]
      /\ DOMAIN req' = Request /\ req'[r] = Idle
      /\ Others(r) /\ UNCHANGED <<now, issued, crashes, overlapped>>
  BY AttachmentEffect
<1>2. PICK a \in {Attached, Absent} : dirs' = [dirs EXCEPT ![l] = [dirs[l] EXCEPT !.attachment = a]]
  BY <1>1
<1>3. IsDirectory([dirs[l] EXCEPT !.attachment = a])
  BY <1>1, DirectoryUpdates DEF FilesInv
<1>4. FilesInv' /\ DOMAIN dirs' = DOMAIN dirs
  BY <1>1, <1>2, <1>3, UpdatedDirs
<1>5. RequestsInv'
  BY <1>1, IdleIsRequest, OthersAreRequests
<1>6. QED
  BY <1>1, <1>4, <1>5 DEF PlacesInv, CountersInv

----------------------------------------------------------------------------
(* Requests that only read.                                                *)

IsListing(listed) == \A e \in listed : e[2] \in {"check", "read"}

LEMMA ReadingIsRequest ==
    ASSUME NEW q, IsRequest(q), q.kind \in {"retrieve", "tree", "trash"},
           NEW at \in Operations[q.kind], NEW listed, IsListing(listed)
    PROVE  IsRequest([q EXCEPT !.at = at, !.listed = listed])
<1> PICK p : p = [q EXCEPT !.at = at, !.listed = listed]
  OBVIOUS
<1>1. /\ DOMAIN p = DOMAIN Idle /\ p.kind = q.kind /\ p.at = at /\ p.src = q.src /\ p.dst = q.dst
      /\ p.ms = q.ms /\ p.versioning = q.versioning /\ p.seen = q.seen
      /\ p.entries = q.entries /\ p.listed = listed /\ p.id = q.id /\ p.alone = q.alone
  BY IdleFields DEF IsRequest, Fields
<1>2. p.versioning \in BOOLEAN /\ p.alone \in BOOLEAN /\ p.id \in Nat /\ p.ms \in Instant
  BY <1>1 DEF IsRequest, Fields
<1>3. p.entries = {} /\ p.seen \in Content \cup {Absent} /\ p.kind # "idle"
  BY <1>1 DEF IsRequest, Fields
<1>4. Fields(p)
  BY <1>1, <1>2, <1>3 DEF Fields, IsListing
<1>5. Shape(p)
  BY <1>1, ShapeStays
<1>6. QED
  BY <1>1, <1>4, <1>5 DEF IsRequest

LEMMA DescribedIsRequest ==
    ASSUME NEW q, IsRequest(q), q.kind \in {"retrieve", "tree", "trash"}
    PROVE  IsRequest(Described(q))
<1>1. CASE q.listed # {} \/ q.at \notin {"metadata", "describe"}
  <2>1. Described(q) = q
    BY <1>1 DEF Described
  <2>2. QED
    BY <2>1
<1>2. CASE q.listed = {} /\ q.at = "metadata"
  <2>1. Described(q) = [q EXCEPT !.at = "list"]
    BY <1>2 DEF Described
  <2>2. "list" \in Operations[q.kind]
    BY DEF Operations
  <2>3. QED
    BY <2>1, <2>2, GoingIsRequest
<1>3. CASE q.listed = {} /\ q.at = "describe"
  <2>1. Described(q) = IF q.kind = "retrieve" THEN [q EXCEPT !.at = "attachments"] ELSE Idle
    BY <1>3 DEF Described
  <2>2. CASE q.kind = "retrieve"
    <3>1. "attachments" \in Operations[q.kind]
      BY <2>2 DEF Operations
    <3>2. QED
      BY <2>1, <2>2, <3>1, GoingIsRequest
  <2>3. CASE q.kind # "retrieve"
    BY <2>1, <2>3, IdleIsRequest
  <2>4. QED
    BY <2>2, <2>3
<1>4. QED
  BY <1>1, <1>2, <1>3

LEMMA ListType ==
    ASSUME TypeInv, NEW r \in Request, List(r)
    PROVE  TypeInv'
<1> PICK q : q = req[r]
  OBVIOUS
<1>1. IsRequest(q) /\ q.kind \in {"retrieve", "tree", "trash"}
  BY DEF List, TypeInv, RequestsInv
<1> PICK listed : listed = q.listed \cup {<<l, "check">> : l \in Children(q.src)}
  OBVIOUS
<1> PICK p : p = [q EXCEPT !.at = "describe", !.listed = listed]
  OBVIOUS
<1>2. Look(r, Described(p))
  BY <1>1 DEF List, IsRequest, Fields
<1>3. IsListing(listed)
  BY <1>1 DEF IsRequest, Fields, IsListing
<1>4. "describe" \in Operations[q.kind]
  BY <1>1 DEF Operations
<1>5. IsRequest(p)
  BY <1>1, <1>3, <1>4, ReadingIsRequest
<1>6. p.kind = q.kind
  BY <1>1, IdleFields DEF IsRequest, Fields
<1>7. QED
  BY <1>1, <1>2, <1>5, <1>6, DescribedIsRequest, LookType

LEMMA DescribeEffect ==
    ASSUME TypeInv, NEW r \in Request, Describe(r)
    PROVE  /\ IsRequest(req[r]) /\ req[r].kind \in {"retrieve", "tree", "trash"}
           /\ \E listed :
                 /\ \A e \in listed : /\ e[2] \in {"check", "read"}
                                      /\ \/ e \in req[r].listed
                                         \/ e[2] = "read" /\ HasFile(e[1])
                 /\ Look(r, Described([req[r] EXCEPT !.listed = listed]))
<1> PICK q : q = req[r]
  OBVIOUS
<1>1. IsRequest(q)
  BY DEF TypeInv, RequestsInv
<1>2. q.listed # {}
  BY DEF Describe
<1>3. q.kind \in {"retrieve", "tree", "trash"}
  BY <1>1, <1>2 DEF IsRequest, Fields
<1>4. PICK e \in q.listed :
          \/ /\ e[2] = "check"
             /\ Look(r, Described([q EXCEPT !.listed = IF HasFile(e[1])
                                                       THEN (q.listed \ {e}) \cup {<<e[1], "read">>}
                                                       ELSE q.listed \ {e}]))
          \/ /\ e[2] = "read" /\ HasFile(e[1])
             /\ Look(r, Described([q EXCEPT !.listed = q.listed \ {e}]))
  BY DEF Describe
<1>5. \A f \in q.listed : f[2] \in {"check", "read"}
  BY <1>1 DEF IsRequest, Fields
<1>6. PICK listed : /\ \/ listed = q.listed \ {e}
                       \/ listed = (q.listed \ {e}) \cup {<<e[1], "read">>} /\ HasFile(e[1])
                    /\ Look(r, Described([q EXCEPT !.listed = listed]))
  BY <1>4
<1>7. \A f \in listed : /\ f[2] \in {"check", "read"}
                        /\ \/ f \in q.listed
                           \/ f[2] = "read" /\ HasFile(f[1])
  <2> PICK g : g = <<e[1], "read">>
    OBVIOUS
  <2>1. g[1] = e[1] /\ g[2] = "read"
    OBVIOUS
  <2>2. \/ listed = q.listed \ {e}
        \/ listed = (q.listed \ {e}) \cup {g} /\ HasFile(g[1])
    BY <1>6, <2>1
  <2>3. ASSUME NEW f \in listed
        PROVE  /\ f[2] \in {"check", "read"}
               /\ \/ f \in q.listed
                  \/ f[2] = "read" /\ HasFile(f[1])
    <3>1. CASE f \in q.listed
      BY <1>5, <3>1
    <3>2. CASE f \notin q.listed
      <4>1. f = g /\ HasFile(g[1])
        BY <2>2, <2>3, <3>2
      <4>2. QED
        BY <2>1, <4>1
    <3>3. QED
      BY <3>1, <3>2
  <2>4. QED
    BY <2>3
<1>8. QED
  BY <1>1, <1>3, <1>6, <1>7

LEMMA DescribeType ==
    ASSUME TypeInv, NEW r \in Request, Describe(r)
    PROVE  TypeInv'
<1> PICK q : q = req[r]
  OBVIOUS
<1>1. IsRequest(q) /\ q.kind \in {"retrieve", "tree", "trash"}
  BY DescribeEffect
<1>2. PICK listed : IsListing(listed) /\ Look(r, Described([q EXCEPT !.listed = listed]))
  BY DescribeEffect DEF IsListing
<1> PICK p : p = [q EXCEPT !.at = q.at, !.listed = listed]
  OBVIOUS
<1>3. p = [q EXCEPT !.listed = listed]
  BY <1>1, IdleFields DEF IsRequest, Fields
<1>4. q.at \in Operations[q.kind]
  BY <1>1 DEF IsRequest
<1>5. IsRequest(p)
  BY <1>1, <1>2, <1>4, ReadingIsRequest
<1>6. p.kind = q.kind
  BY <1>1, IdleFields DEF IsRequest, Fields
<1>7. QED
  BY <1>1, <1>2, <1>3, <1>5, <1>6, DescribedIsRequest, LookType

LEMMA RetrieveType ==
    ASSUME TypeInv, NEW r \in Request, RetrieveAttachments(r) \/ RetrieveVersions(r) \/ RetrieveRead(r)
    PROVE  TypeInv'
<1>1. IsRequest(req[r]) /\ req[r].kind = "retrieve"
  BY DEF RetrieveAttachments, RetrieveVersions, RetrieveRead, At, TypeInv, RequestsInv
<1>2. IsRequest(Going(r, "versions")) /\ IsRequest(Going(r, "read"))
  <2>1. "versions" \in Operations["retrieve"] /\ "read" \in Operations["retrieve"]
    BY DEF Operations
  <2>2. QED
    BY <1>1, <2>1, GoingIsRequest DEF Going
<1>3. Look(r, Going(r, "versions")) \/ Look(r, Going(r, "read")) \/ Look(r, Idle)
  BY DEF RetrieveAttachments, RetrieveVersions, RetrieveRead
<1>4. QED
  BY <1>2, <1>3, IdleIsRequest, LookType

LEMMA FailType ==
    ASSUME TypeInv, NEW r \in Request, Fail(r)
    PROVE  TypeInv'
BY IdleIsRequest, LookType DEF Fail

LEMMA TickType ==
    ASSUME TypeInv, Tick
    PROVE  TypeInv'
<1>1. MaxNow \in Nat /\ UNCHANGED <<dirs, req, issued, crashes, overlapped>> /\ now' = now + 1 /\ now < MaxNow
  BY DocumentStoreAssumption DEF Tick
<1>2. CountersInv'
  BY <1>1 DEF TypeInv, CountersInv
<1>3. QED
  BY <1>1, <1>2 DEF TypeInv, PlacesInv, FilesInv, RequestsInv

\* A crash changes no file but the versions that were being copied.
LEMMA CrashEffect ==
    ASSUME TypeInv, Crash
    PROVE  /\ DOMAIN dirs' = DOMAIN dirs /\ FilesInv'
           /\ \A l \in DOMAIN dirs :
                 /\ dirs'[l].content = dirs[l].content /\ dirs'[l].torn = dirs[l].torn
                 /\ \A ms \in DOMAIN VersionsOf(dirs[l]) :
                       \/ /\ ms \in DOMAIN VersionsOf(dirs'[l])
                          /\ VersionsOf(dirs'[l])[ms] = VersionsOf(dirs[l])[ms]
                       \/ \E r \in Copying : req[r].src = l /\ req[r].ms = ms
           /\ req' = [r \in Request |-> Idle] /\ crashes' = crashes + 1 /\ crashes' \in 0 .. MaxCrashes
           /\ UNCHANGED <<now, issued, overlapped>>
<1> USE DEF TypeInv
<1>1. /\ MaxCrashes \in Nat /\ UNCHANGED <<now, issued, overlapped>> /\ crashes' = crashes + 1
      /\ crashes < MaxCrashes /\ req' = [r \in Request |-> Idle]
      /\ \E copying \in SUBSET Copying : dirs' = CutOff(copying)
  BY DocumentStoreAssumption DEF Crash
<1>2. PICK copying \in SUBSET Copying : dirs' = CutOff(copying)
  BY <1>1
<1> DEFINE cut(l) == {req[r].ms : r \in {x \in copying : req[x].src = l}}
           w(l) == VersionsOf(dirs[l])
           v(l) == [ms \in DOMAIN w(l) \cup cut(l) |-> IF ms \in cut(l) THEN Damaged ELSE w(l)[ms]]
<1>3. /\ DOMAIN dirs' = DOMAIN dirs
      /\ \A l \in DOMAIN dirs :
            dirs'[l] = IF cut(l) = {} THEN dirs[l] ELSE [dirs[l] EXCEPT !.versions = v(l)]
  BY <1>2 DEF CutOff
<1>4. ASSUME NEW l \in DOMAIN dirs
      PROVE  /\ IsDirectory(dirs'[l])
             /\ dirs'[l].content = dirs[l].content /\ dirs'[l].torn = dirs[l].torn
             /\ \A ms \in DOMAIN w(l) :
                   \/ ms \in DOMAIN VersionsOf(dirs'[l]) /\ VersionsOf(dirs'[l])[ms] = w(l)[ms]
                   \/ \E r \in Copying : req[r].src = l /\ req[r].ms = ms
  <2>1. IsDirectory(dirs[l]) /\ DOMAIN dirs[l] = {"content", "torn", "attachment", "versions"}
    BY DirectoryFields DEF FilesInv, IsDirectory
  <2>2. CASE cut(l) = {}
    <3>1. dirs'[l] = dirs[l]
      BY <1>3, <2>2
    <3>2. QED
      BY <2>1, <3>1
  <2>3. CASE cut(l) # {}
    <3>1. PICK u : u = v(l)
      OBVIOUS
    <3>2. dirs'[l] = [dirs[l] EXCEPT !.versions = u]
      BY <1>3, <2>3, <3>1
    <3>3. DOMAIN w(l) \subseteq Instant /\ w(l) \in [DOMAIN w(l) -> Content]
      BY <2>1, VersionsAreContents
    <3>4. cut(l) \subseteq Instant
      <4>1. ASSUME NEW r \in Request PROVE req[r].ms \in Instant
        BY DEF RequestsInv, IsRequest, Fields
      <4>2. copying \subseteq Request
        BY DEF Copying
      <4>3. QED
        BY <4>1, <4>2
    <3>5. /\ DOMAIN u = DOMAIN w(l) \cup cut(l) /\ Damaged \in Content
          /\ \A ms \in DOMAIN u : u[ms] = IF ms \in cut(l) THEN Damaged ELSE w(l)[ms]
      BY <3>1 DEF Content
    <3>6. DOMAIN u \subseteq Instant /\ u \in [DOMAIN u -> Content]
      <4>1. u = [ms \in DOMAIN u |-> u[ms]]
        BY <3>1
      <4>2. \A ms \in DOMAIN u : u[ms] \in Content
        BY <3>3, <3>5
      <4>3. QED
        BY <3>3, <3>4, <3>5, <4>1, <4>2
    <3>7. IsDirectory(dirs'[l])
      <4>1. IsDirectory([dirs[l] EXCEPT !.versions = u])
        BY <2>1, <3>6, DirectoryUpdates
      <4>2. QED
        BY <3>2, <4>1
    <3>8. u # Absent
      BY <3>6, DocumentStoreAssumption
    <3>9. /\ dirs'[l].content = dirs[l].content /\ dirs'[l].torn = dirs[l].torn
          /\ VersionsOf(dirs'[l]) = u
      BY <2>1, <3>2, <3>8 DEF VersionsOf
    <3>10. ASSUME NEW ms \in DOMAIN w(l), ms \in cut(l)
           PROVE  \E r \in Copying : req[r].src = l /\ req[r].ms = ms
      BY <3>10
    <3>11. QED
      BY <3>5, <3>7, <3>9, <3>10
  <2>4. QED
    BY <2>2, <2>3
<1>5. FilesInv'
  BY <1>3, <1>4 DEF FilesInv
<1>6. crashes' \in 0 .. MaxCrashes
  BY <1>1 DEF CountersInv
<1>7. QED
  BY <1>1, <1>3, <1>4, <1>5, <1>6

LEMMA CrashType ==
    ASSUME TypeInv, Crash
    PROVE  TypeInv'
<1>1. /\ UNCHANGED <<now, issued, overlapped>> /\ crashes' \in 0 .. MaxCrashes
      /\ req' = [r \in Request |-> Idle]
      /\ DOMAIN dirs' = DOMAIN dirs /\ FilesInv'
  BY CrashEffect
<1>2. CountersInv'
  BY <1>1 DEF TypeInv, CountersInv
<1>3. RequestsInv'
  BY <1>1, IdleIsRequest DEF RequestsInv
<1>4. QED
  BY <1>1, <1>2, <1>3 DEF TypeInv, PlacesInv

LEMMA BeginType ==
    ASSUME TypeInv, NEW r \in Request, Beginning(r)
    PROVE  TypeInv'
<1>1. (\E q : Begin(r, q)) /\ IsRequest(req'[r])
  BY BeginTypes
<1>2. /\ dirs' = dirs /\ DOMAIN req' = Request
      /\ \A x \in Request \ {r} : req'[x] = req[x]
      /\ issued' \in 0 .. MaxRequests
      /\ UNCHANGED <<now, crashes, overlapped>>
  BY <1>1, BeginEffect
<1>3. RequestsInv'
  BY <1>1, <1>2, AloneRequests DEF TypeInv
<1>4. QED
  BY <1>2, <1>3 DEF TypeInv, PlacesInv, FilesInv, CountersInv

----------------------------------------------------------------------------
(* Type correctness.                                                       *)

LEMMA LocationsArePlaces ==
    ASSUME NEW l, IsLocation(l)
    PROVE  IsPlace(l) /\ (Len(l) = 2 /\ l[1] = "trash" => IsEntry(l))
<1>1. CASE l # <<>> /\ l = <<"docs">> \o Tail(l) /\ Tail(l) \in Seq(Name)
  <2> PICK t : t = Tail(l)
    OBVIOUS
  <2>1. t \in Seq(Element) /\ <<"docs">> \in Seq(Element)
    BY <1>1 DEF Element
  <2>2. <<"docs">> \o t \in Seq(Element) /\ (<<"docs">> \o t)[1] = "docs"
    BY <2>1
  <2>3. l \in Seq(Element) /\ l # <<>> /\ l[1] = "docs"
    BY <1>1, <2>2
  <2>4. QED
    BY <2>3 DEF IsPlace
<1>2. CASE l = <<"trash">>
  <2>1. <<"trash">> \in Seq(Element) /\ Len(<<"trash">>) = 1 /\ <<"trash">> # <<>>
    BY DEF Element
  <2>2. QED
    BY <1>2, <2>1 DEF IsPlace
<1>3. CASE /\ Len(l) > 1
           /\ l = <<"trash", l[2]>> \o SubSeq(l, 3, Len(l))
           /\ l[2] \in Instant \X Name /\ SubSeq(l, 3, Len(l)) \in Seq(Name)
  <2> PICK t, e : t = SubSeq(l, 3, Len(l)) /\ e = l[2]
    OBVIOUS
  <2>1. t \in Seq(Element) /\ <<"trash", e>> \in Seq(Element)
    BY <1>3 DEF Element
  <2>2. /\ <<"trash", e>> \o t \in Seq(Element)
        /\ (<<"trash", e>> \o t)[1] = "trash" /\ (<<"trash", e>> \o t)[2] = e
        /\ Len(<<"trash", e>> \o t) = 2 + Len(t) /\ Len(t) \in Nat
    BY <2>1
  <2>3. l = <<"trash", e>> \o t /\ e \in Instant \X Name
    BY <1>3
  <2>4. l \in Seq(Element) /\ l # <<>> /\ l[1] = "trash" /\ l[2] \in Instant \X Name
    BY <2>2, <2>3
  <2>5. QED
    BY <2>4 DEF IsPlace, IsEntry
<1>4. QED
  BY <1>1, <1>2, <1>3 DEF IsLocation

LEMMA InitTypes == Init => TypeInv
<1> SUFFICES ASSUME Init PROVE TypeInv
  OBVIOUS
<1>1. dirs \in InitialDirs /\ req = [r \in Request |-> Idle]
      /\ now = 1 /\ issued = 0 /\ crashes = 0 /\ overlapped = FALSE
  BY DEF Init
<1>2. /\ {<<"docs">>, <<"trash">>} \subseteq DOMAIN dirs
      /\ \A l \in DOMAIN dirs :
            IsLocation(l) /\ Prefixes(l) \ {<<>>} \subseteq DOMAIN dirs /\ IsDirectory(dirs[l])
  BY <1>1, InitialDirsAssumption
<1>3. PlacesInv
  <2>1. ASSUME NEW l \in DOMAIN dirs
        PROVE  /\ IsPlace(l)
               /\ \A i \in 1 .. Len(l) : SubSeq(l, 1, i) \in DOMAIN dirs
               /\ Len(l) = 2 /\ l[1] = "trash" => IsEntry(l)
    <3>1. IsPlace(l) /\ (Len(l) = 2 /\ l[1] = "trash" => IsEntry(l))
      BY <1>2, LocationsArePlaces
    <3>2. Prefixes(l) \ {<<>>} = {SubSeq(l, 1, n) : n \in 1 .. Len(l)}
      BY <3>1, PrefixesAreCuts DEF IsPlace
    <3>3. QED
      BY <1>2, <3>1, <3>2
  <2>2. QED
    BY <1>2, <2>1 DEF PlacesInv, IsTree
<1>4. FilesInv
  BY <1>2 DEF FilesInv
<1>5. RequestsInv
  BY <1>1, IdleIsRequest DEF RequestsInv
<1>6. CountersInv
  <2>1. MaxRequests \in Nat /\ MaxCrashes \in Nat /\ MaxNow \in Nat \ {0}
    BY DocumentStoreAssumption
  <2>2. now \in 1 .. MaxNow /\ issued \in 0 .. MaxRequests /\ crashes \in 0 .. MaxCrashes
    BY <1>1, <2>1
  <2>3. overlapped \in BOOLEAN
    BY <1>1
  <2>4. QED
    BY <2>2, <2>3 DEF CountersInv
<1>7. QED
  BY <1>3, <1>4, <1>5, <1>6 DEF TypeInv

\* The kinds of steps, as the proofs take them apart.
LEMMA StepCases ==
    ASSUME NEW r \in Request, Step(r)
    PROVE  \/ Beginning(r) \/ StoreMkdir(r) \/ StoreLook(r) \/ StoreMkdirVersions(r)
           \/ StoreCopy(r) \/ StoreOpen(r) \/ StoreWrite(r)
           \/ Mkdir(r) \/ Rename(r) \/ RecoverLook(r)
           \/ RemoveAloneMkdir(r) \/ RemoveAloneList(r) \/ RemoveAloneEntry(r)
           \/ PurgeFind(r) \/ PurgeOne(r) \/ PurgeEnds(r)
           \/ RemoveVersion(r) \/ Upload(r) \/ Detach(r)
           \/ List(r) \/ Describe(r) \/ RetrieveAttachments(r) \/ RetrieveVersions(r)
           \/ RetrieveRead(r) \/ Fail(r)
BY DEF Step, StoreStep, Beginning

LEMMA TypesKept == TypeInv /\ [Next]_vars => TypeInv'
<1> SUFFICES ASSUME TypeInv, [Next]_vars PROVE TypeInv'
  OBVIOUS
<1>1. ASSUME NEW r \in Request, Step(r) PROVE TypeInv'
  BY <1>1, StepCases, BeginType, StoreMkdirType, StoreLookType, StoreMkdirVersionsType,
     StoreCopyType, StoreOpenType, StoreWriteType, MkdirType, RenameType, RecoverLookType,
     RemoveAloneMkdirType, RemoveAloneListType, RemoveAloneEntryType, PurgeFindType,
     PurgeOneType, PurgeEndsType, RemoveVersionType, AttachmentType, ListType, DescribeType, RetrieveType,
     FailType
<1>2. CASE UNCHANGED vars
  BY <1>2 DEF vars, TypeInv, PlacesInv, FilesInv, RequestsInv, CountersInv
<1>3. QED
  BY <1>1, <1>2, TickType, CrashType DEF Next

LEMMA TypesImplied == TypeInv => TypeOK
<1> SUFFICES ASSUME TypeInv PROVE TypeOK
  OBVIOUS
<1> USE DEF TypeInv
<1>1. ASSUME NEW l \in DOMAIN dirs
      PROVE  (Len(l) > 1 => Front(l) \in DOMAIN dirs) /\ IsDirectory(dirs[l])
  <2>1. l \in Seq(Element) /\ l # <<>> /\ \A i \in 1 .. Len(l) : SubSeq(l, 1, i) \in DOMAIN dirs
    BY DEF PlacesInv, IsTree, IsPlace
  <2>2. Front(l) = SubSeq(l, 1, Len(l) - 1) /\ Len(l) \in Nat
    BY <2>1, FrontIsCut
  <2>3. Len(l) > 1 => Len(l) - 1 \in 1 .. Len(l)
    BY <2>2
  <2>4. QED
    BY <2>1, <2>2, <2>3 DEF FilesInv
<1>2. ASSUME NEW r \in Request
      PROVE  /\ req[r] = Idle \/ req[r].kind \in Kind
             /\ req[r].alone \in BOOLEAN /\ req[r].id \in Nat
             /\ req[r].entries \subseteq {"content", "attachment", "versions"}
             /\ \A e \in req[r].listed : e[2] \in {"check", "read"}
  <2>1. IsRequest(req[r])
    BY DEF RequestsInv
  <2>2. req[r].alone \in BOOLEAN
    BY <2>1 DEF IsRequest, Fields
  <2>3. QED
    BY <2>1, <2>2 DEF IsRequest, Fields
<1>3. QED
  BY <1>1, <1>2 DEF CountersInv, TypeOK

\* The directories are a tree, and every request is at an operation of its kind.
THEOREM TypeInvariant == Spec => []TypeInv
BY InitTypes, TypesKept, PTL DEF Spec

\* Every location has the one above it, every directory holds files of the
\* right kinds, and every request in progress is of a kind the service has.
THEOREM TypeCorrect == Spec => []TypeOK
BY TypeInvariant, TypesImplied, PTL

=============================================================================
