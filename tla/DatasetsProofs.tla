-------------------------- MODULE DatasetsProofs ---------------------------
(***************************************************************************)
(* Proofs about the datasets, for any number of requests, accounts, roles, *)
(* documents and crashes: every property of the run Datasets, and what it  *)
(* rests on.                                                               *)
(*                                                                         *)
(* 1. A request is what its kind and its next operation make it: TypeInv,  *)
(*    which adds to the types the order of the operations (Control), what  *)
(*    a request names (Names) and the shape of what it has read (HasData). *)
(* 2. Seventeen actions have four effects: a request begins (Beginning),   *)
(*    reads or tests (Proceeding), opens a file (OpenStep) or writes it    *)
(*    (WriteStep); NextCases says so, and every later proof is about these *)
(*    effects, tokens, documents and crashes.                              *)
(* 3. Three inductive invariants, one for each question:                   *)
(*    - AuthorityInv: the roles that are stored, and those that a request  *)
(*      carries and is yet to store, have been granted;                    *)
(*    - CreationInv: files are created in their order, and what an         *)
(*      initialization still has to create is missing, unless it is        *)
(*      outdated;                                                          *)
(*    - OverlapInv: what a request that is not outdated has read is what   *)
(*      the file still holds (Current), and nobody has written the file    *)
(*      that it has opened (Alone).                                        *)
(***************************************************************************)
EXTENDS Datasets, TLAPS

----------------------------------------------------------------------------
(* What holds of the files and of every request.                           *)

\* The fields of a request.
Fields == DOMAIN Idle

\* What a request still has to write: a suffix of the files, for an initialization.
AllFiles == <<"settings", "accounts", "pinned", "index">>

Pending == {AllFiles, <<"accounts", "pinned", "index">>, <<"pinned", "index">>, <<"index">>}

AccountKind == {"accounts", "removeAccount", "profile"}

PinKind == {"pin", "unpin", "sort"}

\* A profile whose role has been read.
HasRole(q) == q.kind = "profile" /\ q.at # "role"

Writing(q) == q.at \in {"open", "write"}

\* The operations of each kind of request, and the files it is still to write.
Control(q) ==
    /\ q.kind = "idle" => q = Idle
    /\ q.kind \in Kind \ {"initialize"} =>
          /\ q.files = <<FileOf(q.kind)>>
          /\ q.at \in {"role", "read", "resolve", "open", "write"}
    /\ q.kind = "initialize" =>
          \/ q.at = "checkSettings" /\ q.files = <<>>
          \/ q.at = "checkAccounts" /\ q.files = AllFiles
          \/ Writing(q) /\ q.files \in Pending
    /\ q.at = "role" => q.kind = "profile"
    /\ q.at = "read" => q.kind \in AccountKind \cup PinKind
    /\ q.at = "resolve" => q.kind = "pin"

\* What it names.
Names(q) ==
    /\ q.kind \in {"accounts", "removeAccount", "initialize"} \/ HasRole(q) => q.account \in Account
    /\ q.kind = "accounts" \/ HasRole(q) => q.role \in Role
    /\ q.kind \in PinKind => q.document \in Document
    /\ q.kind = "sort" => q.target \in Nat \ {0}

\* What it has read.
HasData(q) ==
    /\ Writing(q) /\ q.kind \in AccountKind => AreAccounts(q.read)
    /\ Writing(q) /\ q.kind \in PinKind => ArePins(q.read)
    /\ q.at = "resolve" =>
          q.read \in Seq(Document) /\ q.rest \in Seq(Document) /\ ArePins(q.read \o q.rest)

Typed(q) ==
    /\ DOMAIN q = Fields
    /\ q.kind \in Kind \cup {"idle"}
    /\ q.id \in Nat /\ q.password \in BOOLEAN /\ q.outdated \in BOOLEAN

IsRequest(q) == Typed(q) /\ Control(q) /\ Names(q) /\ HasData(q)

FilesInv ==
    /\ DOMAIN file = File
    /\ \A f \in File : file[f].state \in FileState
    /\ AreAccounts(Data("accounts")) /\ ArePins(Data("pinned"))
    /\ ~Exists("accounts") => DOMAIN Data("accounts") = {}

RequestsInv == DOMAIN req = Request /\ \A r \in Request : IsRequest(req[r])

Token == [account : Account \cup {Nothing}, authorizations : SUBSET Authorization]

SessionInv ==
    /\ mode \in Mode
    /\ tokens \subseteq Token
    /\ granted \subseteq Account \X Role
    /\ present \subseteq Document /\ lost \subseteq File
    /\ issued \in Nat /\ crashes \in Nat

TypeInv == FilesInv /\ RequestsInv /\ SessionInv

----------------------------------------------------------------------------
(* Pinned documents: what removing, inserting and looking at pins does.    *)

\* Where a document is pinned, if it is.
LEMMA PinIndex ==
    ASSUME NEW data, ArePins(data), NEW d
    PROVE  LET index == SelectInSeq(data, LAMBDA e : e = d) IN
           /\ index \in Nat
           /\ index > 0 => index \in 1..Len(data) /\ data[index] = d
<1> DEFINE I == {i \in 1..Len(data) : data[i] = d}
<1>1. CASE I = {}
  BY <1>1 DEF SelectInSeq
<1>2. CASE I # {}
  <2>1. PICK i \in I : TRUE
    BY <1>2
  <2>2. i \in Nat /\ I = {i}
    BY <2>1 DEF ArePins, IsInjective
  <2>3. Min(I) = i
    BY <2>2 DEF Min
  <2> QED
    BY <1>2, <2>1, <2>2, <2>3 DEF SelectInSeq
<1> QED
  BY <1>1, <1>2

\* RemoveAt and InsertAt, position by position.
LEMMA Removed ==
    ASSUME NEW data \in Seq(Document), NEW i \in 1..Len(data)
    PROVE  /\ RemoveAt(data, i) \in Seq(Document)
           /\ Len(RemoveAt(data, i)) = Len(data) - 1
           /\ \A j \in 1..Len(data) - 1 :
                 RemoveAt(data, i)[j] = IF j < i THEN data[j] ELSE data[j + 1]
<1> DEFINE a == SubSeq(data, 1, i - 1)
           b == SubSeq(data, i + 1, Len(data))
<1>1. /\ a \in Seq(Document) /\ Len(a) = i - 1
      /\ \A j \in 1..i - 1 : a[j] = data[j]
  OBVIOUS
<1>2. /\ b \in Seq(Document) /\ Len(b) = Len(data) - i
      /\ \A j \in 1..Len(data) - i : b[j] = data[j + i]
  OBVIOUS
<1>3. RemoveAt(data, i) = a \o b
  BY DEF RemoveAt
<1> HIDE DEF a, b
<1>4. /\ a \o b \in Seq(Document) /\ Len(a \o b) = Len(data) - 1
  BY <1>1, <1>2
<1>5. \A j \in 1..Len(data) - 1 : (a \o b)[j] = IF j < i THEN a[j] ELSE b[j - (i - 1)]
  BY <1>1, <1>2
<1> QED
  BY <1>1, <1>2, <1>3, <1>4, <1>5

LEMMA Inserted ==
    ASSUME NEW data \in Seq(Document), NEW d \in Document, NEW i \in 1..Len(data) + 1
    PROVE  /\ InsertAt(data, i, d) \in Seq(Document)
           /\ Len(InsertAt(data, i, d)) = Len(data) + 1
           /\ \A j \in 1..Len(data) + 1 :
                 InsertAt(data, i, d)[j] = IF j < i THEN data[j] ELSE IF j = i THEN d ELSE data[j - 1]
<1> DEFINE a == SubSeq(data, 1, i - 1)
           b == SubSeq(data, i, Len(data))
<1>1. /\ a \in Seq(Document) /\ Len(a) = i - 1
      /\ \A j \in 1..i - 1 : a[j] = data[j]
  OBVIOUS
<1>2. /\ b \in Seq(Document) /\ Len(b) = Len(data) - i + 1
      /\ \A j \in 1..Len(data) - i + 1 : b[j] = data[j + i - 1]
  OBVIOUS
<1>3. InsertAt(data, i, d) = (a \o <<d>>) \o b
  BY DEF InsertAt
<1> HIDE DEF a, b
<1> DEFINE c == a \o <<d>>
<1>4. /\ c \in Seq(Document) /\ Len(c) = i
      /\ \A j \in 1..i : c[j] = IF j = i THEN d ELSE a[j]
  BY <1>1
<1> HIDE DEF c
<1>5. c \o b \in Seq(Document) /\ Len(c \o b) = Len(data) + 1
  <2> c \in Seq(Document) /\ b \in Seq(Document)
    BY <1>2, <1>4
  <2>1. c \o b \in Seq(Document) /\ Len(c \o b) = Len(c) + Len(b)
    OBVIOUS
  <2>2. Len(data) \in Nat /\ i \in Nat
    OBVIOUS
  <2> QED
    BY <1>2, <1>4, <2>1, <2>2
<1>6. \A j \in 1..Len(data) + 1 : (c \o b)[j] = IF j <= i THEN c[j] ELSE b[j - i]
  BY <1>2, <1>4
<1>7. InsertAt(data, i, d) = c \o b
  BY <1>3 DEF c
<1> QED
  BY <1>1, <1>2, <1>4, <1>5, <1>6, <1>7

\* Removing a pin keeps the order of the others.
LEMMA RemovedPin ==
    ASSUME NEW data, ArePins(data), NEW i \in 1..Len(data)
    PROVE  /\ ArePins(RemoveAt(data, i))
           /\ Order(RemoveAt(data, i)) = OrderOf(Others(data[i]), data)
<1> DEFINE after == RemoveAt(data, i)
<1>1. data \in Seq(Document) /\ IsInjective(data)
  BY DEF ArePins
<1>2. /\ after \in Seq(Document) /\ Len(after) = Len(data) - 1
      /\ \A j \in 1..Len(data) - 1 : after[j] = IF j < i THEN data[j] ELSE data[j + 1]
  BY <1>1, Removed
<1> HIDE DEF after
<1>3. IsInjective(after)
  BY <1>1, <1>2 DEF IsInjective
<1>4. ASSUME NEW p \in Order(after)
      PROVE  p \in OrderOf(Others(data[i]), data)
  <2>1. PICK k, l \in DOMAIN after : k <= l /\ p = <<after[k], after[l]>>
    BY DEF Order
  <2> DEFINE o(j) == IF j < i THEN j ELSE j + 1
  <2>2. /\ k \in 1..Len(data) - 1 /\ l \in 1..Len(data) - 1
        /\ o(k) \in DOMAIN data /\ o(l) \in DOMAIN data /\ o(k) <= o(l)
        /\ p = <<data[o(k)], data[o(l)]>> /\ o(k) # i /\ o(l) # i
    BY <1>1, <1>2, <2>1
  <2>3. data[o(k)] # data[i] /\ data[o(l)] # data[i]
    BY <1>1, <2>2 DEF IsInjective
  <2>4. data[o(k)] \in Document /\ data[o(l)] \in Document
    BY <1>1, <2>2
  <2> QED
    BY <2>2, <2>3, <2>4 DEF Order, OrderOf, Others
<1>5. ASSUME NEW p \in OrderOf(Others(data[i]), data)
      PROVE  p \in Order(after)
  <2>1. PICK k, l \in DOMAIN data : k <= l /\ p = <<data[k], data[l]>>
    BY DEF Order, OrderOf
  <2>2. data[k] # data[i] /\ data[l] # data[i] /\ data[k] \in Document /\ data[l] \in Document
    BY <1>1, <2>1 DEF OrderOf, Others
  <2>3. k # i /\ l # i
    BY <2>2
  <2> DEFINE o(j) == IF j < i THEN j ELSE j - 1
  <2>4. /\ o(k) \in 1..Len(data) - 1 /\ o(l) \in 1..Len(data) - 1 /\ o(k) <= o(l)
        /\ o(k) \in DOMAIN after /\ o(l) \in DOMAIN after
    BY <1>1, <1>2, <2>1, <2>3
  <2>5. \A j \in DOMAIN data : j # i => after[o(j)] = data[j]
    <3>1. TAKE j \in DOMAIN data
    <3>2. CASE j < i
      BY <1>1, <1>2, <3>2
    <3>3. CASE j > i
      <4>1. j - 1 \in 1..Len(data) - 1 /\ ~(j - 1 < i) /\ (j - 1) + 1 = j /\ o(j) = j - 1
        BY <1>1, <3>3
      <4>2. after[j - 1] = data[(j - 1) + 1]
        BY <1>2, <4>1
      <4> QED
        BY <4>1, <4>2
    <3> QED
      BY <1>1, <3>2, <3>3
  <2> QED
    BY <2>1, <2>2, <2>3, <2>4, <2>5 DEF Order
<1>6. Order(after) = OrderOf(Others(data[i]), data)
  BY <1>4, <1>5
<1> QED
  BY <1>2, <1>3, <1>6 DEF ArePins, after

\* So does inserting one, which gets the place it is given.
LEMMA InsertedPin ==
    ASSUME NEW data, ArePins(data), NEW d \in Document, NEW i \in 1..Len(data) + 1,
           \A j \in DOMAIN data : data[j] # d
    PROVE  /\ ArePins(InsertAt(data, i, d))
           /\ InsertAt(data, i, d)[i] = d
           /\ OrderOf(Others(d), InsertAt(data, i, d)) = Order(data)
<1> DEFINE after == InsertAt(data, i, d)
<1>1. data \in Seq(Document) /\ IsInjective(data)
  BY DEF ArePins
<1>2. /\ after \in Seq(Document) /\ Len(after) = Len(data) + 1
      /\ \A j \in 1..Len(data) + 1 :
            after[j] = IF j < i THEN data[j] ELSE IF j = i THEN d ELSE data[j - 1]
  BY <1>1, Inserted
<1> HIDE DEF after
<1>3. IsInjective(after)
  <2> SUFFICES ASSUME NEW k \in DOMAIN after, NEW l \in DOMAIN after, after[k] = after[l]
               PROVE  k = l
    BY DEF IsInjective
  <2> DEFINE o(j) == IF j < i THEN j ELSE j - 1
  <2>1. k \in 1..Len(data) + 1 /\ l \in 1..Len(data) + 1
    BY <1>2
  <2>2. CASE k # i /\ l # i
    <3>1. o(k) \in DOMAIN data /\ o(l) \in DOMAIN data /\ after[k] = data[o(k)] /\ after[l] = data[o(l)]
      BY <1>1, <1>2, <2>1, <2>2
    <3>2. o(k) = o(l)
      BY <1>1, <3>1 DEF IsInjective
    <3> QED
      BY <2>1, <2>2, <3>2
  <2>3. \A j \in 1..Len(data) + 1 : j # i => after[j] # d
    <3>1. \A j \in 1..Len(data) + 1 : j # i => o(j) \in DOMAIN data /\ after[j] = data[o(j)]
      BY <1>1, <1>2
    <3> QED
      BY <3>1
  <2>4. after[i] = d
    BY <1>2
  <2> QED
    BY <2>1, <2>2, <2>3, <2>4
<1>4. ASSUME NEW p \in Order(data)
      PROVE  p \in OrderOf(Others(d), after)
  <2>1. PICK k, l \in DOMAIN data : k <= l /\ p = <<data[k], data[l]>>
    BY DEF Order
  <2> DEFINE o(j) == IF j < i THEN j ELSE j + 1
  <2>2. /\ o(k) \in DOMAIN after /\ o(l) \in DOMAIN after /\ o(k) <= o(l)
        /\ p = <<after[o(k)], after[o(l)]>>
    BY <1>1, <1>2, <2>1
  <2>3. data[k] \in Others(d) /\ data[l] \in Others(d)
    BY <1>1, <2>1 DEF Others
  <2> QED
    BY <2>1, <2>2, <2>3 DEF Order, OrderOf, Others
<1>5. ASSUME NEW p \in OrderOf(Others(d), after)
      PROVE  p \in Order(data)
  <2>1. PICK k, l \in DOMAIN after : k <= l /\ p = <<after[k], after[l]>>
    BY DEF Order, OrderOf
  <2>2. after[k] # d /\ after[l] # d
    BY <2>1 DEF OrderOf, Others
  <2>3. k # i /\ l # i
    BY <1>2, <2>2
  <2> DEFINE o(j) == IF j < i THEN j ELSE j - 1
  <2>4. /\ o(k) \in DOMAIN data /\ o(l) \in DOMAIN data /\ o(k) <= o(l)
        /\ p = <<data[o(k)], data[o(l)]>>
    BY <1>1, <1>2, <2>1, <2>3
  <2> QED
    BY <1>1, <2>4 DEF Order
<1>6. OrderOf(Others(d), after) = Order(data)
  BY <1>4, <1>5
<1> QED
  BY <1>2, <1>3, <1>6 DEF ArePins, after

LEMMA SameSeq ==
    ASSUME NEW s \in Seq(Document), NEW t \in Seq(Document), Len(s) = Len(t),
           \A j \in 1..Len(s) : s[j] = t[j]
    PROVE  s = t
  OBVIOUS

LEMMA Joined ==
    ASSUME NEW s \in Seq(Document), NEW t \in Seq(Document)
    PROVE  /\ s \o t \in Seq(Document) /\ Len(s \o t) = Len(s) + Len(t)
           /\ \A j \in 1..Len(s) + Len(t) : (s \o t)[j] = IF j <= Len(s) THEN s[j] ELSE t[j - Len(s)]
  OBVIOUS

\* Of the pins that are looked at, one is kept or dropped, and the order stays.
LEMMA ResolvedPin ==
    ASSUME NEW read \in Seq(Document), NEW rest \in Seq(Document), rest # <<>>
    PROVE  /\ Head(rest) \in Document /\ Tail(rest) \in Seq(Document)
           /\ Append(read, Head(rest)) \in Seq(Document)
           /\ Append(read, Head(rest)) \o Tail(rest) = read \o rest
           /\ Len(read) + 1 \in 1..Len(read \o rest)
           /\ (read \o rest)[Len(read) + 1] = Head(rest)
           /\ read \o Tail(rest) = RemoveAt(read \o rest, Len(read) + 1)
<1>1. /\ Head(rest) \in Document /\ Head(rest) = rest[1]
      /\ Tail(rest) \in Seq(Document) /\ Len(Tail(rest)) = Len(rest) - 1
      /\ \A j \in 1..Len(rest) - 1 : Tail(rest)[j] = rest[j + 1]
      /\ Len(rest) \in Nat \ {0} /\ Len(read) \in Nat
  OBVIOUS
<1>2. /\ read \o rest \in Seq(Document) /\ Len(read \o rest) = Len(read) + Len(rest)
      /\ \A j \in 1..Len(read) + Len(rest) :
            (read \o rest)[j] = IF j <= Len(read) THEN read[j] ELSE rest[j - Len(read)]
  OBVIOUS
<1> DEFINE t == Tail(rest)
           a == Append(read, Head(rest))
<1>3. /\ a \in Seq(Document) /\ Len(a) = Len(read) + 1
      /\ \A j \in 1..Len(read) + 1 : a[j] = IF j <= Len(read) THEN read[j] ELSE rest[1]
  BY <1>1
<1>4. /\ t \in Seq(Document) /\ Len(t) = Len(rest) - 1
      /\ \A j \in 1..Len(rest) - 1 : t[j] = rest[j + 1]
  BY <1>1
<1> HIDE DEF t, a
<1>5. a \o t = read \o rest
  <2>1. /\ a \o t \in Seq(Document) /\ Len(a \o t) = Len(a) + Len(t)
        /\ \A j \in 1..Len(a) + Len(t) : (a \o t)[j] = IF j <= Len(a) THEN a[j] ELSE t[j - Len(a)]
    BY <1>3, <1>4, Joined
  <2>2. Len(a \o t) = Len(read \o rest)
    BY <1>1, <1>2, <1>3, <1>4, <2>1
  <2>3. ASSUME NEW j \in 1..Len(a \o t)
        PROVE  (a \o t)[j] = (read \o rest)[j]
    BY <1>1, <1>2, <1>3, <1>4, <2>1
  <2> QED
    BY <1>2, <2>1, <2>2, <2>3, SameSeq
<1>6. read \o t = RemoveAt(read \o rest, Len(read) + 1)
  <2> DEFINE m == RemoveAt(read \o rest, Len(read) + 1)
  <2>1. Len(read) + 1 \in 1..Len(read \o rest)
    BY <1>1, <1>2
  <2>2. /\ m \in Seq(Document) /\ Len(m) = Len(read \o rest) - 1
        /\ \A j \in 1..Len(read \o rest) - 1 :
             m[j] = IF j < Len(read) + 1 THEN (read \o rest)[j] ELSE (read \o rest)[j + 1]
    BY <1>2, <2>1, Removed
  <2> HIDE DEF m
  <2>3. /\ read \o t \in Seq(Document) /\ Len(read \o t) = Len(read) + Len(t)
        /\ \A j \in 1..Len(read) + Len(t) :
              (read \o t)[j] = IF j <= Len(read) THEN read[j] ELSE t[j - Len(read)]
    BY <1>4, Joined
  <2>4. Len(m) = Len(read \o t)
    BY <1>1, <1>2, <1>4, <2>2, <2>3
  <2>5. ASSUME NEW j \in 1..Len(m)
        PROVE  m[j] = (read \o t)[j]
    BY <1>1, <1>2, <1>4, <2>2, <2>3, <2>4
  <2>6. m = read \o t
    BY <2>2, <2>3, <2>4, <2>5, SameSeq
  <2> QED
    BY <2>6 DEF m
<1> QED
  BY <1>1, <1>2, <1>3, <1>5, <1>6 DEF t, a

\* A document that is not among the pins becomes the last of them.
LEMMA AddedPin ==
    ASSUME NEW read, ArePins(read), NEW d \in Document, d \notin Range(read)
    PROVE  /\ ArePins(Append(read, d))
           /\ Last(Append(read, d)) = d
           /\ Front(Append(read, d)) = read
<1> DEFINE a == Append(read, d)
<1>0. read \in Seq(Document) /\ IsInjective(read)
  BY DEF ArePins
<1>1. /\ a \in Seq(Document) /\ Len(a) = Len(read) + 1 /\ Len(read) \in Nat
      /\ \A j \in 1..Len(read) + 1 : a[j] = IF j <= Len(read) THEN read[j] ELSE d
  BY <1>0
<1>2. \A j \in 1..Len(read) : read[j] # d
  BY <1>0 DEF Range
<1> HIDE DEF a
<1>3. IsInjective(a)
  BY <1>0, <1>1, <1>2 DEF IsInjective
<1>4. Last(a) = d
  BY <1>1 DEF Last
<1>5. Front(a) = read
  <2>1. /\ Front(a) \in Seq(Document) /\ Len(Front(a)) = Len(read)
        /\ \A j \in 1..Len(read) : Front(a)[j] = a[j]
    BY <1>1 DEF Front
  <2> QED
    BY <1>0, <1>1, <2>1, SameSeq
<1> QED
  BY <1>1, <1>3, <1>4, <1>5 DEF ArePins, a

----------------------------------------------------------------------------
(* Requests that begin.                                                    *)

LEMMA IdleIsRequest == IsRequest(Idle)
  BY DEF IsRequest, Typed, Control, Names, HasData, Idle, Fields, Kind, AccountKind, PinKind,
         HasRole, Writing

\* One request becomes another.
LEMMA RequestReplaced ==
    ASSUME RequestsInv, NEW r \in Request, NEW q, IsRequest(q),
           req' = [req EXCEPT ![r] = q]
    PROVE  RequestsInv'
<1>1. DOMAIN req' = Request
  BY DEF RequestsInv
<1>2. \A x \in Request : IsRequest(req'[x])
  BY DEF RequestsInv
<1> QED
  BY <1>1, <1>2 DEF RequestsInv, IsRequest, Typed, Control, Names, HasData

LEMMA BeginType ==
    ASSUME TypeInv, NEW r \in Request, NEW endpoint, NEW q, IsRequest(q), Begin(r, endpoint, q),
           granted' \subseteq Account \X Role
    PROVE  TypeInv'
<1>1. RequestsInv'
  BY RequestReplaced DEF Begin, TypeInv
<1>2. FilesInv'
  BY DEF Begin, TypeInv, FilesInv, Data, Exists
<1>3. SessionInv'
  BY DEF Begin, TypeInv, SessionInv, session
<1> QED
  BY <1>1, <1>2, <1>3 DEF TypeInv

LEMMA ProceedType ==
    ASSUME TypeInv, NEW r \in Request, NEW q, IsRequest(q), Proceed(r, q)
    PROVE  TypeInv'
<1>1. RequestsInv'
  BY RequestReplaced DEF Proceed, TypeInv
<1>2. FilesInv'
  BY DEF Proceed, TypeInv, FilesInv, Data, Exists
<1>3. SessionInv'
  BY DEF Proceed, TypeInv, SessionInv, session
<1> QED
  BY <1>1, <1>2, <1>3 DEF TypeInv

\* The fields of a request that changes a dataset, before its kind adds what
\* it names.
IsNew(p, kind) ==
    /\ DOMAIN p = Fields
    /\ p.kind = kind /\ p.at = "read" /\ p.files = <<FileOf(kind)>>
    /\ p.id \in Nat /\ p.password \in BOOLEAN /\ p.outdated = FALSE

\* What the beginnings have in common: a request that is not outdated, has read
\* nothing and names no role that is not granted.
Fresh(q) ==
    /\ IsRequest(q) /\ q.outdated = FALSE
    /\ \/ q.at \in {"read", "role", "checkSettings"}
       \/ q.at = "open" /\ q.kind = "settings" /\ Exists("settings")
    /\ q.at = "read" => q.kind # "profile"

Granting(q) ==
    /\ granted \subseteq granted' /\ granted' \subseteq Account \X Role
    /\ q.kind = "accounts" => <<q.account, q.role>> \in granted'
    /\ q.kind = "initialize" => <<q.account, "administrator">> \in granted'

Beginning(r) ==
    \E endpoint, q : Begin(r, endpoint, q) /\ Fresh(q) /\ Granting(q)

LEMMA FieldsAre ==
    Fields = {"kind", "at", "files", "read", "rest", "account", "role", "password", "document",
              "target", "id", "outdated"}
  BY DEF Fields, Idle

LEMMA ChangingIsNew ==
    ASSUME TypeInv, NEW kind \in Kind \ {"initialize"}
    PROVE  IsNew(Changing(kind), kind)
<1> issued \in Nat
  BY DEF TypeInv, SessionInv
<1>1. /\ DOMAIN Changing(kind) = Fields
      /\ Changing(kind).kind = kind /\ Changing(kind).at = "read"
      /\ Changing(kind).files = <<FileOf(kind)>> /\ Changing(kind).id = issued + 1
  BY DEF Changing, New, Idle, Fields
<1>2. Changing(kind).password \in BOOLEAN
  BY DEF Changing, New, Idle
<1>3. Changing(kind).outdated = FALSE
  BY DEF Changing, New, Idle
<1> QED
  BY <1>1, <1>2, <1>3 DEF IsNew

\* Every endpoint begins a request of its kind.
LEMMA NewSettings ==
    ASSUME TypeInv, NEW r \in Request, BeginSettings(r)
    PROVE  Beginning(r)
<1>1. PICK p : p = Changing("settings") /\ IsNew(p, "settings")
  BY ChangingIsNew DEF Kind
<1>2. Begin(r, "settings_store", [p EXCEPT !.at = "open"])
  BY <1>1 DEF BeginSettings
<1> DEFINE q == [p EXCEPT !.at = "open"]
<1>3. /\ DOMAIN q = Fields
      /\ q.kind = "settings" /\ q.files = <<FileOf("settings")>> /\ q.id \in Nat
      /\ q.at = "open"
  BY <1>1, FieldsAre DEF IsNew
<1>4. q.password \in BOOLEAN
  BY <1>1, FieldsAre DEF IsNew
<1>5. q.outdated = FALSE
  BY <1>1, FieldsAre DEF IsNew
<1> HIDE DEF q
<1>6. IsRequest(q)
  BY <1>3, <1>4, <1>5
  DEF IsRequest, Typed, Control, Names, HasData, Kind, AccountKind, PinKind, HasRole, Writing
<1>7. Fresh(q)
  BY <1>3, <1>5, <1>6 DEF BeginSettings, Fresh
<1>8. Granting(q)
  BY <1>3 DEF Granting, BeginSettings, TypeInv, SessionInv
<1> QED
  BY <1>2, <1>7, <1>8 DEF q, Beginning

LEMMA NewAccounts ==
    ASSUME TypeInv, NEW r \in Request, BeginAccounts(r)
    PROVE  Beginning(r)
<1>1. PICK p : p = Changing("accounts") /\ IsNew(p, "accounts")
  BY ChangingIsNew DEF Kind
<1>2. PICK x \in Account, role \in Role, password \in BOOLEAN :
         /\ Begin(r, "accounts_store",
                  [p EXCEPT !.account = x, !.role = role, !.password = password])
         /\ granted' = granted \cup {<<x, role>>}
  BY <1>1 DEF BeginAccounts
<1> DEFINE q == [p EXCEPT !.account = x, !.role = role, !.password = password]
<1>3. /\ DOMAIN q = Fields
      /\ q.kind = "accounts" /\ q.files = <<FileOf("accounts")>> /\ q.id \in Nat
      /\ q.at = "read" /\ q.account = x /\ q.role = role
  BY <1>1, FieldsAre DEF IsNew
<1>4. q.password \in BOOLEAN
  BY <1>1, FieldsAre DEF IsNew
<1>5. q.outdated = FALSE
  BY <1>1, FieldsAre DEF IsNew
<1> HIDE DEF q
<1>6. IsRequest(q)
  BY <1>3, <1>4, <1>5
  DEF IsRequest, Typed, Control, Names, HasData, Kind, AccountKind, PinKind, HasRole, Writing
<1>7. Fresh(q)
  BY <1>3, <1>5, <1>6 DEF Fresh
<1>8. Granting(q)
  BY <1>2, <1>3 DEF Granting, BeginAccounts, TypeInv, SessionInv
<1> QED
  BY <1>2, <1>7, <1>8 DEF q, Beginning

LEMMA NewRemoveAccount ==
    ASSUME TypeInv, NEW r \in Request, BeginRemoveAccount(r)
    PROVE  Beginning(r)
<1>1. PICK p : p = Changing("removeAccount") /\ IsNew(p, "removeAccount")
  BY ChangingIsNew DEF Kind
<1>2. PICK x \in Account :
         Begin(r, "accounts_remove", [p EXCEPT !.account = x])
  BY <1>1 DEF BeginRemoveAccount
<1> DEFINE q == [p EXCEPT !.account = x]
<1>3. /\ DOMAIN q = Fields
      /\ q.kind = "removeAccount" /\ q.files = <<FileOf("removeAccount")>> /\ q.id \in Nat
      /\ q.at = "read" /\ q.account = x
  BY <1>1, FieldsAre DEF IsNew
<1>4. q.password \in BOOLEAN
  BY <1>1, FieldsAre DEF IsNew
<1>5. q.outdated = FALSE
  BY <1>1, FieldsAre DEF IsNew
<1> HIDE DEF q
<1>6. IsRequest(q)
  BY <1>3, <1>4, <1>5
  DEF IsRequest, Typed, Control, Names, HasData, Kind, AccountKind, PinKind, HasRole, Writing
<1>7. Fresh(q)
  BY <1>3, <1>5, <1>6 DEF Fresh
<1>8. Granting(q)
  BY <1>3 DEF Granting, BeginRemoveAccount, TypeInv, SessionInv
<1> QED
  BY <1>2, <1>7, <1>8 DEF q, Beginning

LEMMA NewProfile ==
    ASSUME TypeInv, NEW r \in Request, BeginProfile(r)
    PROVE  Beginning(r)
<1>1. PICK p : p = Changing("profile") /\ IsNew(p, "profile")
  BY ChangingIsNew DEF Kind
<1>2. PICK t \in tokens, password \in BOOLEAN :
         Begin(r, "profile", [p EXCEPT !.at = "role", !.account = t.account, !.password = password])
  BY <1>1 DEF BeginProfile
<1> DEFINE q == [p EXCEPT !.at = "role", !.account = t.account, !.password = password]
<1>3. /\ DOMAIN q = Fields
      /\ q.kind = "profile" /\ q.files = <<FileOf("profile")>> /\ q.id \in Nat
      /\ q.at = "role"
  BY <1>1, FieldsAre DEF IsNew
<1>4. q.password \in BOOLEAN
  BY <1>1, FieldsAre DEF IsNew
<1>5. q.outdated = FALSE
  BY <1>1, FieldsAre DEF IsNew
<1> HIDE DEF q
<1>6. IsRequest(q)
  BY <1>3, <1>4, <1>5
  DEF IsRequest, Typed, Control, Names, HasData, Kind, AccountKind, PinKind, HasRole, Writing
<1>7. Fresh(q)
  BY <1>3, <1>5, <1>6 DEF Fresh
<1>8. Granting(q)
  BY <1>3 DEF Granting, BeginProfile, TypeInv, SessionInv
<1> QED
  BY <1>2, <1>7, <1>8 DEF q, Beginning

LEMMA NewPin ==
    ASSUME TypeInv, NEW r \in Request, BeginPin(r)
    PROVE  Beginning(r)
<1>1. PICK p : p = Changing("pin") /\ IsNew(p, "pin")
  BY ChangingIsNew DEF Kind
<1>2. PICK d \in Document :
         Begin(r, "pinned_store", [p EXCEPT !.document = d])
  BY <1>1 DEF BeginPin, TypeInv, SessionInv
<1> DEFINE q == [p EXCEPT !.document = d]
<1>3. /\ DOMAIN q = Fields
      /\ q.kind = "pin" /\ q.files = <<FileOf("pin")>> /\ q.id \in Nat
      /\ q.at = "read" /\ q.document = d
  BY <1>1, FieldsAre DEF IsNew
<1>4. q.password \in BOOLEAN
  BY <1>1, FieldsAre DEF IsNew
<1>5. q.outdated = FALSE
  BY <1>1, FieldsAre DEF IsNew
<1> HIDE DEF q
<1>6. IsRequest(q)
  BY <1>3, <1>4, <1>5
  DEF IsRequest, Typed, Control, Names, HasData, Kind, AccountKind, PinKind, HasRole, Writing
<1>7. Fresh(q)
  BY <1>3, <1>5, <1>6 DEF Fresh
<1>8. Granting(q)
  BY <1>3 DEF Granting, BeginPin, TypeInv, SessionInv
<1> QED
  BY <1>2, <1>7, <1>8 DEF q, Beginning

LEMMA NewUnpin ==
    ASSUME TypeInv, NEW r \in Request, BeginUnpin(r)
    PROVE  Beginning(r)
<1>1. PICK p : p = Changing("unpin") /\ IsNew(p, "unpin")
  BY ChangingIsNew DEF Kind
<1>2. PICK d \in Document :
         Begin(r, "pinned_remove", [p EXCEPT !.document = d])
  BY <1>1 DEF BeginUnpin
<1> DEFINE q == [p EXCEPT !.document = d]
<1>3. /\ DOMAIN q = Fields
      /\ q.kind = "unpin" /\ q.files = <<FileOf("unpin")>> /\ q.id \in Nat
      /\ q.at = "read" /\ q.document = d
  BY <1>1, FieldsAre DEF IsNew
<1>4. q.password \in BOOLEAN
  BY <1>1, FieldsAre DEF IsNew
<1>5. q.outdated = FALSE
  BY <1>1, FieldsAre DEF IsNew
<1> HIDE DEF q
<1>6. IsRequest(q)
  BY <1>3, <1>4, <1>5
  DEF IsRequest, Typed, Control, Names, HasData, Kind, AccountKind, PinKind, HasRole, Writing
<1>7. Fresh(q)
  BY <1>3, <1>5, <1>6 DEF Fresh
<1>8. Granting(q)
  BY <1>3 DEF Granting, BeginUnpin, TypeInv, SessionInv
<1> QED
  BY <1>2, <1>7, <1>8 DEF q, Beginning

LEMMA NewSort ==
    ASSUME TypeInv, NEW r \in Request, BeginSort(r)
    PROVE  Beginning(r)
<1>1. PICK p : p = Changing("sort") /\ IsNew(p, "sort")
  BY ChangingIsNew DEF Kind
<1>2. PICK d \in Document, target \in 1..Cardinality(Document) :
         Begin(r, "pinned_sort", [p EXCEPT !.document = d, !.target = target])
  BY <1>1 DEF BeginSort
<1> DEFINE q == [p EXCEPT !.document = d, !.target = target]
<1>3. /\ DOMAIN q = Fields
      /\ q.kind = "sort" /\ q.files = <<FileOf("sort")>> /\ q.id \in Nat
      /\ q.at = "read" /\ q.document = d /\ q.target \in Nat \ {0}
  BY <1>1, FieldsAre DEF IsNew
<1>4. q.password \in BOOLEAN
  BY <1>1, FieldsAre DEF IsNew
<1>5. q.outdated = FALSE
  BY <1>1, FieldsAre DEF IsNew
<1> HIDE DEF q
<1>6. IsRequest(q)
  BY <1>3, <1>4, <1>5
  DEF IsRequest, Typed, Control, Names, HasData, Kind, AccountKind, PinKind, HasRole, Writing
<1>7. Fresh(q)
  BY <1>3, <1>5, <1>6 DEF Fresh
<1>8. Granting(q)
  BY <1>3 DEF Granting, BeginSort, TypeInv, SessionInv
<1> QED
  BY <1>2, <1>7, <1>8 DEF q, Beginning

LEMMA NewInitialize ==
    ASSUME TypeInv, NEW r \in Request, BeginInitialize(r)
    PROVE  Beginning(r)
<1> issued \in Nat
  BY DEF TypeInv, SessionInv
<1>1. PICK x \in Account :
         /\ Begin(r, "initialize", [New("initialize") EXCEPT !.at = "checkSettings", !.account = x])
         /\ granted' = granted \cup {<<x, "administrator">>}
  BY DEF BeginInitialize
<1> DEFINE q == [New("initialize") EXCEPT !.at = "checkSettings", !.account = x]
<1>2. /\ DOMAIN q = Fields
      /\ q.kind = "initialize" /\ q.at = "checkSettings" /\ q.files = <<>> /\ q.account = x /\ q.id \in Nat
  BY DEF New, Idle, Fields
<1>3. q.password \in BOOLEAN
  BY DEF New, Idle
<1>4. q.outdated = FALSE
  BY DEF New, Idle
<1> HIDE DEF q
<1>5. IsRequest(q)
  BY <1>2, <1>3, <1>4
  DEF IsRequest, Typed, Control, Names, HasData, Kind, AccountKind, PinKind, HasRole, Writing
<1>6. Fresh(q)
  BY <1>2, <1>4, <1>5 DEF Fresh
<1>7. Granting(q)
  BY <1>1, <1>2, DatasetsAssumption DEF Granting, TypeInv, SessionInv
<1> QED
  BY <1>1, <1>6, <1>7 DEF q, Beginning

----------------------------------------------------------------------------
(* What a request computes from what it has read.                          *)

\* Storing and removing an account leave the accounts well-formed and the others alone.
LEMMA WithEntry ==
    ASSUME NEW data, AreAccounts(data), NEW x \in Account, NEW entry \in Entry
    PROVE  /\ AreAccounts(With(data, x, entry))
           /\ DOMAIN With(data, x, entry) = DOMAIN data \cup {x}
           /\ With(data, x, entry)[x] = entry
           /\ \A y \in DOMAIN data \ {x} : With(data, x, entry)[y] = data[y]
           /\ SameBeside(x, data, With(data, x, entry))
<1>1. /\ DOMAIN With(data, x, entry) = DOMAIN data \cup {x}
      /\ With(data, x, entry)[x] = entry
      /\ \A y \in DOMAIN data \ {x} : With(data, x, entry)[y] = data[y]
  BY DEF With
<1>2. AreAccounts(With(data, x, entry))
  BY DEF With, AreAccounts
<1> QED
  BY <1>1, <1>2 DEF SameBeside

LEMMA WithoutEntry ==
    ASSUME NEW data, AreAccounts(data), NEW x
    PROVE  LET rest == Restrict(data, DOMAIN data \ {x}) IN
           /\ AreAccounts(rest)
           /\ DOMAIN rest = DOMAIN data \ {x}
           /\ \A y \in DOMAIN rest : rest[y] = data[y]
           /\ SameBeside(x, data, rest)
  BY DEF Restrict, AreAccounts, SameBeside

\* What a request on the accounts stores is what it was asked for, on what it has read.
LEMMA StoredAccounts ==
    ASSUME NEW q, IsRequest(q), q.at = "read", q.kind \in AccountKind,
           NEW data, AreAccounts(data), Stored(q, data) # Nothing
    PROVE  /\ AreAccounts(Stored(q, data))
           /\ \A x \in DOMAIN Stored(q, data) :
                 \/ x \in DOMAIN data /\ Stored(q, data)[x].role = data[x].role
                 \/ q.kind # "removeAccount" /\ x = q.account /\ Stored(q, data)[x].role = q.role
           /\ /\ q.kind = "profile" => q.account \in DOMAIN data /\ q.role = data[q.account].role
              => Intended(q, data, Stored(q, data))
<1>1. CASE q.kind = "removeAccount"
  <2> DEFINE rest == Restrict(data, DOMAIN data \ {q.account})
  <2>1. Stored(q, data) = rest
    BY <1>1 DEF Stored
  <2>2. /\ AreAccounts(rest) /\ SameBeside(q.account, data, rest)
        /\ DOMAIN rest = DOMAIN data \ {q.account}
        /\ \A x \in DOMAIN rest : rest[x] = data[x]
    BY WithoutEntry
  <2> HIDE DEF rest
  <2>3. Intended(q, data, rest)
    BY <1>1, <2>2 DEF Intended
  <2>4. \A x \in DOMAIN rest : x \in DOMAIN data /\ rest[x].role = data[x].role
    BY <2>2
  <2> QED
    BY <2>1, <2>2, <2>3, <2>4
<1>2. CASE q.kind \in {"accounts", "profile"}
  <2> DEFINE entry == [role |-> q.role, name |-> q.id, password |-> PasswordOf(q, data)]
  <2>1. (q.password \/ q.account \in DOMAIN data) /\ Stored(q, data) = With(data, q.account, entry)
    BY <1>2 DEF Stored
  <2>2. PasswordOf(q, data) \in Nat \cup {Nothing}
    <3>1. CASE q.password
      BY <3>1 DEF PasswordOf, IsRequest, Typed
    <3>2. CASE ~q.password
      <4>1. data[q.account] \in Entry
        BY <2>1, <3>2 DEF AreAccounts
      <4> QED
        BY <3>2, <4>1 DEF PasswordOf, Entry
    <3> QED
      BY <3>1, <3>2
  <2>3. q.account \in Account /\ q.role \in Role /\ q.id \in Nat
    BY <1>2 DEF IsRequest, Typed, Names, HasRole
  <2>4. entry \in Entry
    BY <2>2, <2>3 DEF Entry
  <2>5. entry.role = q.role /\ entry.name = q.id /\ entry.password = PasswordOf(q, data)
    OBVIOUS
  <2> HIDE DEF entry
  <2> DEFINE x == q.account
  <2> DEFINE after == With(data, x, entry)
  <2> x \in Account
    BY <2>3
  <2> HIDE DEF x
  <2>6. /\ AreAccounts(after) /\ SameBeside(x, data, after)
        /\ DOMAIN after = DOMAIN data \cup {x} /\ after[x] = entry
        /\ \A y \in DOMAIN data \ {x} : after[y] = data[y]
    <3>1. DOMAIN after = DOMAIN data \cup {x} /\ after[x] = entry
      BY <2>4, WithEntry
    <3>2. AreAccounts(after)
      BY <2>4, WithEntry
    <3>3. SameBeside(x, data, after)
      BY <2>4, WithEntry
    <3>4. \A y \in DOMAIN data \ {x} : after[y] = data[y]
      BY <3>3 DEF SameBeside
    <3> QED
      BY <3>1, <3>2, <3>3, <3>4
  <2> HIDE DEF after
  <2>7. q.password = FALSE => entry.password = data[x].password
    BY <2>5 DEF PasswordOf, x
  <2>8. ASSUME q.kind = "profile" => q.account \in DOMAIN data /\ q.role = data[q.account].role
        PROVE  Intended(q, data, after)
    <3>1. CASE q.kind = "accounts"
      BY <3>1, <2>5, <2>6, <2>7 DEF Intended, x
    <3>2. CASE q.kind = "profile"
      BY <3>2, <2>5, <2>6, <2>7, <2>8 DEF Intended, x
    <3> QED
      BY <1>2, <3>1, <3>2
  <2>9. ASSUME NEW y \in DOMAIN after
        PROVE  \/ y \in DOMAIN data /\ after[y].role = data[y].role
               \/ y = q.account /\ after[y].role = q.role
    BY <2>5, <2>6 DEF x
  <2>10. Stored(q, data) = after /\ q.kind # "removeAccount"
    BY <1>2, <2>1 DEF after, x
  <2> QED
    BY <2>6, <2>8, <2>9, <2>10
<1> QED
  BY <1>1, <1>2 DEF AccountKind

\* So is what a request on the pins stores.
LEMMA StoredPins ==
    ASSUME NEW q, IsRequest(q), q.at = "read", q.kind \in {"unpin", "sort"},
           NEW data, ArePins(data), Stored(q, data) # Nothing
    PROVE  /\ ArePins(Stored(q, data))
           /\ Intended(q, data, Stored(q, data))
<1> DEFINE index == SelectInSeq(data, LAMBDA e : e = q.document)
<1>1. index \in Nat /\ (index > 0 => index \in 1..Len(data) /\ data[index] = q.document)
  BY PinIndex
<1> HIDE DEF index
<1>2. CASE q.kind = "unpin"
  <2>1. index > 0 /\ Stored(q, data) = RemoveAt(data, index)
    BY <1>2 DEF Stored, index
  <2>2. /\ ArePins(RemoveAt(data, index))
        /\ Order(RemoveAt(data, index)) = OrderOf(Others(q.document), data)
    BY <1>1, <2>1, RemovedPin
  <2> QED
    BY <1>2, <2>1, <2>2 DEF Intended
<1>3. CASE q.kind = "sort"
  <2> DEFINE m == RemoveAt(data, index)
  <2>1. /\ index > 0 /\ q.target <= Len(data)
        /\ Stored(q, data) = InsertAt(m, q.target, q.document)
    BY <1>3 DEF Stored, index
  <2>2. ArePins(m) /\ Order(m) = OrderOf(Others(q.document), data)
    BY <1>1, <2>1, RemovedPin
  <2>3. data \in Seq(Document) /\ IsInjective(data)
    BY DEF ArePins
  <2>4. /\ Len(m) = Len(data) - 1
        /\ \A j \in 1..Len(data) - 1 : m[j] = IF j < index THEN data[j] ELSE data[j + 1]
    BY <1>1, <2>1, <2>3, Removed
  <2>5. m \in Seq(Document)
    BY <2>2 DEF ArePins
  <2> HIDE DEF m
  <2>6. \A j \in DOMAIN m : m[j] # q.document
    BY <1>1, <2>1, <2>3, <2>4, <2>5 DEF IsInjective
  <2>7. q.document \in Document /\ q.target \in Nat \ {0}
    BY <1>3 DEF IsRequest, Names, PinKind
  <2>8. q.target \in 1..Len(m) + 1
    BY <2>1, <2>3, <2>4, <2>7
  <2> DEFINE after == InsertAt(m, q.target, q.document)
  <2>9. /\ ArePins(after) /\ after[q.target] = q.document
        /\ OrderOf(Others(q.document), after) = Order(m)
    BY <2>2, <2>6, <2>7, <2>8, InsertedPin
  <2> QED
    BY <1>3, <2>1, <2>2, <2>9 DEF Intended
<1> QED
  BY <1>2, <1>3

----------------------------------------------------------------------------
(* Requests that read and test.                                            *)

\* What the readings have in common: the request ends or goes on, with what it
\* names and as outdated as it is.
Continues(p, q) ==
    /\ q.kind = p.kind /\ q.account = p.account /\ q.password = p.password
    /\ q.document = p.document /\ q.target = p.target /\ q.id = p.id /\ q.outdated = p.outdated

RoleRead(p, q) ==
    /\ p.kind = "profile" /\ p.at = "role" /\ q.at = "read"
    /\ p.account \in DOMAIN Data("accounts") /\ q.role = Data("accounts")[p.account].role

DataRead(p, q) ==
    /\ p.kind \in AccountKind \cup {"unpin", "sort"} /\ p.at = "read" /\ q.at = "open"
    /\ q.role = p.role
    /\ Exists(FileOf(p.kind))
    /\ q.read = Stored(p, Data(FileOf(p.kind))) /\ q.read # Nothing

PinsRead(p, q) ==
    /\ p.kind = "pin" /\ p.at = "read" /\ q.at = "resolve" /\ q.role = p.role
    /\ Exists("pinned")
    /\ q.read = <<>> /\ q.rest = Data("pinned")

PinResolved(p, q) ==
    /\ p.kind = "pin" /\ p.at = "resolve" /\ q.at = "resolve" /\ q.role = p.role
    /\ \/ q.read \o q.rest = p.read \o p.rest
       \/ \E i \in 1..Len(p.read \o p.rest) : q.read \o q.rest = RemoveAt(p.read \o p.rest, i)

PinAdded(p, q) ==
    /\ p.kind = "pin" /\ p.at = "resolve" /\ q.at = "open" /\ q.role = p.role
    /\ Last(q.read) = p.document /\ Front(q.read) = p.read \o p.rest

SettingsChecked(p, q) ==
    /\ p.kind = "initialize" /\ p.at = "checkSettings" /\ q.files = AllFiles
    /\ q.at = IF Exists("settings") THEN "checkAccounts" ELSE "open"

AccountsChecked(p, q) ==
    /\ p.kind = "initialize" /\ p.at = "checkAccounts" /\ q.files = AllFiles
    /\ q.at = "open" /\ ~Exists("accounts")

Turns(p, q) ==
    \/ RoleRead(p, q) \/ DataRead(p, q) \/ PinsRead(p, q) \/ PinResolved(p, q) \/ PinAdded(p, q)
    \/ SettingsChecked(p, q) \/ AccountsChecked(p, q)

Proceeding(r) ==
    /\ ~Writing(req[r])
    /\ \E q :
        /\ Proceed(r, q) /\ IsRequest(q)
        /\ \/ q = Idle
           \/ Continues(req[r], q) /\ Turns(req[r], q)

\* Every operation that reads or tests is one of these turns, or ends the request.
LEMMA EndProceeds ==
    ASSUME NEW r \in Request, Proceed(r, Idle), ~Writing(req[r])
    PROVE  Proceeding(r)
<1>1. PICK q : q = Idle
  OBVIOUS
<1>2. Proceed(r, q) /\ IsRequest(q)
  BY <1>1, IdleIsRequest DEF Proceed
<1> QED
  BY <1>1, <1>2 DEF Proceeding

LEMMA ReadRoleProceeds ==
    ASSUME TypeInv, NEW r \in Request, ReadRole(r)
    PROVE  Proceeding(r)
<1> DEFINE p == req[r]
<1>0. ~Writing(req[r])
  BY DEF ReadRole, At, Writing
<1>1. IsRequest(p) /\ p.at = "role" /\ p.kind = "profile" /\ AreAccounts(Data("accounts"))
  BY DEF TypeInv, RequestsInv, FilesInv, ReadRole, At, IsRequest, Control
<1>2. CASE Readable("accounts") /\ p.account \in DOMAIN Data("accounts")
  <2> DEFINE role == Data("accounts")[p.account].role
             q == [p EXCEPT !.at = "read", !.role = role]
  <2>1. Proceed(r, q)
    BY <1>2 DEF ReadRole
  <2>2. role \in Role /\ p.account \in Account
    BY <1>1, <1>2 DEF AreAccounts, Entry
  <2> HIDE DEF p, role
  <2>3. DOMAIN q = Fields /\ q.at = "read" /\ q.role = role /\ q.files = p.files
    BY <1>1, FieldsAre DEF IsRequest, Typed
  <2>4. Continues(p, q)
    BY <1>1, FieldsAre DEF IsRequest, Typed, Continues
  <2> HIDE DEF q
  <2>5. IsRequest(q)
    BY <1>1, <2>2, <2>3, <2>4
    DEF IsRequest, Typed, Continues, Control, Names, HasData, HasRole, Writing, Kind,
        AccountKind, PinKind
  <2>6. RoleRead(p, q)
    BY <1>1, <1>2, <2>3 DEF RoleRead, role
  <2> QED
    BY <1>0, <2>1, <2>4, <2>5, <2>6 DEF Proceeding, Turns, p
<1>3. CASE ~(Readable("accounts") /\ p.account \in DOMAIN Data("accounts"))
  <2>1. Proceed(r, Idle)
    BY <1>3 DEF ReadRole
  <2> QED
    BY <1>0, <2>1, EndProceeds
<1> QED
  BY <1>2, <1>3

LEMMA ReadProceeds ==
    ASSUME TypeInv, NEW r \in Request, Read(r)
    PROVE  Proceeding(r)
<1> DEFINE p == req[r]
           f == FileOf(p.kind)
<1>0. ~Writing(req[r])
  BY DEF Read, At, Writing
<1>1. /\ IsRequest(p) /\ p.at = "read" /\ p.kind \in AccountKind \cup {"unpin", "sort"}
      /\ AreAccounts(Data("accounts")) /\ ArePins(Data("pinned"))
  BY DEF TypeInv, RequestsInv, FilesInv, Read, At, IsRequest, Control, PinKind
<1>2. CASE Readable(f) /\ Stored(p, Data(f)) # Nothing
  <2> DEFINE stored == Stored(p, Data(f))
             q == [p EXCEPT !.at = "open", !.read = stored]
  <2>1. Proceed(r, q)
    BY <1>2 DEF Read
  <2>2. /\ p.kind \in AccountKind => AreAccounts(stored)
        /\ p.kind \in PinKind => ArePins(stored)
    BY <1>1, <1>2, StoredAccounts, StoredPins DEF FileOf, AccountKind, PinKind
  <2>3. Exists(f)
    BY <1>2 DEF Readable, Exists
  <2> HIDE DEF p, stored
  <2>4. DOMAIN q = Fields /\ q.at = "open" /\ q.role = p.role /\ q.files = p.files /\ q.read = stored
    BY <1>1, FieldsAre DEF IsRequest, Typed
  <2>5. Continues(p, q)
    BY <1>1, FieldsAre DEF IsRequest, Typed, Continues
  <2> HIDE DEF q
  <2>6. IsRequest(q)
    BY <1>1, <2>2, <2>4, <2>5
    DEF IsRequest, Typed, Continues, Control, Names, HasData, HasRole, Writing, Kind,
        AccountKind, PinKind
  <2>7. DataRead(p, q)
    BY <1>1, <1>2, <2>3, <2>4 DEF DataRead, stored
  <2> QED
    BY <1>0, <2>1, <2>5, <2>6, <2>7 DEF Proceeding, Turns, p
<1>3. CASE ~(Readable(f) /\ Stored(p, Data(f)) # Nothing)
  <2>1. Proceed(r, Idle)
    BY <1>3 DEF Read
  <2> QED
    BY <1>0, <2>1, EndProceeds
<1> QED
  BY <1>2, <1>3

LEMMA ReadPinsProceeds ==
    ASSUME TypeInv, NEW r \in Request, ReadPins(r)
    PROVE  Proceeding(r)
<1> DEFINE p == req[r]
           pins == Data("pinned")
<1>0. ~Writing(req[r])
  BY DEF ReadPins, At, Writing
<1>1. IsRequest(p) /\ p.at = "read" /\ p.kind = "pin" /\ ArePins(pins)
  BY DEF TypeInv, RequestsInv, FilesInv, ReadPins, At, IsRequest, Control
<1>2. CASE Readable("pinned")
  <2> DEFINE q == [p EXCEPT !.at = "resolve", !.read = <<>>, !.rest = pins]
  <2>1. Proceed(r, q)
    BY <1>2 DEF ReadPins
  <2>2. Exists("pinned")
    BY <1>2 DEF Readable, Exists
  <2> HIDE DEF p, pins
  <2>3. /\ DOMAIN q = Fields /\ q.at = "resolve" /\ q.role = p.role /\ q.files = p.files
        /\ q.read = <<>> /\ q.rest = pins
    BY <1>1, FieldsAre DEF IsRequest, Typed
  <2>4. Continues(p, q)
    BY <1>1, FieldsAre DEF IsRequest, Typed, Continues
  <2> HIDE DEF q
  <2>5. q.read \in Seq(Document) /\ q.rest \in Seq(Document) /\ ArePins(q.read \o q.rest)
    <3>1. pins \in Seq(Document) /\ <<>> \in Seq(Document)
      BY <1>1 DEF ArePins
    <3>2. <<>> \o pins = pins
      BY <3>1
    <3> QED
      BY <1>1, <2>3, <3>1, <3>2
  <2>6. IsRequest(q)
    BY <1>1, <2>3, <2>4, <2>5
    DEF IsRequest, Typed, Continues, Control, Names, HasData, HasRole, Writing, Kind,
        AccountKind, PinKind
  <2>7. PinsRead(p, q)
    BY <1>1, <2>2, <2>3 DEF PinsRead, pins
  <2> QED
    BY <1>0, <2>1, <2>4, <2>6, <2>7 DEF Proceeding, Turns, p
<1>3. CASE ~Readable("pinned")
  <2>1. Proceed(r, Idle)
    BY <1>3 DEF ReadPins
  <2> QED
    BY <1>0, <2>1, EndProceeds
<1> QED
  BY <1>2, <1>3

LEMMA ResolvePinProceeds ==
    ASSUME TypeInv, NEW r \in Request, ResolvePin(r)
    PROVE  Proceeding(r)
<1> DEFINE p == req[r]
           read == IF Head(p.rest) \in present THEN Append(p.read, Head(p.rest)) ELSE p.read
           rest == Tail(p.rest)
           q == [p EXCEPT !.rest = Tail(@),
                          !.read = IF Head(p.rest) \in present THEN Append(@, Head(p.rest)) ELSE @]
<1>0. ~Writing(req[r])
  BY DEF ResolvePin, At, Writing
<1>1. /\ IsRequest(p) /\ p.at = "resolve" /\ p.kind = "pin"
      /\ p.read \in Seq(Document) /\ p.rest \in Seq(Document) /\ p.rest # <<>>
      /\ ArePins(p.read \o p.rest)
  BY DEF TypeInv, RequestsInv, ResolvePin, At, IsRequest, Control, HasData
<1>2. Proceed(r, q)
  BY DEF ResolvePin
<1> HIDE DEF p
<1>3. read \in Seq(Document) /\ rest \in Seq(Document)
  BY <1>1, ResolvedPin
<1>4. \/ read \o rest = p.read \o p.rest
      \/ \E i \in 1..Len(p.read \o p.rest) : read \o rest = RemoveAt(p.read \o p.rest, i)
  BY <1>1, ResolvedPin
<1>5. ArePins(read \o rest)
  BY <1>1, <1>4, RemovedPin
<1>6. q.read = read /\ q.rest = rest
  BY <1>1, FieldsAre DEF IsRequest, Typed
<1> HIDE DEF read, rest
<1>7. DOMAIN q = Fields /\ q.at = "resolve" /\ q.role = p.role /\ q.files = p.files
  BY <1>1, FieldsAre DEF IsRequest, Typed
<1>8. Continues(p, q)
  BY <1>1, FieldsAre DEF IsRequest, Typed, Continues
<1> HIDE DEF q
<1>9. IsRequest(q)
  BY <1>1, <1>3, <1>5, <1>6, <1>7, <1>8
  DEF IsRequest, Typed, Continues, Control, Names, HasData, HasRole, Writing, Kind,
      AccountKind, PinKind
<1>10. PinResolved(p, q)
  BY <1>1, <1>4, <1>6, <1>7 DEF PinResolved
<1> QED
  BY <1>0, <1>2, <1>8, <1>9, <1>10 DEF Proceeding, Turns, p

LEMMA AddPinProceeds ==
    ASSUME TypeInv, NEW r \in Request, AddPin(r)
    PROVE  Proceeding(r)
<1> DEFINE p == req[r]
<1>0. ~Writing(req[r])
  BY DEF AddPin, At, Writing
<1>1. /\ IsRequest(p) /\ p.at = "resolve" /\ p.kind = "pin" /\ p.document \in Document
      /\ p.read \in Seq(Document) /\ p.rest = <<>> /\ ArePins(p.read \o p.rest)
  BY DEF TypeInv, RequestsInv, AddPin, At, IsRequest, Control, HasData, Names, PinKind
<1>2. CASE p.document \in Range(p.read)
  <2>1. Proceed(r, Idle)
    BY <1>2 DEF AddPin
  <2> QED
    BY <1>0, <2>1, EndProceeds
<1>3. CASE p.document \notin Range(p.read)
  <2> DEFINE q == [p EXCEPT !.at = "open", !.read = Append(@, p.document)]
  <2>1. Proceed(r, q)
    BY <1>3 DEF AddPin
  <2> HIDE DEF p
  <2>2. p.read \o p.rest = p.read
    BY <1>1
  <2> DEFINE pins == Append(p.read, p.document)
  <2>3. ArePins(pins) /\ Last(pins) = p.document /\ Front(pins) = p.read \o p.rest
    BY <1>1, <1>3, <2>2, AddedPin
  <2>4. q.read = pins
    BY <1>1, FieldsAre DEF IsRequest, Typed
  <2> HIDE DEF pins
  <2>5. DOMAIN q = Fields /\ q.at = "open" /\ q.role = p.role /\ q.files = p.files
    BY <1>1, FieldsAre DEF IsRequest, Typed
  <2>6. Continues(p, q)
    BY <1>1, FieldsAre DEF IsRequest, Typed, Continues
  <2> HIDE DEF q
  <2>7. IsRequest(q)
    BY <1>1, <2>3, <2>4, <2>5, <2>6
    DEF IsRequest, Typed, Continues, Control, Names, HasData, HasRole, Writing, Kind,
        AccountKind, PinKind
  <2>8. PinAdded(p, q)
    BY <1>1, <2>3, <2>4, <2>5 DEF PinAdded
  <2> QED
    BY <1>0, <2>1, <2>6, <2>7, <2>8 DEF Proceeding, Turns, p
<1> QED
  BY <1>2, <1>3

LEMMA CheckSettingsProceeds ==
    ASSUME TypeInv, NEW r \in Request, CheckSettings(r)
    PROVE  Proceeding(r)
<1> DEFINE p == req[r]
           at == IF Exists("settings") THEN "checkAccounts" ELSE "open"
           q == [p EXCEPT !.at = IF Exists("settings") THEN "checkAccounts" ELSE "open",
                          !.files = <<"settings", "accounts", "pinned", "index">>]
<1>0. ~Writing(req[r])
  BY DEF CheckSettings, At, Writing
<1>1. IsRequest(p) /\ p.at = "checkSettings" /\ p.kind = "initialize"
  BY DEF TypeInv, RequestsInv, CheckSettings, At, IsRequest, Control, Typed
<1>2. Proceed(r, q)
  BY DEF CheckSettings
<1> HIDE DEF p
<1>3. DOMAIN q = Fields /\ q.at = at /\ q.files = AllFiles
  BY <1>1, FieldsAre DEF IsRequest, Typed, AllFiles
<1>4. Continues(p, q)
  BY <1>1, FieldsAre DEF IsRequest, Typed, Continues
<1> HIDE DEF q
<1>5. IsRequest(q)
  BY <1>1, <1>3, <1>4
  DEF IsRequest, Typed, Continues, Control, Names, HasData, HasRole, Writing, Kind,
      AccountKind, PinKind,
      Pending
<1>6. SettingsChecked(p, q)
  BY <1>1, <1>3 DEF SettingsChecked
<1> QED
  BY <1>0, <1>2, <1>4, <1>5, <1>6 DEF Proceeding, Turns, p

LEMMA CheckAccountsProceeds ==
    ASSUME TypeInv, NEW r \in Request, CheckAccounts(r)
    PROVE  Proceeding(r)
<1> DEFINE p == req[r]
           q == [p EXCEPT !.at = "open"]
<1>0. ~Writing(req[r])
  BY DEF CheckAccounts, At, Writing
<1>1. IsRequest(p) /\ p.at = "checkAccounts" /\ p.kind = "initialize" /\ p.files = AllFiles
  BY DEF TypeInv, RequestsInv, CheckAccounts, At, IsRequest, Control, Typed, Writing
<1>2. CASE Exists("accounts")
  <2>1. Proceed(r, Idle)
    BY <1>2 DEF CheckAccounts
  <2> QED
    BY <1>0, <2>1, EndProceeds
<1>3. CASE ~Exists("accounts")
  <2>1. Proceed(r, q)
    BY <1>3 DEF CheckAccounts
  <2> HIDE DEF p
  <2>2. DOMAIN q = Fields /\ q.at = "open" /\ q.files = AllFiles
    BY <1>1, FieldsAre DEF IsRequest, Typed
  <2>3. Continues(p, q)
    BY <1>1, FieldsAre DEF IsRequest, Typed, Continues
  <2> HIDE DEF q
  <2>4. IsRequest(q)
    BY <1>1, <2>2, <2>3
    DEF IsRequest, Typed, Continues, Control, Names, HasData, HasRole, Writing, Kind,
        AccountKind, PinKind,
        Pending
  <2>5. AccountsChecked(p, q)
    BY <1>1, <1>3, <2>2 DEF AccountsChecked
  <2> QED
    BY <1>0, <2>1, <2>3, <2>4, <2>5 DEF Proceeding, Turns, p
<1> QED
  BY <1>2, <1>3

----------------------------------------------------------------------------
(* Requests that write.                                                    *)

\* The files that a request is still to write.
LEMMA RangeOf ==
    /\ Range(<<>>) = {}
    /\ \A a : Range(<<a>>) = {a}
    /\ \A a, b : Range(<<a, b>>) = {a, b}
    /\ \A a, b, c : Range(<<a, b, c>>) = {a, b, c}
    /\ \A a, b, c, d : Range(<<a, b, c, d>>) = {a, b, c, d}
<1>1. \A a : Range(<<a>>) = {a}
  BY DEF Range
<1>2. \A a, b : Range(<<a, b>>) = {a, b}
  <2> TAKE a, b
  <2> DEFINE s == <<a, b>>
  <2>1. DOMAIN s = 1..2 /\ s[1] = a /\ s[2] = b
    OBVIOUS
  <2> HIDE DEF s
  <2> QED
    BY <2>1 DEF Range, s
<1>3. \A a, b, c : Range(<<a, b, c>>) = {a, b, c}
  <2> TAKE a, b, c
  <2> DEFINE s == <<a, b, c>>
  <2>1. DOMAIN s = 1..3 /\ s[1] = a /\ s[2] = b /\ s[3] = c
    OBVIOUS
  <2> HIDE DEF s
  <2>2. Range(s) = {a, b, c}
    BY <2>1 DEF Range
  <2> QED
    BY <2>2 DEF s
<1>4. \A a, b, c, d : Range(<<a, b, c, d>>) = {a, b, c, d}
  <2> TAKE a, b, c, d
  <2> DEFINE s == <<a, b, c, d>>
  <2>1. DOMAIN s = 1..4 /\ s[1] = a /\ s[2] = b /\ s[3] = c /\ s[4] = d
    OBVIOUS
  <2> HIDE DEF s
  <2>2. Range(s) = {a, b, c, d}
    BY <2>1 DEF Range
  <2> QED
    BY <2>2 DEF s
<1>5. Range(<<>>) = {}
  BY DEF Range
<1> QED
  BY <1>1, <1>2, <1>3, <1>4, <1>5

LEMMA PendingFiles ==
    ASSUME NEW files \in Pending
    PROVE  /\ Head(files) \in File
           /\ Tail(files) \in Pending \/ Tail(files) = <<>>
           /\ Range(files) = {Head(files)} \cup Range(Tail(files))
           /\ Head(files) \notin Range(Tail(files)) /\ Range(files) \subseteq File
<1>1. CASE files = AllFiles
  <2>1. Head(files) = "settings" /\ Tail(files) = <<"accounts", "pinned", "index">>
    BY <1>1 DEF AllFiles
  <2> QED
    BY <1>1, <2>1, RangeOf DEF Pending, AllFiles, File
<1>2. CASE files = <<"accounts", "pinned", "index">>
  <2>1. Head(files) = "accounts" /\ Tail(files) = <<"pinned", "index">>
    BY <1>2
  <2> QED
    BY <1>2, <2>1, RangeOf DEF Pending, File
<1>3. CASE files = <<"pinned", "index">>
  <2>1. Head(files) = "pinned" /\ Tail(files) = <<"index">>
    BY <1>3
  <2> QED
    BY <1>3, <2>1, RangeOf DEF Pending, File
<1>4. CASE files = <<"index">>
  <2>1. Head(files) = "index" /\ Tail(files) = <<>>
    BY <1>4
  <2> QED
    BY <1>4, <2>1, RangeOf DEF Pending, File
<1> QED
  BY <1>1, <1>2, <1>3, <1>4 DEF Pending

LEMMA LastPending ==
    ASSUME NEW files \in Pending, Tail(files) = <<>>
    PROVE  Head(files) = "index"
<1>1. CASE files = AllFiles
  <2>1. Len(Tail(files)) = 3
    BY <1>1 DEF AllFiles
  <2> QED
    BY <2>1
<1>2. CASE files = <<"accounts", "pinned", "index">>
  <2>1. Len(Tail(files)) = 2
    BY <1>2
  <2> QED
    BY <2>1
<1>3. CASE files = <<"pinned", "index">>
  <2>1. Len(Tail(files)) = 1
    BY <1>3
  <2> QED
    BY <2>1
<1>4. CASE files = <<"index">>
  BY <1>4
<1> QED
  BY <1>1, <1>2, <1>3, <1>4 DEF Pending

\* The file that a request opens and writes next.
LEMMA NextFile ==
    ASSUME NEW q, IsRequest(q), Writing(q)
    PROVE  /\ Head(q.files) \in File /\ Head(q.files) \in Range(q.files)
           /\ q.kind \in Kind
           /\ q.kind # "initialize" =>
                 /\ q.files = <<FileOf(q.kind)>> /\ Head(q.files) = FileOf(q.kind)
                 /\ Tail(q.files) = <<>> /\ Range(q.files) = {FileOf(q.kind)}
           /\ q.kind = "initialize" => q.files \in Pending
<1>1. q.kind \in Kind
  BY DEF IsRequest, Typed, Control, Writing, Idle
<1>2. CASE q.kind = "initialize"
  <2>1. q.files \in Pending
    BY <1>2 DEF IsRequest, Control, Writing
  <2> QED
    BY <1>1, <1>2, <2>1, PendingFiles
<1>3. CASE q.kind # "initialize"
  <2>1. q.files = <<FileOf(q.kind)>>
    BY <1>1, <1>3 DEF IsRequest, Control
  <2>2. FileOf(q.kind) \in File
    BY <1>1, <1>3 DEF FileOf, File, Kind
  <2>3. Head(q.files) = FileOf(q.kind) /\ Tail(q.files) = <<>> /\ Range(q.files) = {FileOf(q.kind)}
    BY <2>1, RangeOf
  <2> QED
    BY <1>1, <1>3, <2>1, <2>2, <2>3
<1> QED
  BY <1>2, <1>3

\* A request beside the one that steps: it stays what it is, or is outdated.
Keeps(p, q) ==
    /\ q.kind = p.kind /\ q.at = p.at /\ q.files = p.files /\ q.read = p.read /\ q.rest = p.rest
    /\ q.account = p.account /\ q.role = p.role /\ q.password = p.password
    /\ q.document = p.document /\ q.target = p.target /\ q.id = p.id
    /\ p.outdated => q.outdated
    /\ p.kind = "idle" => q = p

LEMMA KeptIsRequest ==
    ASSUME NEW p, IsRequest(p), NEW q, Keeps(p, q), DOMAIN q = Fields, q.outdated \in BOOLEAN
    PROVE  IsRequest(q)
  BY DEF IsRequest, Typed, Control, Names, HasData, HasRole, Writing, Keeps

LEMMA OutdateKeeps ==
    ASSUME RequestsInv, NEW x \in Request, NEW f, NEW q,
           q = [req[x] EXCEPT !.outdated = @ \/ HasRead(x, f)]
    PROVE  /\ Keeps(req[x], q) /\ IsRequest(q)
           /\ HasRead(x, f) => q.outdated
<1> DEFINE p == req[x]
           outdated == p.outdated \/ HasRead(x, f)
<1>1. IsRequest(p)
  BY DEF RequestsInv
<1>2. outdated \in BOOLEAN /\ (p.kind = "idle" => p.outdated = outdated)
  <2>1. p.kind = "idle" => ~HasRead(x, f)
    BY <1>1 DEF IsRequest, Control, HasRead, Idle
  <2>2. p.outdated \in BOOLEAN
    BY <1>1 DEF IsRequest, Typed
  <2> QED
    BY <2>1, <2>2
<1>3. q = [p EXCEPT !.outdated = outdated]
  OBVIOUS
<1>4. p.outdated => outdated
  OBVIOUS
<1>5. HasRead(x, f) => outdated
  OBVIOUS
<1> HIDE DEF p, outdated
<1>6. /\ DOMAIN q = Fields
      /\ q.kind = p.kind /\ q.at = p.at /\ q.files = p.files /\ q.read = p.read /\ q.rest = p.rest
      /\ q.account = p.account /\ q.role = p.role /\ q.password = p.password
      /\ q.document = p.document /\ q.target = p.target /\ q.id = p.id
  BY <1>1, <1>3, FieldsAre DEF IsRequest, Typed
<1>7. q.outdated = outdated
  BY <1>1, <1>3, FieldsAre DEF IsRequest, Typed
<1>8. p.kind = "idle" => q = p
  <2>1. SUFFICES ASSUME p.kind = "idle" PROVE q = p
    OBVIOUS
  <2>2. p = Idle
    BY <1>1, <2>1 DEF IsRequest, Control
  <2>3. Idle = [Idle EXCEPT !.outdated = Idle.outdated]
    BY DEF Idle
  <2>4. outdated = Idle.outdated
    BY <1>2, <2>1, <2>2
  <2> QED
    BY <1>3, <2>2, <2>3, <2>4
<1>9. Keeps(p, q)
  BY <1>4, <1>6, <1>7, <1>8 DEF Keeps
<1>10. IsRequest(q)
  BY <1>1, <1>2, <1>6, <1>7, <1>9, KeptIsRequest
<1> QED
  BY <1>5, <1>7, <1>9, <1>10 DEF p

\* A step that writes f for r and leaves the other files and requests alone,
\* but that it outdates them when it changes what they have read.
FileBecomes(f, state, data) ==
    /\ DOMAIN file' = File /\ file'[f].state = state /\ file'[f].data = data
    /\ \A g \in File \ {f} : file'[g] = file[g]

OthersKeep(r, f, changed) ==
    \A x \in Request \ {r} :
        /\ Keeps(req[x], req'[x])
        /\ changed /\ HasRead(x, f) => req'[x].outdated

\* What r is to write, before and after the step.
SameTask(p, q) == Continues(p, q) /\ q.role = p.role /\ q.read = p.read

Opened(r) ==
    LET p == req[r]
        f == Head(p.files)
    IN  /\ p.kind \in Kind /\ p.at = "open"
        /\ FileBecomes(f, "empty", Data(f))
        /\ SameTask(p, req'[r]) /\ req'[r].at = "write" /\ req'[r].files = p.files
        /\ OthersKeep(r, f, ~Exists(f))

Written(r) ==
    LET p == req[r]
        f == Head(p.files)
    IN  /\ p.kind \in Kind /\ p.at = "write"
        /\ \E state \in {"whole", "corrupt"} :
              /\ state = "corrupt" => file[f].state # "empty"
              /\ FileBecomes(f, state, NewData(p, f))
        /\ \/ req'[r] = Idle /\ Tail(p.files) = <<>>
           \/ /\ SameTask(p, req'[r]) /\ req'[r].at = "open" /\ req'[r].files = Tail(p.files)
              /\ p.kind = "initialize" /\ Tail(p.files) \in Pending
        /\ OthersKeep(r, f, TRUE)

LEMMA Outdating ==
    ASSUME RequestsInv, NEW r \in Request, NEW f, NEW q, IsRequest(q), req' = Outdate(r, f, q)
    PROVE  RequestsInv' /\ req'[r] = q /\ OthersKeep(r, f, TRUE)
<1>1. DOMAIN req' = Request /\ req'[r] = q
  BY DEF Outdate
<1>2. \A x \in Request \ {r} : req'[x] = [req[x] EXCEPT !.outdated = @ \/ HasRead(x, f)]
  BY DEF Outdate
<1>3. ASSUME NEW x \in Request \ {r}
      PROVE  IsRequest(req'[x]) /\ Keeps(req[x], req'[x]) /\ (HasRead(x, f) => req'[x].outdated)
  BY <1>2, OutdateKeeps
<1>4. \A x \in Request : IsRequest(req'[x])
  BY <1>1, <1>3
<1> QED
  BY <1>1, <1>3, <1>4
  DEF OthersKeep, RequestsInv, IsRequest, Typed, Control, Names, HasData

LEMMA KeepsItself ==
    ASSUME NEW p
    PROVE  Keeps(p, p)
  BY DEF Keeps

\* The two halves of writeFile.
LEMMA OpenFileOpens ==
    ASSUME TypeInv, NEW r \in Request, OpenFile(r)
    PROVE  Opened(r) /\ RequestsInv'
<1> DEFINE p == req[r]
           f == Head(p.files)
           q == [p EXCEPT !.at = "write"]
<1>1. RequestsInv /\ IsRequest(p) /\ p.at = "open" /\ Writing(p) /\ DOMAIN file = File
  BY DEF TypeInv, RequestsInv, FilesInv, OpenFile, At, Writing
<1>2. f \in File /\ p.kind \in Kind
  BY <1>1, NextFile
<1>3. FileBecomes(f, "empty", Data(f))
  BY <1>1, <1>2 DEF OpenFile, FileBecomes, Data
<1>4. req' = IF Exists(f) THEN [req EXCEPT ![r] = q] ELSE Outdate(r, f, q)
  BY DEF OpenFile
<1>5. SameTask(p, q) /\ q.at = "write" /\ q.files = p.files /\ DOMAIN q = Fields
  <2> HIDE DEF p
  <2>1. Continues(p, q)
    BY <1>1, FieldsAre DEF IsRequest, Typed, Continues
  <2> QED
    BY <1>1, <2>1, FieldsAre DEF IsRequest, Typed, SameTask
<1> HIDE DEF p, f, q
<1>6. IsRequest(q)
  BY <1>1, <1>2, <1>5
  DEF IsRequest, Typed, SameTask, Continues, Control, Names, HasData, HasRole, Writing, Kind, AccountKind,
      PinKind
<1>7. CASE Exists(f)
  <2>1. RequestsInv'
    BY <1>1, <1>4, <1>6, <1>7, RequestReplaced
  <2>2. req'[r] = q /\ \A x \in Request \ {r} : req'[x] = req[x]
    BY <1>1, <1>4, <1>7 DEF RequestsInv
  <2>3. OthersKeep(r, f, ~Exists(f))
    BY <1>7, <2>2, KeepsItself DEF OthersKeep
  <2> QED
    BY <1>1, <1>2, <1>3, <1>5, <2>1, <2>2, <2>3 DEF Opened, p, f
<1>8. CASE ~Exists(f)
  <2>1. RequestsInv' /\ req'[r] = q /\ OthersKeep(r, f, TRUE)
    BY <1>1, <1>4, <1>6, <1>8, Outdating
  <2>2. OthersKeep(r, f, ~Exists(f))
    BY <1>8, <2>1
  <2> QED
    BY <1>1, <1>2, <1>3, <1>5, <2>1, <2>2 DEF Opened, p, f
<1> QED
  BY <1>7, <1>8

LEMMA WriteFileWrites ==
    ASSUME TypeInv, NEW r \in Request, WriteFile(r)
    PROVE  Written(r) /\ RequestsInv'
<1> DEFINE p == req[r]
           f == Head(p.files)
           rest == Tail(p.files)
           next == [p EXCEPT !.files = rest, !.at = "open"]
           q == IF rest = <<>> THEN Idle ELSE next
<1>1. RequestsInv /\ IsRequest(p) /\ p.at = "write" /\ Writing(p) /\ DOMAIN file = File
  BY DEF TypeInv, RequestsInv, FilesInv, WriteFile, At, Writing
<1>2. f \in File /\ p.kind \in Kind
  BY <1>1, NextFile
<1>3. \E state \in {"whole", "corrupt"} :
         /\ state = "corrupt" => file[f].state # "empty"
         /\ FileBecomes(f, state, NewData(p, f))
  <2>1. PICK state \in {"whole", "corrupt"} :
           /\ state = "corrupt" => file[f].state # "empty"
           /\ file' = [file EXCEPT ![f] = [state |-> state, data |-> NewData(p, f)]]
    BY DEF WriteFile
  <2>2. FileBecomes(f, state, NewData(p, f))
    BY <1>1, <1>2, <2>1 DEF FileBecomes
  <2> QED
    BY <2>1, <2>2
<1>4. req' = Outdate(r, f, q)
  BY DEF WriteFile
<1>5. \/ q = Idle /\ rest = <<>>
      \/ /\ IsRequest(q) /\ SameTask(p, q) /\ q.at = "open" /\ q.files = rest
         /\ p.kind = "initialize" /\ rest \in Pending
  <2>1. CASE rest = <<>>
    BY <2>1
  <2>2. CASE rest # <<>>
    <3>1. p.kind = "initialize" /\ rest \in Pending
      BY <1>1, <2>2, NextFile, PendingFiles
    <3> HIDE DEF p, rest
    <3>2. next.at = "open" /\ next.files = rest /\ DOMAIN next = Fields
      BY <1>1, FieldsAre DEF IsRequest, Typed
    <3>3. Continues(p, next)
      BY <1>1, FieldsAre DEF IsRequest, Typed, Continues
    <3>4. SameTask(p, next)
      BY <1>1, <3>3, FieldsAre DEF IsRequest, Typed, SameTask
    <3> HIDE DEF next
    <3>5. IsRequest(next)
      BY <1>1, <3>1, <3>2, <3>4
      DEF IsRequest, Typed, SameTask, Continues, Control, Names, HasData, HasRole, Writing, Kind,
          AccountKind, PinKind
    <3> QED
      BY <2>2, <3>1, <3>2, <3>4, <3>5
  <2> QED
    BY <2>1, <2>2
<1>6. IsRequest(q)
  BY <1>5, IdleIsRequest
<1> HIDE DEF q
<1>7. RequestsInv' /\ req'[r] = q /\ OthersKeep(r, f, TRUE)
  BY <1>1, <1>4, <1>6, Outdating
<1> QED
  BY <1>1, <1>2, <1>3, <1>5, <1>7 DEF Written

----------------------------------------------------------------------------
(* Every step is one of these; type correctness.                           *)

\* The kinds of steps.
OpenStep(r) ==
    /\ Opened(r) /\ RequestsInv'
    /\ UNCHANGED <<session, present, issued, changes, crashes, lost, granted>>

WriteStep(r) ==
    /\ Written(r) /\ RequestsInv'
    /\ lost' = IF req[r].outdated THEN lost \cup {Head(req[r].files)} ELSE lost
    /\ UNCHANGED <<session, present, issued, changes, crashes, granted>>

TokenStep ==
    /\ UNCHANGED <<file, mode, req, present, issued, crashes, lost, granted>>

CrashStep ==
    /\ crashes' = crashes + 1
    /\ req' = [r \in Request |-> Idle]
    /\ UNCHANGED <<file, mode, tokens, present, issued, lost, granted>>

DocumentStep ==
    /\ present' \subseteq Document
    /\ UNCHANGED <<file, mode, tokens, req, issued, crashes, lost, granted>>

LEMMA NextCases ==
    ASSUME TypeInv, [Next]_vars
    PROVE  \/ \E r \in Request : Beginning(r)
           \/ \E r \in Request : Proceeding(r)
           \/ \E r \in Request : OpenStep(r)
           \/ \E r \in Request : WriteStep(r)
           \/ TokenStep /\ (GuestLogin \/ LocalLogin \/ Authenticate \/ tokens' \subseteq tokens)
           \/ DocumentStep
           \/ CrashStep
<1>1. ASSUME NEW r \in Request, Step(r)
      PROVE  Beginning(r) \/ Proceeding(r) \/ OpenStep(r) \/ WriteStep(r)
  <2>1. CASE \/ BeginSettings(r) \/ BeginAccounts(r) \/ BeginRemoveAccount(r) \/ BeginProfile(r)
             \/ BeginPin(r) \/ BeginUnpin(r) \/ BeginSort(r) \/ BeginInitialize(r)
    BY <2>1, NewSettings, NewAccounts, NewRemoveAccount, NewProfile, NewPin, NewUnpin, NewSort,
       NewInitialize
  <2>2. CASE \/ ReadRole(r) \/ Read(r) \/ ReadPins(r) \/ ResolvePin(r) \/ AddPin(r)
             \/ CheckSettings(r) \/ CheckAccounts(r)
    BY <2>2, ReadRoleProceeds, ReadProceeds, ReadPinsProceeds, ResolvePinProceeds, AddPinProceeds,
       CheckSettingsProceeds, CheckAccountsProceeds
  <2>3. CASE OpenFile(r)
    BY <2>3, OpenFileOpens DEF OpenStep, OpenFile
  <2>4. CASE WriteFile(r)
    BY <2>4, WriteFileWrites DEF WriteStep, WriteFile
  <2> QED
    BY <1>1, <2>1, <2>2, <2>3, <2>4 DEF Step
<1>2. CASE GuestLogin \/ LocalLogin \/ Authenticate
  <2>1. TokenStep
    BY <1>2 DEF GuestLogin, LocalLogin, Authenticate, Issue, TokenStep
  <2> QED
    BY <1>2, <2>1
<1>3. CASE Expire
  BY <1>3 DEF Expire, TokenStep
<1>4. CASE DocumentChanges
  BY <1>4 DEF DocumentChanges, DocumentStep, session, TypeInv, SessionInv
<1>5. CASE Crash
  BY <1>5 DEF Crash, CrashStep, session
<1>6. CASE UNCHANGED vars
  BY <1>6 DEF vars, TokenStep
<1> QED
  BY <1>1, <1>2, <1>3, <1>4, <1>5, <1>6 DEF Next

\* What is written is well-formed.
LEMMA NewDataType ==
    ASSUME NEW q, IsRequest(q), Writing(q), NEW f, f = Head(q.files)
    PROVE  /\ f = "accounts" => AreAccounts(NewData(q, f))
           /\ f = "pinned" => ArePins(NewData(q, f))
<1>1. CASE q.kind = "initialize"
  <2>1. CASE f = "accounts"
    <3> DEFINE password == IF mode = "local" THEN Nothing ELSE q.id
               entry == [role |-> "administrator", name |-> q.id, password |-> password]
    <3>0. PICK none : none = <<>>
      OBVIOUS
    <3>1. NewData(q, f) = With(none, q.account, entry)
      BY <1>1, <2>1, <3>0 DEF NewData
    <3>2. q.account \in Account /\ q.id \in Nat
      BY <1>1 DEF IsRequest, Names, Typed
    <3>3. password \in Nat \cup {Nothing}
      BY <3>2
    <3>4. entry \in Entry
      BY <3>2, <3>3, DatasetsAssumption DEF Entry
    <3>5. AreAccounts(none)
      BY <3>0 DEF AreAccounts
    <3> HIDE DEF entry
    <3>6. AreAccounts(With(none, q.account, entry))
      BY <3>2, <3>4, <3>5, WithEntry
    <3> QED
      BY <2>1, <3>1, <3>6
  <2>2. CASE f = "pinned"
    <3>1. NewData(q, f) = <<>>
      BY <1>1, <2>2 DEF NewData
    <3>2. <<>> \in Seq(Document) /\ DOMAIN <<>> = {}
      OBVIOUS
    <3>3. ArePins(<<>>)
      BY <3>2 DEF ArePins, IsInjective
    <3> QED
      BY <2>2, <3>1, <3>3
  <2> QED
    BY <2>1, <2>2
<1>2. CASE q.kind # "initialize"
  <2>1. q.kind \in Kind /\ f = FileOf(q.kind)
    BY <1>2, NextFile
  <2>2. CASE f \in {"accounts", "pinned"}
    <3>1. NewData(q, f) = q.read
      BY <1>2, <2>2 DEF NewData
    <3>2. f = "accounts" => q.kind \in AccountKind
      BY <1>2, <2>1 DEF FileOf, Kind, AccountKind
    <3>3. f = "pinned" => q.kind \in PinKind
      BY <1>2, <2>1 DEF FileOf, Kind, PinKind
    <3> QED
      BY <3>1, <3>2, <3>3 DEF IsRequest, HasData
  <2> QED
    BY <2>2
<1> QED
  BY <1>1, <1>2

\* Type correctness is inductive.
LEMMA InitType == Init => TypeInv
<1> SUFFICES ASSUME Init PROVE TypeInv
  OBVIOUS
<1>1. FilesInv
  <2>1. file \in InitialFiles
    BY DEF Init
  <2> QED
    BY <2>1, InitialFilesAssumption DEF FilesInv, FileState, Data, Exists, File
<1>2. RequestsInv
  BY IdleIsRequest DEF Init, RequestsInv
<1>3. granted \subseteq Account \X Role
  BY <1>1 DEF Init, FilesInv, AreAccounts, Entry
<1>4. SessionInv
  BY <1>3 DEF Init, SessionInv
<1> QED
  BY <1>1, <1>2, <1>4 DEF TypeInv

LEMMA TypePreserved == TypeInv /\ [Next]_vars => TypeInv'
<1> SUFFICES ASSUME TypeInv, [Next]_vars PROVE TypeInv'
  OBVIOUS
<1>1. ASSUME NEW r \in Request, Beginning(r)
      PROVE  TypeInv'
  BY <1>1, BeginType DEF Beginning, Fresh, Granting
<1>2. ASSUME NEW r \in Request, Proceeding(r)
      PROVE  TypeInv'
  BY <1>2, ProceedType DEF Proceeding
<1>3. ASSUME NEW r \in Request, OpenStep(r)
      PROVE  TypeInv'
  <2> DEFINE p == req[r]
             f == Head(p.files)
  <2>1. IsRequest(p) /\ Writing(p)
    BY <1>3 DEF TypeInv, RequestsInv, OpenStep, Opened, Writing
  <2>2. f \in File
    BY <2>1, NextFile
  <2>3. FileBecomes(f, "empty", Data(f))
    BY <1>3 DEF OpenStep, Opened
  <2> HIDE DEF f
  <2>4. \A g \in File : /\ file'[g].data = file[g].data
                        /\ file'[g].state = IF g = f THEN "empty" ELSE file[g].state
    BY <2>2, <2>3 DEF FileBecomes, Data
  <2>5. DOMAIN file' = File
    BY <2>3 DEF FileBecomes
  <2>6. FilesInv'
    <3>1. AreAccounts(file["accounts"].data) /\ ArePins(file["pinned"].data)
      BY DEF TypeInv, FilesInv, Data
    <3>2. file["accounts"].state = "missing" => DOMAIN file["accounts"].data = {}
      BY DEF TypeInv, FilesInv, Data, Exists
    <3>3. \A g \in File : file'[g].state \in FileState
      BY <2>4 DEF TypeInv, FilesInv, FileState
    <3> QED
      BY <2>4, <2>5, <3>1, <3>2, <3>3 DEF FilesInv, Data, Exists, File
  <2>7. SessionInv'
    BY <1>3 DEF OpenStep, session, TypeInv, SessionInv
  <2> QED
    BY <1>3, <2>6, <2>7 DEF TypeInv, OpenStep
<1>4. ASSUME NEW r \in Request, WriteStep(r)
      PROVE  TypeInv'
  <2> DEFINE p == req[r]
             f == Head(p.files)
  <2>1. IsRequest(p) /\ Writing(p)
    BY <1>4 DEF TypeInv, RequestsInv, WriteStep, Written, Writing
  <2>2. f \in File
    BY <2>1, NextFile
  <2>3. PICK state \in {"whole", "corrupt"} : FileBecomes(f, state, NewData(p, f))
    BY <1>4 DEF WriteStep, Written
  <2>4. /\ f = "accounts" => AreAccounts(NewData(p, f))
        /\ f = "pinned" => ArePins(NewData(p, f))
    BY <2>1, NewDataType
  <2> HIDE DEF f
  <2>5. \A g \in File : g # f => file'[g] = file[g]
    BY <2>3 DEF FileBecomes
  <2>6. DOMAIN file' = File /\ file'[f].state = state /\ file'[f].data = NewData(p, f)
    BY <2>3 DEF FileBecomes
  <2>7. FilesInv'
    <3>1. \A g \in File : file'[g].state \in FileState
      BY <2>5, <2>6 DEF TypeInv, FilesInv, FileState
    <3>2. AreAccounts(file'["accounts"].data)
      BY <2>4, <2>5, <2>6 DEF TypeInv, FilesInv, Data, File
    <3>3. ArePins(file'["pinned"].data)
      BY <2>4, <2>5, <2>6 DEF TypeInv, FilesInv, Data, File
    <3>4. file'["accounts"].state = "missing" => DOMAIN file'["accounts"].data = {}
      BY <2>5, <2>6 DEF TypeInv, FilesInv, Data, Exists, File
    <3> QED
      BY <2>6, <3>1, <3>2, <3>3, <3>4 DEF FilesInv, Data, Exists
  <2>8. SessionInv'
    BY <1>4, <2>2 DEF WriteStep, session, TypeInv, SessionInv, f
  <2> QED
    BY <1>4, <2>7, <2>8 DEF TypeInv, WriteStep
<1>5. CASE TokenStep /\ (GuestLogin \/ LocalLogin \/ Authenticate \/ tokens' \subseteq tokens)
  <2>1. FilesInv' /\ RequestsInv'
    BY <1>5 DEF TokenStep, TypeInv, FilesInv, RequestsInv, Data, Exists
  <2>2. tokens' \subseteq Token
    <3>1. CASE GuestLogin
      BY <3>1 DEF GuestLogin, Issue, TypeInv, SessionInv, Token, GuestAuthorizations, Authorization
    <3>2. CASE LocalLogin
      BY <3>2 DEF LocalLogin, Issue, TypeInv, SessionInv, FilesInv, AreAccounts, Token, LocalAuthorizations
    <3>3. CASE Authenticate
      <4>1. PICK x \in DOMAIN Data("accounts") : Issue(x, RoleAuthorizations(Data("accounts")[x].role))
        BY <3>3 DEF Authenticate
      <4>2. x \in Account /\ Data("accounts")[x].role \in Role
        BY DEF TypeInv, FilesInv, AreAccounts, Entry
      <4>3. RoleAuthorizations(Data("accounts")[x].role) \subseteq Authorization
        BY <4>2, DatasetsAssumption DEF RoleAuthorizations, Authorization
      <4> QED
        BY <4>1, <4>2, <4>3 DEF Issue, TypeInv, SessionInv, Token
    <3>4. CASE tokens' \subseteq tokens
      BY <3>4 DEF TypeInv, SessionInv
    <3> QED
      BY <1>5, <3>1, <3>2, <3>3, <3>4
  <2>3. SessionInv'
    BY <1>5, <2>2 DEF TokenStep, TypeInv, SessionInv
  <2> QED
    BY <2>1, <2>3 DEF TypeInv
<1>6. CASE DocumentStep
  BY <1>6 DEF DocumentStep, TypeInv, FilesInv, RequestsInv, SessionInv, Data, Exists
<1>7. CASE CrashStep
  <2>1. RequestsInv'
    BY <1>7, IdleIsRequest DEF CrashStep, RequestsInv
  <2>2. FilesInv' /\ SessionInv'
    BY <1>7 DEF CrashStep, TypeInv, FilesInv, SessionInv, Data, Exists
  <2> QED
    BY <2>1, <2>2 DEF TypeInv
<1> QED
  BY <1>1, <1>2, <1>3, <1>4, <1>5, <1>6, <1>7, NextCases

LEMMA TypeInvariant == Spec => []TypeInv
  BY InitType, TypePreserved, PTL DEF Spec

\* Type correctness: states, accounts, pins, tokens, granted roles and requests are what they
\* are declared to be, and a request writes files of the four.
THEOREM TypeCorrect == Spec => []TypeOK
<1>1. TypeInv => TypeOK
  <2> SUFFICES ASSUME TypeInv PROVE TypeOK
    OBVIOUS
  <2>1. /\ \A f \in File : file[f].state \in FileState
        /\ \A x \in DOMAIN Data("accounts") : x \in Account /\ Data("accounts")[x].role \in Role
        /\ Data("pinned") \in Seq(Document)
    BY DEF TypeInv, FilesInv, AreAccounts, ArePins, Entry
  <2>2. ASSUME NEW r \in Request
        PROVE  (req[r] = Idle \/ req[r].kind \in Kind) /\ Range(req[r].files) \subseteq File
    <3> DEFINE q == req[r]
    <3>1. IsRequest(q)
      BY DEF TypeInv, RequestsInv
    <3>2. CASE q.kind = "idle"
      BY <3>1, <3>2, RangeOf DEF IsRequest, Control, Idle
    <3>3. CASE q.kind # "idle" /\ q.kind # "initialize"
      <4>1. q.kind \in Kind /\ q.files = <<FileOf(q.kind)>>
        BY <3>1, <3>3 DEF IsRequest, Typed, Control
      <4>2. FileOf(q.kind) \in File
        BY <4>1, <3>3 DEF FileOf, Kind, File
      <4> QED
        BY <4>1, <4>2, RangeOf
    <3>4. CASE q.kind = "initialize"
      <4>1. q.files = <<>> \/ q.files \in Pending
        BY <3>1, <3>4 DEF IsRequest, Control, Pending
      <4>2. CASE q.files = <<>>
        BY <3>4, <4>2, RangeOf DEF Kind
      <4>3. CASE q.files \in Pending
        BY <3>4, <4>3, PendingFiles DEF Kind
      <4> QED
        BY <4>1, <4>2, <4>3
    <3> QED
      BY <3>2, <3>3, <3>4
  <2> QED
    BY <2>1, <2>2 DEF TypeOK, TypeInv, SessionInv, Token
<1> QED
  BY <1>1, TypeInvariant, PTL

----------------------------------------------------------------------------
(* Roles are granted.                                                      *)

HasGranted(data) == \A x \in DOMAIN data : <<x, data[x].role>> \in granted

\* The roles that a request stores have been granted.
RolesGranted(q) ==
    /\ q.kind = "accounts" \/ HasRole(q) => <<q.account, q.role>> \in granted
    /\ q.kind = "initialize" => <<q.account, "administrator">> \in granted
    /\ Writing(q) /\ q.kind \in AccountKind => HasGranted(q.read)

AuthorityInv ==
    /\ HasGranted(Data("accounts"))
    /\ \A r \in Request : RolesGranted(req[r])

LEMMA IdleGranted == RolesGranted(Idle)
  BY DEF RolesGranted, Idle, HasRole, Writing, AccountKind

\* What has been granted stays granted.
LEMMA GrantedLater ==
    ASSUME granted \subseteq granted', NEW p, RolesGranted(p), NEW q, Keeps(p, q) \/ q = p
    PROVE  /\ q.kind = "accounts" \/ HasRole(q) => <<q.account, q.role>> \in granted'
           /\ q.kind = "initialize" => <<q.account, "administrator">> \in granted'
           /\ Writing(q) /\ q.kind \in AccountKind =>
                 \A x \in DOMAIN q.read : <<x, q.read[x].role>> \in granted'
  BY DEF RolesGranted, HasGranted, Keeps, HasRole, Writing

LEMMA AuthorityOfOthers ==
    ASSUME RequestsInv, granted \subseteq granted', \A r \in Request : RolesGranted(req[r]),
           NEW r \in Request, RolesGranted(req[r])',
           \A x \in Request \ {r} : Keeps(req[x], req'[x]) \/ req'[x] = req[x]
    PROVE  (\A x \in Request : RolesGranted(req[x]))'
<1>1. ASSUME NEW x \in Request, x # r
      PROVE  RolesGranted(req[x])'
  <2> DEFINE q == req'[x]
  <2>1. Keeps(req[x], q) \/ q = req[x]
    BY <1>1
  <2>2. /\ q.kind = "accounts" \/ HasRole(q) => <<q.account, q.role>> \in granted'
        /\ q.kind = "initialize" => <<q.account, "administrator">> \in granted'
        /\ Writing(q) /\ q.kind \in AccountKind =>
              \A y \in DOMAIN q.read : <<y, q.read[y].role>> \in granted'
    BY <2>1, GrantedLater
  <2> QED
    BY <2>2 DEF RolesGranted, HasGranted, HasRole, Writing
<1> QED
  BY <1>1

LEMMA AuthorityInit == Init => AuthorityInv /\ AuthorityIsGranted
<1> SUFFICES ASSUME Init PROVE AuthorityInv /\ AuthorityIsGranted
  OBVIOUS
<1>1. HasGranted(Data("accounts"))
  <2>1. TypeInv
    BY InitType
  <2>2. ~Exists("accounts") => DOMAIN Data("accounts") = {}
    BY <2>1 DEF TypeInv, FilesInv
  <2> QED
    BY <2>2 DEF Init, HasGranted
<1>2. \A r \in Request : RolesGranted(req[r])
  BY IdleGranted DEF Init
<1>3. AuthorityIsGranted
  BY DEF Init, AuthorityIsGranted
<1> QED
  BY <1>1, <1>2, <1>3 DEF AuthorityInv

LEMMA AuthorityKept ==
    ASSUME AuthorityIsGranted, granted \subseteq granted', mode' = mode, tokens' \subseteq tokens
    PROVE  AuthorityIsGranted'
  BY DEF AuthorityIsGranted

\* A token is issued from stored roles, which have been granted; a request stores a role
\* that it was given, or one that it has read.
LEMMA AuthorityPreserved ==
    TypeInv /\ AuthorityInv /\ AuthorityIsGranted /\ [Next]_vars => AuthorityInv' /\ AuthorityIsGranted'
<1> SUFFICES ASSUME TypeInv, AuthorityInv, AuthorityIsGranted, [Next]_vars
             PROVE  AuthorityInv' /\ AuthorityIsGranted'
  OBVIOUS
<1> RequestsInv /\ \A r \in Request : RolesGranted(req[r])
  BY DEF TypeInv, AuthorityInv
<1>1. ASSUME NEW r \in Request, Beginning(r)
      PROVE  AuthorityInv' /\ AuthorityIsGranted'
  <2>1. PICK endpoint, q : Begin(r, endpoint, q) /\ Fresh(q) /\ Granting(q)
    BY <1>1 DEF Beginning
  <2>2. req'[r] = q /\ \A x \in Request \ {r} : req'[x] = req[x]
    BY <2>1 DEF Begin, RequestsInv
  <2>3. RolesGranted(q)'
    <3>1. ~HasRole(q)
      BY <2>1 DEF Fresh, HasRole, IsRequest, Control, Kind
    <3>2. ~(Writing(q) /\ q.kind \in AccountKind)
      BY <2>1 DEF Fresh, Writing, AccountKind
    <3> QED
      BY <2>1, <3>1, <3>2 DEF Granting, RolesGranted
  <2>4. granted \subseteq granted' /\ file' = file /\ mode' = mode /\ tokens' = tokens
    BY <2>1 DEF Granting, Begin, session
  <2>5. (\A x \in Request : RolesGranted(req[x]))'
    BY <2>2, <2>3, <2>4, AuthorityOfOthers
  <2>6. HasGranted(Data("accounts"))'
    BY <2>4 DEF AuthorityInv, HasGranted, Data
  <2> QED
    BY <2>4, <2>5, <2>6, AuthorityKept DEF AuthorityInv
<1>2. ASSUME NEW r \in Request, Proceeding(r)
      PROVE  AuthorityInv' /\ AuthorityIsGranted'
  <2> DEFINE p == req[r]
  <2>1. PICK q : /\ Proceed(r, q) /\ IsRequest(q)
                 /\ \/ q = Idle
                    \/ Continues(p, q) /\ Turns(p, q)
    BY <1>2 DEF Proceeding
  <2>2. req'[r] = q /\ \A x \in Request \ {r} : req'[x] = req[x]
    BY <2>1 DEF Proceed, RequestsInv
  <2>3. granted' = granted /\ file' = file /\ mode' = mode /\ tokens' = tokens
    BY <2>1 DEF Proceed, session
  <2>4. IsRequest(p) /\ RolesGranted(p) /\ HasGranted(Data("accounts")) /\ AreAccounts(Data("accounts"))
    BY DEF RequestsInv, AuthorityInv, TypeInv, FilesInv
  <2>5. RolesGranted(q)
    <3> HIDE DEF p
    <3>1. CASE RoleRead(p, q) /\ Continues(p, q)
      BY <2>4, <3>1 DEF RoleRead, Continues, RolesGranted, HasGranted, HasRole, Writing
    <3>2. CASE DataRead(p, q) /\ Continues(p, q)
      <4>1. /\ q.kind = p.kind /\ q.account = p.account /\ q.role = p.role /\ q.at = "open"
            /\ p.at = "read"
        BY <3>2 DEF DataRead, Continues
      <4>2. CASE p.kind \in AccountKind
        <5>1. q.read = Stored(p, Data("accounts")) /\ q.read # Nothing
          BY <3>2, <4>2 DEF DataRead, FileOf, AccountKind
        <5>2. p.kind # "removeAccount" => <<p.account, p.role>> \in granted
          BY <2>4, <4>1, <4>2 DEF RolesGranted, HasRole, AccountKind
        <5>3. \A x \in DOMAIN q.read :
                 \/ x \in DOMAIN Data("accounts") /\ q.read[x].role = Data("accounts")[x].role
                 \/ p.kind # "removeAccount" /\ x = p.account /\ q.read[x].role = p.role
          BY <2>4, <4>1, <4>2, <5>1, StoredAccounts
        <5>4. HasGranted(q.read)
          BY <2>4, <5>2, <5>3 DEF HasGranted
        <5> QED
          BY <2>4, <4>1, <4>2, <5>4 DEF RolesGranted, HasRole, AccountKind
      <4>3. CASE p.kind \notin AccountKind
        BY <2>4, <4>1, <4>3, <3>2 DEF RolesGranted, HasRole, AccountKind, DataRead
      <4> QED
        BY <4>2, <4>3
    <3>3. CASE (PinsRead(p, q) \/ PinResolved(p, q) \/ PinAdded(p, q)) /\ Continues(p, q)
      BY <3>3 DEF PinsRead, PinResolved, PinAdded, Continues, RolesGranted, HasRole, AccountKind
    <3>4. CASE (SettingsChecked(p, q) \/ AccountsChecked(p, q)) /\ Continues(p, q)
      BY <2>4, <3>4
      DEF SettingsChecked, AccountsChecked, Continues, RolesGranted, HasRole, AccountKind
    <3> QED
      BY <2>1, <3>1, <3>2, <3>3, <3>4, IdleGranted DEF Turns
  <2>6. RolesGranted(q)'
    BY <2>3, <2>5 DEF RolesGranted, HasGranted
  <2>7. (\A x \in Request : RolesGranted(req[x]))'
    BY <2>2, <2>3, <2>6, AuthorityOfOthers
  <2>8. HasGranted(Data("accounts"))'
    BY <2>3, <2>4 DEF HasGranted, Data
  <2> QED
    BY <2>3, <2>7, <2>8, AuthorityKept DEF AuthorityInv
<1>3. ASSUME NEW r \in Request, OpenStep(r) \/ WriteStep(r)
      PROVE  AuthorityInv' /\ AuthorityIsGranted'
  <2> DEFINE p == req[r]
             f == Head(p.files)
  <2>1. IsRequest(p) /\ RolesGranted(p) /\ Writing(p) /\ p.kind \in Kind
    BY <1>3 DEF OpenStep, WriteStep, Opened, Written, RequestsInv, Writing
  <2>2. granted' = granted /\ mode' = mode /\ tokens' = tokens
    BY <1>3 DEF OpenStep, WriteStep, session
  <2>3. \A x \in Request \ {r} : Keeps(req[x], req'[x])
    BY <1>3 DEF OpenStep, WriteStep, Opened, Written, OthersKeep
  <2>4. req'[r] = Idle \/ (SameTask(p, req'[r]) /\ Writing(req'[r]))
    BY <1>3 DEF OpenStep, WriteStep, Opened, Written, Writing
  <2>5. RolesGranted(req[r])'
    <3>1. CASE req'[r] = Idle
      <4>1. RolesGranted(Idle)'
        BY DEF RolesGranted, Idle, HasRole, Writing, AccountKind
      <4> QED
        BY <3>1, <4>1
    <3>2. CASE SameTask(p, req'[r]) /\ Writing(req'[r])
      BY <2>1, <2>2, <3>2 DEF SameTask, Continues, RolesGranted, HasGranted, HasRole, Writing
    <3> QED
      BY <2>4, <3>1, <3>2
  <2>6. (\A x \in Request : RolesGranted(req[x]))'
    BY <2>2, <2>3, <2>5, AuthorityOfOthers
  <2>7. f \in File
    BY <2>1, NextFile
  <2>8. HasGranted(Data("accounts"))
    BY DEF AuthorityInv
  <2>9. HasGranted(Data("accounts"))'
    <3>1. CASE OpenStep(r)
      <4>1. FileBecomes(f, "empty", Data(f))
        BY <3>1 DEF OpenStep, Opened
      <4> HIDE DEF f
      <4>2. file'["accounts"].data = file["accounts"].data
        BY <4>1 DEF FileBecomes, Data, File
      <4> QED
        BY <2>2, <2>8, <4>2 DEF HasGranted, Data
    <3>2. CASE WriteStep(r)
      <4>1. PICK state \in {"whole", "corrupt"} : FileBecomes(f, state, NewData(p, f))
        BY <3>2 DEF WriteStep, Written
      <4> HIDE DEF f
      <4>2. CASE f # "accounts"
        <5>1. file'["accounts"].data = file["accounts"].data
          BY <4>1, <4>2 DEF FileBecomes, File
        <5> QED
          BY <2>2, <2>8, <5>1 DEF HasGranted, Data
      <4>3. CASE f = "accounts"
        <5>1. file'["accounts"].data = NewData(p, f)
          BY <4>1, <4>3 DEF FileBecomes
        <5>2. HasGranted(NewData(p, f))
          <6>1. CASE p.kind = "initialize"
            <7> DEFINE entry == [role |-> "administrator", name |-> p.id,
                                 password |-> IF mode = "local" THEN Nothing ELSE p.id]
            <7>1. NewData(p, f) = With(<<>>, p.account, entry)
              BY <4>3, <6>1 DEF NewData
            <7>2. <<p.account, "administrator">> \in granted
              BY <2>1, <6>1 DEF RolesGranted
            <7>3. entry.role = "administrator"
              OBVIOUS
            <7> HIDE DEF entry
            <7>4. \A x \in DOMAIN With(<<>>, p.account, entry) :
                     x = p.account /\ With(<<>>, p.account, entry)[x] = entry
              BY DEF With
            <7> QED
              BY <7>1, <7>2, <7>3, <7>4 DEF HasGranted
          <6>2. CASE p.kind # "initialize"
            <7>1. FileOf(p.kind) = "accounts"
              BY <2>1, <4>3, <6>2, NextFile DEF f
            <7>2. p.kind \in AccountKind
              BY <2>1, <6>2, <7>1 DEF FileOf, Kind, AccountKind
            <7>3. NewData(p, f) = p.read
              BY <4>3, <6>2 DEF NewData
            <7> QED
              BY <2>1, <7>2, <7>3 DEF RolesGranted
          <6> QED
            BY <6>1, <6>2
        <5> QED
          BY <2>2, <5>1, <5>2 DEF HasGranted, Data
      <4> QED
        BY <4>2, <4>3
    <3> QED
      BY <1>3, <3>1, <3>2
  <2> QED
    BY <2>2, <2>6, <2>9, AuthorityKept DEF AuthorityInv
<1>4. CASE TokenStep /\ (GuestLogin \/ LocalLogin \/ Authenticate \/ tokens' \subseteq tokens)
  <2>1. AuthorityInv'
    BY <1>4 DEF TokenStep, AuthorityInv, RolesGranted, HasGranted, Data
  <2>2. granted' = granted /\ mode' = mode
    BY <1>4 DEF TokenStep
  <2>3. CASE GuestLogin
    <3>1. \A t \in tokens' \ tokens : t.authorizations = {"read"}
      BY <2>3 DEF GuestLogin, Issue, GuestAuthorizations
    <3> QED
      BY <2>1, <2>2, <3>1 DEF AuthorityIsGranted
  <2>4. CASE LocalLogin
    BY <2>1, <2>2, <2>4 DEF LocalLogin, AuthorityIsGranted
  <2>5. CASE Authenticate
    <3>1. PICK x \in DOMAIN Data("accounts") : Issue(x, RoleAuthorizations(Data("accounts")[x].role))
      BY <2>5 DEF Authenticate
    <3> DEFINE role == Data("accounts")[x].role
    <3>2. <<x, role>> \in granted /\ role \in Role
      BY DEF AuthorityInv, HasGranted, TypeInv, FilesInv, AreAccounts, Entry
    <3>3. role \in {"administrator", "author", "user"}
      BY <3>2, DatasetsAssumption
    <3>4. \A t \in tokens' \ tokens : t.account = x /\ t.authorizations = RoleAuthorizations(role)
      BY <3>1 DEF Issue
    <3> HIDE DEF role
    <3>5. /\ RoleAuthorizations(role) \cap {"manage", "sync"} # {} => role = "administrator"
          /\ RoleAuthorizations(role) \cap {"write", "delete"} # {} => role # "user"
      BY <3>3 DEF RoleAuthorizations
    <3> QED
      BY <2>1, <2>2, <3>2, <3>4, <3>5 DEF AuthorityIsGranted
  <2>6. CASE tokens' \subseteq tokens
    BY <2>1, <2>2, <2>6, AuthorityKept
  <2> QED
    BY <1>4, <2>1, <2>3, <2>4, <2>5, <2>6
<1>5. CASE DocumentStep
  BY <1>5, AuthorityKept DEF DocumentStep, AuthorityInv, RolesGranted, HasGranted, Data
<1>6. CASE CrashStep
  <2>1. granted' = granted /\ mode' = mode /\ tokens' = tokens /\ file' = file
    BY <1>6 DEF CrashStep
  <2>2. \A x \in Request : req'[x] = Idle
    BY <1>6 DEF CrashStep
  <2>3. (\A x \in Request : RolesGranted(req[x]))'
    BY <2>2 DEF RolesGranted, Idle, HasRole, Writing, AccountKind
  <2> QED
    BY <2>1, <2>3, AuthorityKept DEF AuthorityInv, HasGranted, Data
<1> QED
  BY <1>1, <1>2, <1>3, <1>4, <1>5, <1>6, NextCases

\* For every request of accounts.service.ts and every login of tokens.service.ts, in whatever order
\* they read and write: whoever has the authorization to write or to manage was given
\* it with a role.
THEOREM AuthorityOnlyByGrant == Spec => []AuthorityIsGranted
<1>1. TypeInv /\ AuthorityInv /\ AuthorityIsGranted /\ [Next]_vars
      => (TypeInv /\ AuthorityInv /\ AuthorityIsGranted)'
  BY TypePreserved, AuthorityPreserved
<1>2. Init => TypeInv /\ AuthorityInv /\ AuthorityIsGranted
  BY InitType, AuthorityInit
<1> QED
  BY <1>1, <1>2, PTL DEF Spec

----------------------------------------------------------------------------
(* Files are created in their order.                                       *)

\* The files are created in their order.
InOrder ==
    /\ Exists("accounts") => Exists("settings")
    /\ Exists("pinned") => Exists("accounts")
    /\ Exists("index") => Exists("pinned")

\* What is written is there; an initialization has created what is behind it.
Started(q) ==
    /\ q.kind \in Kind \ {"initialize"} /\ q.at \in {"resolve", "open", "write"} => Exists(FileOf(q.kind))
    /\ q.kind = "initialize" /\ q.at = "checkAccounts" => Exists("settings")
    /\ q.kind = "initialize" /\ Writing(q) => \A f \in File \ Range(q.files) : Exists(f)
    /\ q.kind = "initialize" /\ q.at = "write" => Exists(Head(q.files))

\* What it has not created yet nobody else has, unless it is outdated.
Ahead(q) == IF q.at = "open" THEN Range(q.files) ELSE Range(Tail(q.files))

FirstToCreate(q) ==
    q.kind = "initialize" /\ Writing(q) /\ ~q.outdated =>
        \A f \in Ahead(q) \ {"settings"} : ~Exists(f)

Complete ==
    Exists("accounts") =>
        \/ Exists("index")
        \/ crashes > 0
        \/ \E r \in Request : req[r].kind = "initialize" /\ Writing(req[r])

CreationInv ==
    /\ InOrder /\ Complete
    /\ \A r \in Request : Started(req[r]) /\ FirstToCreate(req[r])

\* What the steps do to the existence of files: nothing, but that an initialization
\* creates them.
Kept == \A f \in File : Exists(f)' <=> Exists(f)

LEMMA StartedLater ==
    ASSUME NEW p, Started(p), IsRequest(p), NEW q, Keeps(p, q) \/ q = p,
           \A f \in File : Exists(f) => Exists(f)'
    PROVE  Started(q)'
<1>1. /\ q.kind = p.kind /\ q.at = p.at /\ q.files = p.files
  BY DEF Keeps
<1>2. q.kind \in Kind \ {"initialize"} => FileOf(q.kind) \in File
  BY DEF FileOf, Kind, File
<1>3. q.kind = "initialize" /\ q.at = "write" => Head(q.files) \in File
  BY <1>1, NextFile DEF Writing
<1>4. "settings" \in File
  BY DEF File
<1> QED
  BY <1>1, <1>2, <1>3, <1>4 DEF Started, Writing

LEMMA AheadIsPending ==
    ASSUME NEW q, IsRequest(q), Writing(q), q.kind = "initialize"
    PROVE  Ahead(q) \subseteq Range(q.files) /\ Ahead(q) \subseteq File
<1>1. q.files \in Pending
  BY NextFile
<1> QED
  BY <1>1, PendingFiles DEF Ahead

LEMMA IdleCreates == Started(Idle) /\ FirstToCreate(Idle)
  BY DEF Started, FirstToCreate, Idle, Kind

LEMMA InitCreation == Init => CreationInv
<1> SUFFICES ASSUME Init PROVE CreationInv
  OBVIOUS
<1>1. (\A f \in File : Exists(f)) \/ (\A f \in File : ~Exists(f))
  BY InitialFilesAssumption DEF Init, Exists
<1>2. InOrder /\ Complete
  BY <1>1 DEF InOrder, Complete, File
<1> QED
  BY <1>2, IdleCreates DEF Init, CreationInv

\* A step that creates no file and under which no initialization ends.
LEMMA CreationKept ==
    ASSUME TypeInv, CreationInv, Kept, crashes' = crashes,
           NEW r \in Request,
           \A x \in Request \ {r} : Keeps(req[x], req'[x]) \/ req'[x] = req[x],
           Started(req[r])', FirstToCreate(req[r])',
           \/ ~(req[r].kind = "initialize" /\ Writing(req[r]))
           \/ req'[r].kind = "initialize" /\ Writing(req'[r])
           \/ Exists("index")
    PROVE  CreationInv'
<1>1. InOrder'
  BY DEF InOrder, Kept, CreationInv, File
<1>2. ASSUME NEW x \in Request, x # r
      PROVE  Started(req[x])' /\ FirstToCreate(req[x])'
  <2> DEFINE p == req[x]
  <2>0. PICK q : q = req'[x]
    OBVIOUS
  <2>1. IsRequest(p) /\ Started(p) /\ FirstToCreate(p) /\ (Keeps(p, q) \/ q = p)
    BY <1>2, <2>0 DEF TypeInv, RequestsInv, CreationInv
  <2>2. Started(q)'
    BY <2>1, StartedLater DEF Kept
  <2>3. FirstToCreate(q)'
    <3>1. SUFFICES ASSUME q.kind = "initialize", Writing(q), ~q.outdated
                   PROVE  \A f \in Ahead(q) \ {"settings"} : ~Exists(f)'
      BY DEF FirstToCreate, Writing, Ahead
    <3>2. p.kind = "initialize" /\ Writing(p) /\ ~p.outdated /\ Ahead(q) = Ahead(p)
      BY <2>1, <3>1 DEF Keeps, Writing, Ahead
    <3>3. Ahead(p) \subseteq File
      BY <2>1, <3>2, AheadIsPending
    <3> QED
      BY <2>1, <3>2, <3>3 DEF FirstToCreate, Kept
  <2> QED
    BY <2>0, <2>2, <2>3 DEF Started, FirstToCreate, Writing, Ahead
<1>3. Complete'
  <2>1. SUFFICES ASSUME Exists("accounts")', ~Exists("index")', ~(crashes > 0)
                 PROVE  \E x \in Request : req'[x].kind = "initialize" /\ Writing(req'[x])
    BY DEF Complete, Writing
  <2>2. Exists("accounts") /\ ~Exists("index")
    BY <2>1 DEF Kept, File
  <2>3. PICK x \in Request : req[x].kind = "initialize" /\ Writing(req[x])
    BY <2>1, <2>2 DEF CreationInv, Complete
  <2>4. CASE x = r
    BY <2>2, <2>3, <2>4
  <2>5. CASE x # r
    <3>1. Keeps(req[x], req'[x]) \/ req'[x] = req[x]
      BY <2>5
    <3> QED
      BY <2>3, <3>1 DEF Keeps, Writing
  <2> QED
    BY <2>4, <2>5
<1> QED
  BY <1>1, <1>2, <1>3 DEF CreationInv

\* Opening creates the next file of an initialization.
LEMMA OpenCreates ==
    ASSUME TypeInv, CreationInv, NEW r \in Request, OpenStep(r)
    PROVE  CreationInv'
<1> DEFINE p == req[r]
<1>0. PICK f : f = Head(p.files)
  OBVIOUS
<1>1. /\ IsRequest(p) /\ Writing(p) /\ p.at = "open" /\ Started(p) /\ FirstToCreate(p) /\ InOrder
      /\ crashes' = crashes
  BY DEF TypeInv, RequestsInv, CreationInv, OpenStep, Opened, Writing
<1>2. f \in File
  BY <1>0, <1>1, NextFile
<1>3. FileBecomes(f, "empty", Data(f)) /\ OthersKeep(r, f, ~Exists(f))
  BY <1>0 DEF OpenStep, Opened
<1>4. SameTask(p, req'[r]) /\ req'[r].at = "write" /\ req'[r].files = p.files
  BY DEF OpenStep, Opened
<1>5. Exists(f)' /\ \A g \in File \ {f} : Exists(g)' <=> Exists(g)
  BY <1>2, <1>3 DEF FileBecomes, Exists
<1>6. \A g \in File : Exists(g) => Exists(g)'
  BY <1>5
<1>7. /\ req'[r].kind = p.kind /\ req'[r].outdated = p.outdated
  BY <1>4 DEF SameTask, Continues
<1>8. Started(req[r])'
  <2>1. p.kind \in Kind \ {"initialize"} => FileOf(p.kind) = f
    BY <1>0, <1>1, NextFile
  <2> HIDE DEF p
  <2>2. p.kind = "initialize" => \A g \in File \ Range(p.files) : Exists(g)'
    BY <1>1, <1>6 DEF Started
  <2> QED
    BY <1>0, <1>4, <1>5, <1>7, <2>1, <2>2 DEF Started, Writing
<1>9. FirstToCreate(req[r])'
  <2>1. SUFFICES ASSUME p.kind = "initialize", ~p.outdated
                 PROVE  \A g \in Range(Tail(p.files)) \ {"settings"} : ~Exists(g)'
    BY <1>4, <1>7 DEF FirstToCreate, Ahead
  <2>2. p.files \in Pending
    BY <1>1, <2>1, NextFile
  <2>3. f \notin Range(Tail(p.files)) /\ Range(Tail(p.files)) \subseteq Range(p.files)
        /\ Range(p.files) \subseteq File
    BY <1>0, <2>2, PendingFiles
  <2>4. \A g \in Range(p.files) \ {"settings"} : ~Exists(g)
    BY <1>1, <2>1 DEF FirstToCreate, Ahead
  <2> QED
    BY <1>5, <2>3, <2>4
<1>10. CASE Exists(f)
  <2>1. Kept
    BY <1>5, <1>10 DEF Kept
  <2>2. \A x \in Request \ {r} : Keeps(req[x], req'[x])
    BY <1>3 DEF OthersKeep
  <2>3. p.kind = "initialize" => req'[r].kind = "initialize" /\ Writing(req'[r])
    BY <1>4, <1>7 DEF Writing
  <2> QED
    BY <1>1, <1>8, <1>9, <2>1, <2>2, <2>3, CreationKept
<1>11. CASE ~Exists(f)
  <2>1. p.kind = "initialize"
    <3>1. p.kind # "initialize" => Exists(FileOf(p.kind)) /\ f = FileOf(p.kind)
      BY <1>0, <1>1, NextFile DEF Started
    <3> QED
      BY <1>11, <3>1
  <2>2. p.files \in Pending /\ \A g \in File \ Range(p.files) : Exists(g)
    BY <1>1, <2>1, NextFile DEF Started
  <2>3. InOrder'
    <3>1. f = "accounts" => Exists("settings")
      BY <1>0, <2>2, RangeOf DEF Pending, AllFiles, File
    <3>2. f = "pinned" => Exists("accounts")
      BY <1>0, <2>2, RangeOf DEF Pending, AllFiles, File
    <3>3. f = "index" => Exists("pinned")
      BY <1>0, <2>2, RangeOf DEF Pending, AllFiles, File
    <3> QED
      BY <1>1, <1>5, <3>1, <3>2, <3>3 DEF InOrder, File
  <2>4. Complete'
    BY <1>4, <1>7, <2>1 DEF Complete, Writing
  <2>5. ASSUME NEW x \in Request, x # r
        PROVE  Started(req[x])' /\ FirstToCreate(req[x])'
    <3> DEFINE o == req[x]
    <3>0. PICK q : q = req'[x]
      OBVIOUS
    <3>1. /\ IsRequest(o) /\ Started(o) /\ FirstToCreate(o) /\ Keeps(o, q)
          /\ HasRead(x, f) => q.outdated
      BY <1>3, <3>0, <1>11, <2>5 DEF TypeInv, RequestsInv, CreationInv, OthersKeep
    <3>2. Started(q)'
      BY <1>6, <3>1, StartedLater
    <3>3. FirstToCreate(q)'
      <4>1. SUFFICES ASSUME q.kind = "initialize", Writing(q), ~q.outdated
                     PROVE  \A g \in Ahead(q) \ {"settings"} : ~Exists(g)'
        BY DEF FirstToCreate, Writing, Ahead
      <4>2. o.kind = "initialize" /\ Writing(o) /\ ~o.outdated /\ Ahead(q) = Ahead(o)
        BY <3>1, <4>1 DEF Keeps, Writing, Ahead
      <4>3. Ahead(o) \subseteq File /\ Ahead(o) \subseteq Range(o.files)
        BY <3>1, <4>2, AheadIsPending
      <4>4. f \notin Range(o.files)
        BY <3>1, <4>1, <4>2 DEF HasRead, Writing
      <4> QED
        BY <1>5, <3>1, <4>2, <4>3, <4>4 DEF FirstToCreate
    <3> QED
      BY <3>0, <3>2, <3>3 DEF Started, FirstToCreate, Writing, Ahead
  <2> QED
    BY <1>8, <1>9, <2>3, <2>4, <2>5 DEF CreationInv
<1> QED
  BY <1>10, <1>11

\* Writing creates nothing; it takes an initialization to its next file.
LEMMA WriteCreates ==
    ASSUME TypeInv, CreationInv, NEW r \in Request, WriteStep(r)
    PROVE  CreationInv'
<1> DEFINE p == req[r]
           f == Head(p.files)
<1>1. /\ IsRequest(p) /\ Writing(p) /\ p.at = "write" /\ Started(p) /\ FirstToCreate(p)
      /\ p.kind \in Kind /\ crashes' = crashes
  BY DEF TypeInv, RequestsInv, CreationInv, WriteStep, Written, Writing
<1>2. f \in File
  BY <1>1, NextFile
<1>3. PICK state \in {"whole", "corrupt"} : FileBecomes(f, state, NewData(p, f))
  BY DEF WriteStep, Written
<1>4. OthersKeep(r, f, TRUE)
  BY DEF WriteStep, Written
<1>5. \/ req'[r] = Idle /\ Tail(p.files) = <<>>
      \/ /\ SameTask(p, req'[r]) /\ req'[r].at = "open" /\ req'[r].files = Tail(p.files)
         /\ p.kind = "initialize" /\ Tail(p.files) \in Pending
  BY DEF WriteStep, Written
<1>6. Exists(f)
  <2>1. p.kind # "initialize" => f = FileOf(p.kind)
    BY <1>1, NextFile
  <2> QED
    BY <1>1, <2>1 DEF Started
<1>7. Kept
  BY <1>2, <1>3, <1>6 DEF Kept, FileBecomes, Exists
<1>8. \A x \in Request \ {r} : Keeps(req[x], req'[x])
  BY <1>4 DEF OthersKeep
<1>9. CASE req'[r] = Idle /\ Tail(p.files) = <<>>
  <2>1. Started(req[r])' /\ FirstToCreate(req[r])'
    BY <1>9 DEF Started, FirstToCreate, Idle, Kind
  <2>2. p.kind = "initialize" => Exists("index")
    <3>1. SUFFICES ASSUME p.kind = "initialize" PROVE f = "index"
      BY <1>6
    <3>2. p.files \in Pending
      BY <1>1, <3>1, NextFile
    <3> QED
      BY <1>9, <3>2, LastPending
  <2> QED
    BY <1>1, <1>7, <1>8, <2>1, <2>2, CreationKept
<1>10. CASE /\ SameTask(p, req'[r]) /\ req'[r].at = "open" /\ req'[r].files = Tail(p.files)
            /\ p.kind = "initialize" /\ Tail(p.files) \in Pending
  <2>1. req'[r].kind = "initialize" /\ req'[r].outdated = p.outdated /\ Writing(req'[r])
    BY <1>10 DEF SameTask, Continues, Writing
  <2>2. /\ p.files \in Pending /\ Range(p.files) = {f} \cup Range(Tail(p.files))
        /\ Range(p.files) \subseteq File
    BY <1>1, <1>10, NextFile, PendingFiles
  <2>3. \A g \in File \ Range(Tail(p.files)) : Exists(g)'
    BY <1>1, <1>6, <1>7, <1>10, <2>2 DEF Started, Kept
  <2>4. Started(req[r])'
    BY <1>10, <2>1, <2>3 DEF Started
  <2>5. ~p.outdated => \A g \in Range(Tail(p.files)) \ {"settings"} : ~Exists(g)'
    BY <1>1, <1>7, <1>10, <2>2 DEF FirstToCreate, Ahead, Kept
  <2>6. FirstToCreate(req[r])'
    BY <1>10, <2>1, <2>5 DEF FirstToCreate, Ahead
  <2> QED
    BY <1>1, <1>7, <1>8, <2>1, <2>4, <2>6, CreationKept
<1> QED
  BY <1>5, <1>9, <1>10

\* Only an initialization creates files; it does so in order and before it ends.
LEMMA CreationPreserved == TypeInv /\ CreationInv /\ [Next]_vars => CreationInv'
<1> SUFFICES ASSUME TypeInv, CreationInv, [Next]_vars PROVE CreationInv'
  OBVIOUS
<1>1. ASSUME NEW r \in Request, Beginning(r)
      PROVE  CreationInv'
  <2>1. PICK endpoint, q : Begin(r, endpoint, q) /\ Fresh(q) /\ Granting(q)
    BY <1>1 DEF Beginning
  <2>2. req'[r] = q /\ \A x \in Request \ {r} : req'[x] = req[x]
    BY <2>1 DEF Begin, TypeInv, RequestsInv
  <2>3. Kept /\ crashes' = crashes
    BY <2>1 DEF Begin, Kept, Exists
  <2>4. Started(q)'
    <3>1. q.kind = "settings" => FileOf(q.kind) = "settings"
      BY DEF FileOf
    <3>2. Exists("settings") => Exists("settings")'
      BY <2>3 DEF Kept, File
    <3> QED
      BY <2>1, <3>1, <3>2 DEF Fresh, Started, Writing
  <2>5. FirstToCreate(q)'
    BY <2>1 DEF Fresh, FirstToCreate, Writing
  <2>6. ~(req[r].kind = "initialize" /\ Writing(req[r]))
    BY <2>1 DEF Begin, Idle
  <2> QED
    BY <2>2, <2>3, <2>4, <2>5, <2>6, CreationKept
<1>2. ASSUME NEW r \in Request, Proceeding(r)
      PROVE  CreationInv'
  <2> DEFINE p == req[r]
  <2>1. PICK q : /\ Proceed(r, q) /\ IsRequest(q)
                 /\ \/ q = Idle
                    \/ Continues(p, q) /\ Turns(p, q)
    BY <1>2 DEF Proceeding
  <2>2. req'[r] = q /\ \A x \in Request \ {r} : req'[x] = req[x]
    BY <2>1 DEF Proceed, TypeInv, RequestsInv
  <2>3. Kept /\ crashes' = crashes /\ ~Writing(p)
    BY <1>2, <2>1 DEF Proceed, Proceeding, Kept, Exists
  <2>4. IsRequest(p) /\ Started(p) /\ InOrder
    BY DEF TypeInv, RequestsInv, CreationInv
  <2>5. Started(q) /\ FirstToCreate(q)
    <3> HIDE DEF p
    <3>1. CASE RoleRead(p, q) /\ Continues(p, q)
      BY <3>1 DEF RoleRead, Continues, Started, FirstToCreate, Writing
    <3>2. CASE DataRead(p, q) /\ Continues(p, q)
      BY <3>2 DEF DataRead, Continues, Started, FirstToCreate, Writing, AccountKind
    <3>3. CASE (PinsRead(p, q) \/ PinResolved(p, q) \/ PinAdded(p, q)) /\ Continues(p, q)
      BY <2>4, <3>3
      DEF PinsRead, PinResolved, PinAdded, Continues, Started, FirstToCreate, Writing, FileOf, Kind
    <3>4. CASE (SettingsChecked(p, q) \/ AccountsChecked(p, q)) /\ Continues(p, q)
      <4>1. q.kind = "initialize" /\ q.files = AllFiles
        BY <3>4 DEF SettingsChecked, AccountsChecked, Continues
      <4>2. Range(q.files) = File
        BY <4>1, RangeOf DEF AllFiles, File
      <4>3. \/ q.at = "checkAccounts" /\ Exists("settings")
            \/ q.at = "open" /\ ~Exists("accounts")
        BY <2>4, <3>4 DEF SettingsChecked, AccountsChecked, InOrder
      <4>4. ~Exists("accounts") => \A g \in File \ {"settings"} : ~Exists(g)
        BY <2>4 DEF InOrder, File
      <4> QED
        BY <4>1, <4>2, <4>3, <4>4 DEF Started, FirstToCreate, Ahead, Writing
    <3> QED
      BY <2>1, <3>1, <3>2, <3>3, <3>4, IdleCreates DEF Turns
  <2>6. Started(q)'
    BY <2>1, <2>3, <2>5, StartedLater DEF Kept
  <2>7. FirstToCreate(q)'
    BY <2>1, <2>3, <2>5, AheadIsPending DEF FirstToCreate, Kept, Writing, Ahead
  <2> QED
    BY <2>2, <2>3, <2>6, <2>7, CreationKept
<1>3. ASSUME NEW r \in Request, OpenStep(r)
      PROVE  CreationInv'
  BY <1>3, OpenCreates
<1>4. ASSUME NEW r \in Request, WriteStep(r)
      PROVE  CreationInv'
  BY <1>4, WriteCreates
<1>5. CASE TokenStep \/ DocumentStep
  BY <1>5 DEF TokenStep, DocumentStep, CreationInv, InOrder, Complete, Started, FirstToCreate, Exists,
              Writing, Ahead
<1>6. CASE CrashStep
  <2>1. crashes' > 0 /\ file' = file /\ \A x \in Request : req'[x] = Idle
    BY <1>6 DEF CrashStep, TypeInv, SessionInv
  <2>2. InOrder' /\ Complete'
    BY <2>1 DEF CreationInv, InOrder, Complete, Exists
  <2>3. \A x \in Request : Started(req[x])' /\ FirstToCreate(req[x])'
    BY <2>1 DEF Started, FirstToCreate, Idle, Kind
  <2> QED
    BY <2>2, <2>3 DEF CreationInv
<1> QED
  BY <1>1, <1>2, <1>3, <1>4, <1>5, <1>6, NextCases

LEMMA CreationInvariant == Spec => [](TypeInv /\ CreationInv)
<1>1. TypeInv /\ CreationInv /\ [Next]_vars => (TypeInv /\ CreationInv)'
  BY TypePreserved, CreationPreserved
<1>2. Init => TypeInv /\ CreationInv
  BY InitType, InitCreation
<1> QED
  BY <1>1, <1>2, PTL DEF Spec

\* system.service.ts: once settings and accounts exist, all files do, unless an initialization
\* is under way or a crash ended one.
THEOREM InitializationIsComplete == Spec => []InitializedIsComplete
<1>1. TypeInv /\ CreationInv => InitializedIsComplete
  BY DEF CreationInv, Complete, InOrder, InitializedIsComplete, File
<1> QED
  BY <1>1, CreationInvariant, PTL

\* system.service.ts: an initialization that opens a file which exists, although there are
\* accounts, has been overtaken by another one.
THEOREM InitializationReplacesNothing == Spec => AccountsOutliveInitialization
<1>1. ASSUME TypeInv, CreationInv, NEW r \in Request, req[r].kind = "initialize", At(r, "open"),
             Exists(Head(req[r].files)), Exists("accounts")
      PROVE  req[r].outdated
  <2> DEFINE p == req[r]
  <2>1. IsRequest(p) /\ Writing(p) /\ p.at = "open" /\ FirstToCreate(p)
    BY <1>1 DEF TypeInv, RequestsInv, CreationInv, At, Writing
  <2>2. p.files \in Pending
    BY <1>1, <2>1, NextFile
  <2>3. Head(p.files) \in Range(p.files) /\ (Head(p.files) = "settings" => "accounts" \in Range(p.files))
    BY <2>2, RangeOf, PendingFiles DEF Pending, AllFiles
  <2> QED
    BY <1>1, <2>1, <2>3 DEF FirstToCreate, Ahead
<1>2. TypeInv /\ CreationInv /\ [Next]_vars
      => [\A r \in Request :
             /\ req[r].kind = "initialize" /\ At(r, "open") /\ OpenFile(r)
             /\ Exists(Head(req[r].files))
             /\ Exists("accounts")
             => req[r].outdated]_vars
  BY <1>1
<1> QED
  BY <1>2, CreationInvariant, PTL DEF Spec, AccountsOutliveInitialization

----------------------------------------------------------------------------
(* Overlapping requests.                                                   *)

\* What a request that is not outdated has read is what the file holds.
Current(q) ==
    q.kind \in AccountKind \cup PinKind /\ ~q.outdated =>
        /\ HasRole(q) => q.account \in DOMAIN Data("accounts")
        /\ q.at = "read" /\ q.kind = "profile" => q.role = Data("accounts")[q.account].role
        /\ q.at = "resolve" =>
              \E kept \in SUBSET Document : Order(q.read \o q.rest) = OrderOf(kept, Data("pinned"))
        /\ Writing(q) => Intended(q, Data(FileOf(q.kind)), q.read)

\* It is the only one to write since it has opened the file.
Alone(q) == q.at = "write" /\ ~q.outdated => file[Head(q.files)].state = "empty"

\* A file without content is being written, or a crash has left it so.
EmptyIsWritten ==
    \A f \in File : file[f].state = "empty" =>
        crashes > 0 \/ \E r \in Request : At(r, "write") /\ Head(req[r].files) = f

CorruptIsLost == \A f \in File : file[f].state = "corrupt" => f \in lost

OverlapInv ==
    /\ EmptyIsWritten /\ CorruptIsLost
    /\ \A r \in Request : Current(req[r]) /\ Alone(req[r])

\* What a client asks for does not depend on how far its request is.
LEMMA SameIntent ==
    ASSUME NEW p, NEW q, NEW before, NEW after,
           q.kind = p.kind, q.account = p.account, q.role = p.role, q.password = p.password,
           q.document = p.document, q.target = p.target, q.id = p.id,
           Intended(p, before, after)
    PROVE  Intended(q, before, after)
  BY DEF Intended

LEMMA IdleOverlaps == Current(Idle) /\ Alone(Idle)
  BY DEF Current, Alone, Idle, AccountKind, PinKind

\* Between its reading and its writing a request is found to have read.
LEMMA ReadingIsNoticed ==
    ASSUME NEW x \in Request, IsRequest(req[x]), req[x].kind \in AccountKind \cup PinKind,
           HasRole(req[x]) \/ req[x].at = "resolve" \/ Writing(req[x])
    PROVE  HasRead(x, FileOf(req[x].kind))
<1> DEFINE q == req[x]
<1>1. q.kind \in Kind \ {"initialize"} /\ q.files = <<FileOf(q.kind)>>
  BY DEF IsRequest, Control, Kind, AccountKind, PinKind
<1>2. FileOf(q.kind) \in Range(q.files)
  BY <1>1, RangeOf
<1>3. \/ q.at = "read" /\ q.kind = "profile"
      \/ q.at \in {"resolve", "open", "write"}
  BY <1>1 DEF IsRequest, Control, HasRole, Writing
<1>4. q.kind = "profile" => FileOf(q.kind) = "accounts"
  BY DEF FileOf
<1> QED
  BY <1>2, <1>3, <1>4 DEF HasRead

\* What a request has read stays current while the file keeps its data.
LEMMA CurrentLater ==
    ASSUME NEW p, IsRequest(p), Current(p), NEW q, Keeps(p, q) \/ q = p,
           p.kind \in AccountKind \cup PinKind =>
              file'[FileOf(p.kind)].data = file[FileOf(p.kind)].data
    PROVE  Current(q)'
<1>1. SUFFICES ASSUME q.kind \in AccountKind \cup PinKind, ~q.outdated
               PROVE  /\ HasRole(q) => q.account \in DOMAIN Data("accounts")'
                      /\ q.at = "read" /\ q.kind = "profile" => q.role = Data("accounts")'[q.account].role
                      /\ q.at = "resolve" =>
                            \E kept \in SUBSET Document :
                               Order(q.read \o q.rest) = OrderOf(kept, Data("pinned")')
                      /\ Writing(q) => Intended(q, file'[FileOf(q.kind)].data, q.read)
  BY DEF Current, Data, HasRole, Writing
<1>2. /\ q.kind = p.kind /\ q.at = p.at /\ q.read = p.read /\ q.rest = p.rest
      /\ q.account = p.account /\ q.role = p.role /\ q.password = p.password
      /\ q.document = p.document /\ q.target = p.target /\ q.id = p.id
  BY DEF Keeps
<1>3. ~p.outdated
  BY <1>1 DEF Keeps
<1>4. file'[FileOf(p.kind)].data = file[FileOf(p.kind)].data
  BY <1>1, <1>2
<1>5. HasRole(q) => q.account \in DOMAIN Data("accounts")'
  <2>1. SUFFICES ASSUME HasRole(q) PROVE q.account \in DOMAIN file'["accounts"].data
    BY DEF Data
  <2>2. FileOf(p.kind) = "accounts" /\ HasRole(p)
    BY <1>2, <2>1 DEF HasRole, FileOf
  <2> QED
    BY <1>1, <1>2, <1>3, <1>4, <2>2 DEF Current, Data
<1>6. q.at = "read" /\ q.kind = "profile" => q.role = Data("accounts")'[q.account].role
  <2>1. SUFFICES ASSUME q.at = "read", q.kind = "profile"
                 PROVE  q.role = file'["accounts"].data[q.account].role
    BY DEF Data
  <2>2. FileOf(p.kind) = "accounts"
    BY <1>2, <2>1 DEF FileOf
  <2> QED
    BY <1>1, <1>2, <1>3, <1>4, <2>1, <2>2 DEF Current, Data
<1>7. q.at = "resolve" =>
         \E kept \in SUBSET Document : Order(q.read \o q.rest) = OrderOf(kept, Data("pinned")')
  <2>1. SUFFICES ASSUME q.at = "resolve"
                 PROVE  \E kept \in SUBSET Document :
                           Order(q.read \o q.rest) = OrderOf(kept, file'["pinned"].data)
    BY DEF Data
  <2>2. p.kind = "pin"
    BY <1>2, <2>1 DEF IsRequest, Control
  <2>3. file'["pinned"].data = file["pinned"].data
    BY <1>4, <2>2 DEF FileOf
  <2>4. PICK kept \in SUBSET Document : Order(p.read \o p.rest) = OrderOf(kept, file["pinned"].data)
    BY <1>1, <1>2, <1>3, <2>1 DEF Current, Data
  <2>5. Order(q.read \o q.rest) = OrderOf(kept, file'["pinned"].data)
    BY <1>2, <2>3, <2>4
  <2> QED
    BY <2>5
<1>8. Writing(q) => Intended(q, file'[FileOf(q.kind)].data, q.read)
  <2>1. SUFFICES ASSUME Writing(q) PROVE Intended(q, file'[FileOf(q.kind)].data, q.read)
    OBVIOUS
  <2>2. Intended(p, file[FileOf(p.kind)].data, p.read)
    BY <1>1, <1>2, <1>3, <2>1 DEF Current, Data, Writing
  <2>3. Intended(q, file[FileOf(p.kind)].data, p.read)
    BY <1>2, <2>2, SameIntent
  <2> QED
    BY <1>2, <1>4, <2>3
<1> QED
  BY <1>5, <1>6, <1>7, <1>8

LEMMA AloneLater ==
    ASSUME NEW p, Alone(p), NEW q, Keeps(p, q) \/ q = p,
           p.at = "write" /\ ~q.outdated =>
              file'[Head(p.files)].state \in {"empty", file[Head(p.files)].state}
    PROVE  Alone(q)'
  BY DEF Alone, Keeps

LEMMA InitOverlap == Init => OverlapInv
<1> SUFFICES ASSUME Init PROVE OverlapInv
  OBVIOUS
<1>1. \A f \in File : file[f].state \in {"missing", "whole"}
  BY InitialFilesAssumption DEF Init
<1>2. EmptyIsWritten /\ CorruptIsLost
  BY <1>1 DEF EmptyIsWritten, CorruptIsLost
<1> QED
  BY <1>2, IdleOverlaps DEF Init, OverlapInv

\* A step of r that leaves the files and the other requests alone.
LEMMA OverlapKept ==
    ASSUME TypeInv, OverlapInv, file' = file, lost' = lost, crashes' = crashes,
           NEW r \in Request, req[r].at # "write",
           \A x \in Request \ {r} : req'[x] = req[x],
           Current(req[r])', Alone(req[r])'
    PROVE  OverlapInv'
<1>1. ASSUME NEW x \in Request, x # r
      PROVE  Current(req[x])' /\ Alone(req[x])'
  <2>1. PICK q : q = req[x]
    OBVIOUS
  <2>2. IsRequest(q) /\ Current(q) /\ Alone(q)
    BY <2>1 DEF TypeInv, RequestsInv, OverlapInv
  <2>3. Current(q)' /\ Alone(q)'
    BY <2>2, CurrentLater, AloneLater
  <2> QED
    BY <1>1, <2>1, <2>3 DEF Current, Alone, HasRole, Writing
<1>2. EmptyIsWritten'
  BY DEF OverlapInv, EmptyIsWritten, At
<1>3. CorruptIsLost'
  BY DEF OverlapInv, CorruptIsLost
<1> QED
  BY <1>1, <1>2, <1>3 DEF OverlapInv

\* Who begins has read nothing.
LEMMA BeginningOverlap ==
    ASSUME TypeInv, OverlapInv, NEW r \in Request, Beginning(r)
    PROVE  OverlapInv'
<1>1. PICK endpoint, q : Begin(r, endpoint, q) /\ Fresh(q) /\ Granting(q)
  BY DEF Beginning
<1>2. req'[r] = q /\ \A x \in Request \ {r} : req'[x] = req[x]
  BY <1>1 DEF Begin, TypeInv, RequestsInv
<1>3. file' = file /\ lost' = lost /\ crashes' = crashes /\ req[r].at # "write"
  BY <1>1 DEF Begin, Idle
<1>4. q.at # "resolve" /\ q.at # "write" /\ ~HasRole(q) /\ (q.at = "read" => q.kind # "profile")
  BY <1>1 DEF Fresh, HasRole, IsRequest, Control, Kind
<1>5. Writing(q) => q.kind = "settings"
  BY <1>1 DEF Fresh, Writing
<1>6. Current(q)' /\ Alone(q)'
  BY <1>4, <1>5 DEF Current, Alone, HasRole, Writing, AccountKind, PinKind
<1>7. Current(req[r])' /\ Alone(req[r])'
  BY <1>2, <1>6 DEF Current, Alone, HasRole, Writing
<1> QED
  BY <1>2, <1>3, <1>7, OverlapKept

\* Who reads, reads what the file holds; who has read keeps it up to date.
LEMMA ProceedingOverlap ==
    ASSUME TypeInv, OverlapInv, NEW r \in Request, Proceeding(r)
    PROVE  OverlapInv'
<1> DEFINE p == req[r]
<1>1. PICK q : /\ Proceed(r, q) /\ IsRequest(q)
               /\ \/ q = Idle
                  \/ Continues(p, q) /\ Turns(p, q)
  BY DEF Proceeding
<1>2. req'[r] = q /\ \A x \in Request \ {r} : req'[x] = req[x]
  BY <1>1 DEF Proceed, TypeInv, RequestsInv
<1>3. file' = file /\ lost' = lost /\ crashes' = crashes /\ p.at # "write"
  BY <1>1 DEF Proceed, Proceeding, Writing
<1>4. IsRequest(p) /\ Current(p) /\ AreAccounts(Data("accounts")) /\ ArePins(Data("pinned"))
  BY DEF TypeInv, RequestsInv, FilesInv, OverlapInv
<1>5. Current(q) /\ Alone(q)
  <2> HIDE DEF p
  <2>1. CASE RoleRead(p, q) /\ Continues(p, q)
    BY <2>1 DEF RoleRead, Continues, Current, Alone, Writing
  <2>2. CASE DataRead(p, q) /\ Continues(p, q)
    <3>1. /\ q.kind = p.kind /\ q.account = p.account /\ q.role = p.role /\ q.password = p.password
          /\ q.document = p.document /\ q.target = p.target /\ q.id = p.id
          /\ q.outdated = p.outdated /\ q.at = "open" /\ p.at = "read"
          /\ q.read = Stored(p, Data(FileOf(p.kind))) /\ q.read # Nothing
          /\ p.kind \in AccountKind \cup {"unpin", "sort"}
      BY <2>2 DEF DataRead, Continues
    <3> DEFINE data == Data(FileOf(p.kind))
    <3>2. ASSUME ~q.outdated
          PROVE  Intended(q, data, q.read) /\ (HasRole(q) => q.account \in DOMAIN Data("accounts"))
      <4>1. CASE p.kind \in AccountKind
        <5>1. FileOf(p.kind) = "accounts"
          BY <4>1 DEF FileOf, AccountKind
        <5>2. /\ p.kind = "profile" =>
                 p.account \in DOMAIN Data("accounts") /\ p.role = Data("accounts")[p.account].role
          BY <1>4, <3>1, <3>2 DEF Current, HasRole, AccountKind
        <5>3. AreAccounts(data) /\ Stored(p, data) # Nothing /\ q.read = Stored(p, data)
          BY <1>4, <3>1, <5>1
        <5>4. Intended(p, data, q.read)
          BY <1>4, <3>1, <4>1, <5>1, <5>2, <5>3, StoredAccounts
        <5> HIDE DEF data
        <5>5. Intended(q, data, q.read)
          BY <3>1, <5>4, SameIntent
        <5> QED
          BY <3>1, <5>2, <5>5 DEF HasRole
      <4>2. CASE p.kind \in {"unpin", "sort"}
        <5>1. FileOf(p.kind) = "pinned"
          BY <4>2 DEF FileOf
        <5>2. ArePins(data) /\ Stored(p, data) # Nothing /\ q.read = Stored(p, data)
          BY <1>4, <3>1, <5>1
        <5> HIDE DEF data
        <5>3. Intended(p, data, q.read)
          BY <1>4, <3>1, <4>2, <5>2, StoredPins
        <5>4. Intended(q, data, q.read)
          BY <3>1, <5>3, SameIntent
        <5> QED
          BY <3>1, <4>2, <5>4 DEF HasRole
      <4> QED
        BY <3>1, <4>1, <4>2
    <3> QED
      BY <3>1, <3>2 DEF Current, Alone, Writing
  <2>3. CASE PinsRead(p, q) /\ Continues(p, q)
    <3> DEFINE pins == Data("pinned")
    <3>1. q.kind = "pin" /\ q.at = "resolve" /\ q.read = <<>> /\ q.rest = pins
      BY <2>3 DEF PinsRead, Continues
    <3>2. pins \in Seq(Document)
      BY <1>4 DEF ArePins
    <3> HIDE DEF pins
    <3>3. <<>> \o pins = pins
      BY <3>2
    <3>4. OrderOf(Document, pins) = Order(pins)
      BY DEF OrderOf, Order
    <3>5. Order(q.read \o q.rest) = OrderOf(Document, pins)
      BY <3>1, <3>3, <3>4
    <3> QED
      BY <3>1, <3>5 DEF Current, Alone, HasRole, Writing, pins
  <2>4. CASE PinResolved(p, q) /\ Continues(p, q)
    <3> DEFINE was == p.read \o p.rest
               is == q.read \o q.rest
    <3>1. /\ p.kind = "pin" /\ p.at = "resolve" /\ q.kind = "pin" /\ q.at = "resolve"
          /\ q.outdated = p.outdated
          /\ is = was \/ \E i \in 1..Len(was) : is = RemoveAt(was, i)
      BY <2>4 DEF PinResolved, Continues
    <3>2. ArePins(was)
      BY <1>4, <3>1 DEF IsRequest, HasData
    <3>3. ASSUME ~q.outdated
          PROVE  \E kept \in SUBSET Document : Order(is) = OrderOf(kept, Data("pinned"))
      <4>1. PICK kept \in SUBSET Document : Order(was) = OrderOf(kept, Data("pinned"))
        BY <1>4, <3>1, <3>3 DEF Current, PinKind
      <4> HIDE DEF was, is
      <4>2. CASE is = was
        BY <4>1, <4>2
      <4>3. CASE \E i \in 1..Len(was) : is = RemoveAt(was, i)
        <5>1. PICK i \in 1..Len(was) : is = RemoveAt(was, i)
          BY <4>3
        <5>2. Order(is) = OrderOf(Others(was[i]), was)
          BY <3>2, <5>1, RemovedPin
        <5>3. OrderOf(Others(was[i]), was) = OrderOf(kept \ {was[i]}, Data("pinned"))
          BY <4>1 DEF OrderOf, Others, Order
        <5> QED
          BY <5>2, <5>3
      <4> QED
        BY <3>1, <4>2, <4>3
    <3> QED
      BY <3>1, <3>3 DEF Current, Alone, HasRole, Writing
  <2>5. CASE PinAdded(p, q) /\ Continues(p, q)
    <3>1. /\ p.kind = "pin" /\ p.at = "resolve" /\ q.kind = "pin" /\ q.at = "open"
          /\ q.outdated = p.outdated /\ q.document = p.document
          /\ Last(q.read) = q.document /\ Front(q.read) = p.read \o p.rest
      BY <2>5 DEF PinAdded, Continues
    <3>2. ASSUME ~q.outdated
          PROVE  Intended(q, Data("pinned"), q.read)
      <4>1. PICK kept \in SUBSET Document : Order(p.read \o p.rest) = OrderOf(kept, Data("pinned"))
        BY <1>4, <3>1, <3>2 DEF Current, PinKind
      <4> QED
        BY <3>1, <4>1 DEF Intended
    <3>3. FileOf(q.kind) = "pinned"
      BY <3>1 DEF FileOf
    <3> QED
      BY <3>1, <3>2, <3>3 DEF Current, Alone, HasRole, Writing
  <2>6. CASE (SettingsChecked(p, q) \/ AccountsChecked(p, q)) /\ Continues(p, q)
    BY <2>6 DEF SettingsChecked, AccountsChecked, Continues, Current, Alone, AccountKind, PinKind
  <2> QED
    BY <1>1, <2>1, <2>2, <2>3, <2>4, <2>5, <2>6, IdleOverlaps DEF Turns
<1>6. Current(q)' /\ Alone(q)'
  BY <1>1, <1>3, <1>5, CurrentLater, AloneLater
<1>7. Current(req[r])' /\ Alone(req[r])'
  BY <1>2, <1>6 DEF Current, Alone, HasRole, Writing
<1> QED
  BY <1>2, <1>3, <1>7, OverlapKept

\* Opening a file changes no data, and makes its writer the only one.
LEMMA OpenOverlap ==
    ASSUME TypeInv, OverlapInv, NEW r \in Request, OpenStep(r)
    PROVE  OverlapInv'
<1> DEFINE p == req[r]
<1>0. PICK f : f = Head(p.files)
  OBVIOUS
<1>1. /\ IsRequest(p) /\ Writing(p) /\ p.at = "open" /\ Current(p) /\ p.kind \in Kind
      /\ crashes' = crashes /\ lost' = lost
  BY DEF TypeInv, RequestsInv, OverlapInv, OpenStep, Opened, Writing
<1>2. f \in File
  BY <1>0, <1>1, NextFile
<1>3. FileBecomes(f, "empty", Data(f)) /\ OthersKeep(r, f, ~Exists(f))
  BY <1>0 DEF OpenStep, Opened
<1>4. SameTask(p, req'[r]) /\ req'[r].at = "write" /\ req'[r].files = p.files
  BY DEF OpenStep, Opened
<1>5. /\ \A g \in File : file'[g].data = file[g].data
      /\ file'[f].state = "empty" /\ \A g \in File \ {f} : file'[g] = file[g]
  BY <1>3 DEF FileBecomes, Data
<1>6. ASSUME NEW x \in Request, x # r
      PROVE  Current(req[x])' /\ Alone(req[x])'
  <2> DEFINE o == req[x]
  <2>0. PICK q : q = req'[x]
    OBVIOUS
  <2>1. IsRequest(o) /\ Current(o) /\ Alone(o) /\ Keeps(o, q)
    BY <1>3, <1>6, <2>0 DEF TypeInv, RequestsInv, OverlapInv, OthersKeep
  <2>2. o.kind \in AccountKind \cup PinKind => FileOf(o.kind) \in File
    BY DEF AccountKind, PinKind, FileOf, File
  <2>3. o.at = "write" => Head(o.files) \in File
    BY <2>1, NextFile DEF Writing
  <2>4. Current(q)'
    BY <1>5, <2>1, <2>2, CurrentLater
  <2>5. Alone(q)'
    BY <1>5, <2>1, <2>3, AloneLater
  <2> QED
    BY <2>0, <2>4, <2>5 DEF Current, Alone, HasRole, Writing
<1>7. PICK q : q = req'[r]
  OBVIOUS
<1>8. /\ q.kind = p.kind /\ q.account = p.account /\ q.role = p.role /\ q.password = p.password
      /\ q.document = p.document /\ q.target = p.target /\ q.id = p.id
      /\ q.outdated = p.outdated /\ q.at = "write" /\ q.read = p.read /\ q.files = p.files
  BY <1>4, <1>7 DEF SameTask, Continues
<1>9. Current(q)
  <2>1. ASSUME p.kind \in AccountKind \cup PinKind, ~p.outdated
        PROVE  /\ HasRole(p) => p.account \in DOMAIN Data("accounts")
               /\ Intended(p, Data(FileOf(p.kind)), p.read)
    BY <1>1, <2>1 DEF Current
  <2>2. HasRole(q) => HasRole(p)
    BY <1>1, <1>8 DEF HasRole
  <2>3. Intended(p, Data(FileOf(p.kind)), p.read) => Intended(q, Data(FileOf(p.kind)), p.read)
    <3>1. PICK before : before = Data(FileOf(p.kind))
      OBVIOUS
    <3>2. Intended(p, before, p.read) => Intended(q, before, p.read)
      BY <1>8, SameIntent
    <3> QED
      BY <3>1, <3>2
  <2> QED
    BY <1>8, <2>1, <2>2, <2>3 DEF Current
<1>10. IsRequest(q)
  BY <1>7 DEF OpenStep, RequestsInv
<1>11. Current(q)'
  <2>1. q.kind \in AccountKind \cup PinKind => FileOf(q.kind) \in File
    BY DEF AccountKind, PinKind, FileOf, File
  <2> QED
    BY <1>5, <1>9, <1>10, <2>1, CurrentLater
<1>12. Current(req[r])'
  BY <1>7, <1>11 DEF Current, HasRole, Writing
<1>13. Alone(req[r])'
  BY <1>0, <1>4, <1>5 DEF Alone
<1>14. EmptyIsWritten'
  <2>1. SUFFICES ASSUME NEW g \in File, file'[g].state = "empty", ~(crashes > 0)
                 PROVE  \E x \in Request : req'[x].kind # "idle" /\ req'[x].at = "write"
                                           /\ Head(req'[x].files) = g
    BY <1>1 DEF EmptyIsWritten, At
  <2>2. CASE g = f
    <3>1. req'[r].kind # "idle"
      BY <1>1, <1>7, <1>8 DEF Kind
    <3> QED
      BY <1>0, <1>4, <2>2, <3>1
  <2>3. CASE g # f
    <3>1. PICK x \in Request : At(x, "write") /\ Head(req[x].files) = g
      BY <1>5, <2>1, <2>3 DEF OverlapInv, EmptyIsWritten
    <3>2. x # r
      BY <1>1, <3>1 DEF At
    <3>3. Keeps(req[x], req'[x])
      BY <1>3, <3>2 DEF OthersKeep
    <3> QED
      BY <3>1, <3>3 DEF At, Keeps
  <2> QED
    BY <2>2, <2>3
<1>15. CorruptIsLost'
  BY <1>1, <1>5 DEF OverlapInv, CorruptIsLost
<1> QED
  BY <1>6, <1>12, <1>13, <1>14, <1>15 DEF OverlapInv

\* Writing outdates whoever has read the file and is yet to write it.
LEMMA WriteOverlap ==
    ASSUME TypeInv, OverlapInv, NEW r \in Request, WriteStep(r)
    PROVE  OverlapInv'
<1> DEFINE p == req[r]
<1>0. PICK f : f = Head(p.files)
  OBVIOUS
<1>1. /\ IsRequest(p) /\ Writing(p) /\ p.at = "write" /\ Alone(p)
      /\ crashes' = crashes /\ lost' = IF p.outdated THEN lost \cup {f} ELSE lost
  BY <1>0 DEF TypeInv, RequestsInv, OverlapInv, WriteStep, Written, Writing
<1>2. f \in File
  BY <1>0, <1>1, NextFile
<1>3. PICK state \in {"whole", "corrupt"} :
         /\ state = "corrupt" => file[f].state # "empty"
         /\ FileBecomes(f, state, NewData(p, f))
  BY <1>0 DEF WriteStep, Written
<1>4. file'[f].state = state /\ \A g \in File \ {f} : file'[g] = file[g]
  BY <1>3 DEF FileBecomes
<1>5. OthersKeep(r, f, TRUE)
  BY <1>0 DEF WriteStep, Written
<1>6. ASSUME NEW x \in Request, x # r
      PROVE  Current(req[x])' /\ Alone(req[x])'
  <2> DEFINE o == req[x]
  <2>0. PICK q : q = req'[x]
    OBVIOUS
  <2>1. IsRequest(o) /\ Current(o) /\ Alone(o) /\ Keeps(o, q) /\ (HasRead(x, f) => q.outdated)
    BY <1>5, <1>6, <2>0 DEF TypeInv, RequestsInv, OverlapInv, OthersKeep
  <2>2. Current(q)'
    <3>1. CASE o.kind \in AccountKind \cup PinKind /\ FileOf(o.kind) = f
      <4>1. SUFFICES ASSUME ~q.outdated
                     PROVE  ~HasRole(q) /\ q.at # "resolve" /\ ~Writing(q)
                            /\ ~(q.at = "read" /\ q.kind = "profile")
        BY DEF Current, HasRole, Writing
      <4>2. ~HasRead(x, f)
        BY <2>1, <4>1
      <4>3. ~HasRole(o) /\ o.at # "resolve" /\ ~Writing(o)
        BY <2>1, <3>1, <4>2, ReadingIsNoticed
      <4>4. q.kind = o.kind /\ q.at = o.at
        BY <2>1 DEF Keeps
      <4> QED
        BY <4>3, <4>4 DEF HasRole, Writing
    <3>2. CASE o.kind \in AccountKind \cup PinKind /\ FileOf(o.kind) # f
      <4>1. FileOf(o.kind) \in File
        BY <3>2 DEF AccountKind, PinKind, FileOf, File
      <4> QED
        BY <1>4, <2>1, <3>2, <4>1, CurrentLater
    <3>3. CASE o.kind \notin AccountKind \cup PinKind
      BY <2>1, <3>3, CurrentLater
    <3> QED
      BY <3>1, <3>2, <3>3
  <2>3. Alone(q)'
    <3>1. ASSUME o.at = "write", ~q.outdated
          PROVE  Head(o.files) \in File \ {f}
      <4>1. Head(o.files) \in File /\ Head(o.files) \in Range(o.files)
        BY <2>1, <3>1, NextFile DEF Writing
      <4>2. Head(o.files) # f
        BY <2>1, <3>1, <4>1 DEF HasRead
      <4> QED
        BY <4>1, <4>2
    <3> QED
      BY <1>4, <2>1, <3>1, AloneLater
  <2> QED
    BY <2>0, <2>2, <2>3 DEF Current, Alone, HasRole, Writing
<1>7. Current(req[r])' /\ Alone(req[r])'
  <2>1. CASE req'[r] = Idle
    BY <2>1 DEF Current, Alone, Idle, AccountKind, PinKind
  <2>2. CASE req'[r].kind = "initialize" /\ req'[r].at = "open"
    BY <2>2 DEF Current, Alone, AccountKind, PinKind
  <2> QED
    BY <2>1, <2>2 DEF WriteStep, Written, SameTask, Continues
<1>8. EmptyIsWritten'
  <2>1. SUFFICES ASSUME NEW g \in File, file'[g].state = "empty", ~(crashes > 0)
                 PROVE  \E x \in Request : req'[x].kind # "idle" /\ req'[x].at = "write"
                                           /\ Head(req'[x].files) = g
    BY <1>1 DEF EmptyIsWritten, At
  <2>2. g # f
    BY <1>4, <2>1
  <2>3. PICK x \in Request : At(x, "write") /\ Head(req[x].files) = g
    BY <1>4, <2>1, <2>2 DEF OverlapInv, EmptyIsWritten
  <2>4. x # r
    BY <1>0, <2>2, <2>3
  <2>5. Keeps(req[x], req'[x])
    BY <1>5, <2>4 DEF OthersKeep
  <2> QED
    BY <2>3, <2>5 DEF At, Keeps
<1>9. CorruptIsLost'
  <2>1. SUFFICES ASSUME NEW g \in File, file'[g].state = "corrupt" PROVE g \in lost'
    BY DEF CorruptIsLost
  <2>2. CASE g = f
    <3>1. p.outdated
      BY <1>0, <1>1, <1>3, <1>4, <2>1, <2>2 DEF Alone
    <3> QED
      BY <1>1, <2>2, <3>1
  <2>3. CASE g # f
    BY <1>1, <1>4, <2>1, <2>3 DEF OverlapInv, CorruptIsLost
  <2> QED
    BY <2>2, <2>3
<1> QED
  BY <1>6, <1>7, <1>8, <1>9 DEF OverlapInv

LEMMA OverlapPreserved == TypeInv /\ OverlapInv /\ [Next]_vars => OverlapInv'
<1> SUFFICES ASSUME TypeInv, OverlapInv, [Next]_vars PROVE OverlapInv'
  OBVIOUS
<1>1. CASE TokenStep \/ DocumentStep
  <2>1. file' = file /\ req' = req /\ crashes' = crashes /\ lost' = lost
    BY <1>1 DEF TokenStep, DocumentStep
  <2> QED
    BY <2>1 DEF OverlapInv, EmptyIsWritten, CorruptIsLost, Current, Alone, Data, At, HasRole, Writing
<1>2. CASE CrashStep
  <2>1. crashes' > 0 /\ file' = file /\ lost' = lost /\ \A x \in Request : req'[x] = Idle
    BY <1>2 DEF CrashStep, TypeInv, SessionInv
  <2>2. EmptyIsWritten' /\ CorruptIsLost'
    BY <2>1 DEF OverlapInv, EmptyIsWritten, CorruptIsLost
  <2>3. \A x \in Request : Current(req[x])' /\ Alone(req[x])'
    BY <2>1 DEF Current, Alone, Idle, AccountKind, PinKind
  <2> QED
    BY <2>2, <2>3 DEF OverlapInv
<1> QED
  BY <1>1, <1>2, BeginningOverlap, ProceedingOverlap, OpenOverlap, WriteOverlap, NextCases

LEMMA OverlapInvariant == Spec => [](TypeInv /\ OverlapInv)
<1>1. TypeInv /\ OverlapInv /\ [Next]_vars => (TypeInv /\ OverlapInv)'
  BY TypePreserved, OverlapPreserved
<1>2. Init => TypeInv /\ OverlapInv
  BY InitType, InitOverlap
<1> QED
  BY <1>1, <1>2, PTL DEF Spec

\* datasets.service.ts: a file without content is being written or was left by a crash, a corrupt
\* one has been written from an outdated reading, and no document is pinned twice.
THEOREM FilesStaySound == Spec => []FilesAreSound
<1>1. TypeInv /\ OverlapInv => FilesAreSound
  <2>1. TypeInv => IsInjective(Data("pinned"))
    BY DEF TypeInv, FilesInv, ArePins
  <2> QED
    BY <2>1 DEF OverlapInv, EmptyIsWritten, CorruptIsLost, FilesAreSound
<1> QED
  BY <1>1, OverlapInvariant, PTL

\* What a write stores that is not outdated.
LEMMA WritesIntended ==
    ASSUME TypeInv, OverlapInv, NEW r \in Request, Written(r), ~req[r].outdated
    PROVE  LET f == Head(req[r].files) IN Intended(req[r], Data(f), file'[f].data)
<1> DEFINE p == req[r]
           f == Head(p.files)
<1>1. IsRequest(p) /\ Writing(p) /\ p.kind \in Kind /\ Current(p)
  BY DEF TypeInv, RequestsInv, OverlapInv, Written, Writing
<1>2. file'[f].data = NewData(p, f)
  BY DEF Written, FileBecomes
<1>3. CASE p.kind \in {"settings", "initialize"}
  BY <1>3 DEF Intended
<1>4. CASE p.kind \notin {"settings", "initialize"}
  <2>1. p.kind \in AccountKind \cup PinKind
    BY <1>1, <1>4 DEF Kind, AccountKind, PinKind
  <2>2. f = FileOf(p.kind) /\ f \in {"accounts", "pinned"}
    BY <1>1, <1>4, <2>1, NextFile DEF FileOf, AccountKind, PinKind
  <2> HIDE DEF p, f
  <2>3. NewData(p, f) = p.read
    BY <1>4, <2>2 DEF NewData
  <2>4. Intended(p, Data(f), p.read)
    BY <1>1, <2>1, <2>2 DEF Current, Writing, p
  <2> QED
    BY <1>2, <2>3, <2>4 DEF p, f
<1> QED
  BY <1>3, <1>4

\* A write that no other has overtaken since its request has read the file makes the change
\* that the client asked for, and no other: accounts, profiles, pins.
THEOREM RequestsDoWhatTheyAskFor == Spec => UpdatesAreExact
<1>1. ASSUME TypeInv, OverlapInv, NEW r \in Request, ~req[r].outdated, WriteFile(r)
      PROVE  LET f == Head(req[r].files) IN Intended(req[r], Data(f), file'[f].data)
  BY <1>1, WriteFileWrites, WritesIntended
<1>2. TypeInv /\ OverlapInv /\ [Next]_vars
      => [\A r \in Request :
             LET f == Head(req[r].files) IN
             /\ At(r, "write") /\ ~req[r].outdated
             /\ WriteFile(r)
             => Intended(req[r], Data(f), file'[f].data)]_vars
  BY <1>1
<1> QED
  BY <1>2, OverlapInvariant, PTL DEF Spec, UpdatesAreExact

\* accounts.service.ts: an account that was removed comes back only by a request for it, or by
\* one that has read the accounts before.
THEOREM AccountsStayRemoved == Spec => RemovedStaysRemoved
<1>1. ASSUME TypeInv, OverlapInv, [Next]_vars, NEW x \in Accounts' \ Accounts
      PROVE  \E r \in Request :
                /\ At(r, "write")
                /\ \/ req[r].kind \in {"accounts", "initialize"} /\ req[r].account = x
                   \/ req[r].outdated
  <2>1. x \in DOMAIN file'["accounts"].data /\ x \notin DOMAIN Data("accounts")
    <3>1. ~Exists("accounts") => DOMAIN Data("accounts") = {}
      BY <1>1 DEF TypeInv, FilesInv
    <3>2. Accounts = DOMAIN Data("accounts")
      BY <3>1 DEF Accounts
    <3>3. Accounts' \subseteq DOMAIN file'["accounts"].data
      BY DEF Accounts, Data
    <3> QED
      BY <1>1, <3>2, <3>3
  <2>2. PICK r \in Request : WriteStep(r) /\ Head(req[r].files) = "accounts"
    <3>1. CASE file' = file
      BY <2>1, <3>1 DEF Data
    <3>2. ASSUME NEW r \in Request, OpenStep(r)
          PROVE  FALSE
      <4>1. file'["accounts"].data = file["accounts"].data
        BY <3>2 DEF OpenStep, Opened, FileBecomes, Data, File
      <4> QED
        BY <2>1, <4>1 DEF Data
    <3>3. ASSUME NEW r \in Request, WriteStep(r), Head(req[r].files) # "accounts"
          PROVE  FALSE
      <4>1. file'["accounts"].data = file["accounts"].data
        BY <3>3 DEF WriteStep, Written, FileBecomes, File
      <4> QED
        BY <2>1, <4>1 DEF Data
    <3> QED
      BY <1>1, <3>1, <3>2, <3>3, NextCases
      DEF Beginning, Begin, Proceeding, Proceed, TokenStep, DocumentStep, CrashStep
  <2> DEFINE p == req[r]
  <2>3. IsRequest(p) /\ Writing(p) /\ p.kind \in Kind /\ p.at = "write" /\ At(r, "write")
    <3>1. IsRequest(p)
      BY <1>1 DEF TypeInv, RequestsInv
    <3>2. p.at = "write" /\ Writing(p) /\ p.kind \in Kind
      BY <2>2 DEF WriteStep, Written, Writing
    <3> QED
      BY <3>1, <3>2 DEF At, Kind
  <2>4. file'["accounts"].data = NewData(p, "accounts")
    BY <2>2 DEF WriteStep, Written, FileBecomes
  <2>6. CASE p.kind = "initialize"
    <3>1. DOMAIN NewData(p, "accounts") = {p.account}
      BY <2>6 DEF NewData, With
    <3> QED
      BY <2>3, <2>4, <2>1, <2>6, <3>1
  <2>7. CASE p.kind # "initialize" /\ ~p.outdated
    <3>1. FileOf(p.kind) = "accounts"
      BY <2>2, <2>3, <2>7, NextFile
    <3>2. p.kind \in AccountKind
      BY <2>3, <2>7, <3>1 DEF FileOf, Kind, AccountKind
    <3>3. Intended(p, Data("accounts"), file'["accounts"].data)
      <4>1. Written(r)
        BY <2>2 DEF WriteStep
      <4>2. LET f == Head(p.files) IN Intended(p, Data(f), file'[f].data)
        BY <1>1, <2>7, <4>1, WritesIntended
      <4> QED
        BY <2>2, <4>2
    <3>4. SameBeside(p.account, Data("accounts"), file'["accounts"].data)
      BY <3>2, <3>3 DEF Intended, AccountKind
    <3>5. x = p.account
      BY <2>1, <3>4 DEF SameBeside
    <3>6. CASE p.kind = "accounts"
      BY <2>3, <3>5, <3>6
    <3>7. CASE p.kind = "removeAccount"
      BY <2>1, <3>3, <3>5, <3>7 DEF Intended
    <3>8. CASE p.kind = "profile"
      <4>0. Current(p)
        BY <1>1 DEF OverlapInv
      <4>1. p.account \in DOMAIN Data("accounts")
        BY <2>3, <2>7, <3>8, <4>0 DEF Current, HasRole, AccountKind
      <4> QED
        BY <2>1, <3>5, <4>1
    <3> QED
      BY <3>2, <3>6, <3>7, <3>8 DEF AccountKind
  <2>8. CASE p.outdated
    BY <2>3, <2>8
  <2> QED
    BY <2>6, <2>7, <2>8
<1>2. TypeInv /\ OverlapInv /\ [Next]_vars
      => [\A x \in Accounts' \ Accounts :
             \E r \in Request :
                 /\ At(r, "write")
                 /\ \/ req[r].kind \in {"accounts", "initialize"} /\ req[r].account = x
                    \/ req[r].outdated]_vars
  BY <1>1
<1> QED
  BY <1>2, OverlapInvariant, PTL DEF Spec, RemovedStaysRemoved

============================================================================
