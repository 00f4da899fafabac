------------------------------ MODULE Datasets ------------------------------
(***************************************************************************)
(* The datasets of a backend: settings.json, accounts.json and pinned.json *)
(* (backend/src/services: datasets, settings, accounts, pinned) and the    *)
(* initialization that creates them (system.service.ts), with the index    *)
(* document as a fourth file; and the tokens of the backend's clients,     *)
(* which are issued from accounts.json and which the guard asks for.       *)
(*                                                                         *)
(* A request reads a whole file, changes what it has read and writes the   *)
(* whole file, without a lock; writeFile truncates the file and then       *)
(* writes it.  Files are never deleted, so the test that a file exists,    *)
(* before each reading and writing, belongs to the action that follows it. *)
(* Refusals that change nothing end a request.                             *)
(***************************************************************************)
EXTENDS Access, Naturals, SequencesExt

CONSTANTS
    Request,       \* slots for requests in progress
    Account,       \* accounts
    Role,          \* roles of accounts, "administrator" among them
    Document,      \* documents that can be pinned
    InitialFiles,  \* the possible initial files
    Mode,          \* the possible modes of the backend
    Nothing,       \* no account, document or data
    MaxRequests,   \* bound: requests
    MaxTokens,     \* bound: tokens issued
    MaxChanges,    \* bound: documents removed or restored meanwhile
    MaxCrashes     \* bound: crashes

ASSUME DatasetsAssumption ==
    /\ Nothing \notin Account \cup Document
    /\ "administrator" \in Role /\ Role \subseteq {"administrator", "author", "user"}
    /\ Mode \subseteq {"public", "private", "local"}
    /\ MaxRequests \in Nat /\ MaxTokens \in Nat /\ MaxChanges \in Nat /\ MaxCrashes \in Nat

File == {"settings", "accounts", "pinned", "index"}

\* An account of the accounts, by name; the pinned documents in their order.
Entry == [role : Role, name : Nat, password : Nat \cup {Nothing}]

AreAccounts(data) == DOMAIN data \subseteq Account /\ data \in [DOMAIN data -> Entry]

ArePins(data) == data \in Seq(Document) /\ IsInjective(data)

\* The backend has been initialized or not: what a crash leaves is reached by
\* the actions.
ASSUME InitialFilesAssumption ==
    \A files \in InitialFiles :
        /\ DOMAIN files = File
        /\ AreAccounts(files["accounts"].data)
        /\ ArePins(files["pinned"].data)
        /\ \/ \A f \in File : files[f].state = "whole"
           \/ /\ \A f \in File : files[f].state = "missing"
              /\ DOMAIN files["accounts"].data = {}

VARIABLES
    file,      \* file[f]: the state of a file and its data
    mode,      \* MODE, which only the environment sets
    tokens,    \* tokens that have been issued and have not expired
    present,   \* the documents that exist
    req,       \* req[r]: the request in slot r, or Idle
    issued,    \* requests so far, for MaxRequests
    changes,   \* changes of present so far, for MaxChanges
    crashes,   \* crashes so far, for MaxCrashes
    logins,    \* tokens issued so far, for MaxTokens
    lost,      \* history: the files that a write from an outdated reading has changed
    granted    \* history: the roles that an administrator or an initialization has given

vars == <<file, mode, tokens, present, req, issued, logins, changes, crashes, lost, granted>>

\* What requests on the datasets leave alone.
session == <<mode, tokens, logins>>

----------------------------------------------------------------------------
\* An empty file has been truncated; data is what it held before.  A corrupt
\* file mixes what two requests have written.
FileState == {"missing", "empty", "whole", "corrupt"}

Kind == {"settings", "accounts", "removeAccount", "profile", "pin", "unpin", "sort", "initialize"}

FileOf(kind) ==
    CASE kind = "settings" -> "settings"
      [] kind \in {"accounts", "removeAccount", "profile"} -> "accounts"
      [] kind \in {"pin", "unpin", "sort"} -> "pinned"

\* at is the operation that comes next; files are still to be written; read is
\* the data read; rest are the pins whose documents are still to be looked at;
\* outdated: a file read has been created or written since (history).
Idle == [kind |-> "idle", at |-> "end", files |-> <<>>, read |-> Nothing, rest |-> <<>>,
         account |-> Nothing, role |-> "user", password |-> FALSE,
         document |-> Nothing, target |-> 0, id |-> 0, outdated |-> FALSE]

New(kind) == [Idle EXCEPT !.kind = kind, !.id = issued + 1]

Changing(kind) == [New(kind) EXCEPT !.at = "read", !.files = <<FileOf(kind)>>]

Begin(r, endpoint, q) ==
    /\ req[r] = Idle /\ issued < MaxRequests
    /\ IsPublic(endpoint) \/ \E t \in tokens : Admits(endpoint, t.authorizations)
    /\ issued' = issued + 1
    /\ req' = [req EXCEPT ![r] = q]
    /\ UNCHANGED <<file, session, present, changes, crashes, lost>>

Proceed(r, q) ==
    /\ req' = [req EXCEPT ![r] = q]
    /\ UNCHANGED <<file, session, present, issued, changes, crashes, lost, granted>>

At(r, at) == req[r].kind # "idle" /\ req[r].at = at

\* Parsing fails unless the file is whole.
Readable(f) == file[f].state = "whole"

Exists(f) == file[f].state # "missing"

Data(f) == file[f].data

TypeOK ==
    /\ \A f \in File : file[f].state \in FileState
    /\ Exists("accounts") =>
          \A x \in DOMAIN Data("accounts") : x \in Account /\ Data("accounts")[x].role \in Role
    /\ Exists("pinned") => Data("pinned") \in Seq(Document)
    /\ present \subseteq Document
    /\ lost \subseteq File
    /\ mode \in Mode
    /\ tokens \subseteq [account : Account \cup {Nothing}, authorizations : SUBSET Authorization]
    /\ granted \subseteq Account \X Role
    /\ \A r \in Request :
          /\ req[r] = Idle \/ req[r].kind \in Kind
          /\ Range(req[r].files) \subseteq File

Init ==
    /\ file \in InitialFiles
    /\ mode \in Mode
    /\ tokens = {} /\ logins = 0
    /\ granted = IF Exists("accounts")
                  THEN {<<x, Data("accounts")[x].role>> : x \in DOMAIN Data("accounts")} ELSE {}
    /\ present = Document
    /\ req = [r \in Request |-> Idle]
    /\ issued = 0 /\ changes = 0 /\ crashes = 0 /\ lost = {}

----------------------------------------------------------------------------
(* Beginnings.                                                             *)

\* Who has manage stores settings and accounts.
BeginSettings(r) ==
    /\ Exists("settings")
    /\ Begin(r, "settings_store", [Changing("settings") EXCEPT !.at = "open"])
    /\ UNCHANGED granted

\* In local mode accounts are not managed.
BeginAccounts(r) ==
    /\ mode # "local"
    /\ \E x \in Account, role \in Role, password \in BOOLEAN :
          /\ Begin(r, "accounts_store",
                   [Changing("accounts") EXCEPT !.account = x, !.role = role, !.password = password])
          /\ granted' = granted \cup {<<x, role>>}

BeginRemoveAccount(r) ==
    /\ mode # "local"
    /\ \E x \in Account :
          Begin(r, "accounts_remove", [Changing("removeAccount") EXCEPT !.account = x])
    /\ UNCHANGED granted

\* Faulty variant: the request names the role.
BeginProfileWithRole(r) ==
    /\ mode # "local"
    /\ \E t \in tokens, password \in BOOLEAN, role \in Role :
          Begin(r, "profile", [Changing("profile") EXCEPT !.account = t.account, !.role = role,
                                                          !.password = password])
    /\ UNCHANGED granted

\* A profile is that of the token's account.
BeginProfile(r) ==
    /\ mode # "local"
    /\ \E t \in tokens, password \in BOOLEAN :
          Begin(r, "profile", [Changing("profile") EXCEPT !.at = "role", !.account = t.account,
                                                          !.password = password])
    /\ UNCHANGED granted

\* The document to pin exists.
BeginPin(r) ==
    /\ \E d \in present : Begin(r, "pinned_store", [Changing("pin") EXCEPT !.document = d])
    /\ UNCHANGED granted

BeginUnpin(r) ==
    /\ \E d \in Document : Begin(r, "pinned_remove", [Changing("unpin") EXCEPT !.document = d])
    /\ UNCHANGED granted

BeginSort(r) ==
    /\ \E d \in Document, target \in 1..Cardinality(Document) :
          Begin(r, "pinned_sort", [Changing("sort") EXCEPT !.document = d, !.target = target])
    /\ UNCHANGED granted

BeginInitialize(r) ==
    \E x \in Account :
        /\ Begin(r, "initialize", [New("initialize") EXCEPT !.at = "checkSettings", !.account = x])
        /\ granted' = granted \cup {<<x, "administrator">>}

----------------------------------------------------------------------------
(* Tokens.  A login reads the accounts once and changes no file.           *)

Issue(account, authorizations) ==
    /\ logins < MaxTokens
    /\ logins' = logins + 1
    /\ tokens' = tokens \cup {[account |-> account, authorizations |-> authorizations]}
    /\ UNCHANGED <<file, mode, present, req, issued, changes, crashes, lost, granted>>

GuestLogin ==
    /\ mode = "public"
    /\ Issue(Nothing, GuestAuthorizations)

\* The first account gets every authorization, whatever its role.
LocalLogin ==
    /\ mode = "local" /\ Readable("accounts")
    /\ \E x \in DOMAIN Data("accounts") : Issue(x, LocalAuthorizations)

\* With the right password.
Authenticate ==
    /\ mode # "local" /\ Readable("accounts")
    /\ \E x \in DOMAIN Data("accounts") :
          /\ Data("accounts")[x].password # Nothing
          /\ Issue(x, RoleAuthorizations(Data("accounts")[x].role))

Expire ==
    /\ \E t \in tokens : tokens' = tokens \ {t}
    /\ UNCHANGED <<file, mode, logins, present, req, issued, changes, crashes, lost, granted>>

----------------------------------------------------------------------------
(* Reading.                                                                *)

\* Faulty variant: it loses it.
PasswordCleared(q, data) == IF q.password THEN q.id ELSE 0

\* Without a new password an account keeps the one it has.
PasswordOf(q, data) == IF q.password THEN q.id ELSE data[q.account].password

\* The accounts data with the entry of x.
With(data, x, entry) == [y \in DOMAIN data \cup {x} |-> IF y = x THEN entry ELSE data[y]]

\* What the request stores, computed from what it has read; Nothing if it is
\* refused.
Stored(q, data) ==
    LET x == q.account
        index == SelectInSeq(data, LAMBDA d : d = q.document)
    IN  CASE q.kind \in {"accounts", "profile"} ->
               IF q.password \/ x \in DOMAIN data
               THEN With(data, x, [role |-> q.role, name |-> q.id, password |-> PasswordOf(q, data)])
               ELSE Nothing
          [] q.kind = "removeAccount" ->
               IF x \in DOMAIN data THEN Restrict(data, DOMAIN data \ {x}) ELSE Nothing
          [] q.kind = "unpin" ->
               IF index > 0 THEN RemoveAt(data, index) ELSE Nothing
          [] q.kind = "sort" ->
               IF index > 0 /\ q.target <= Len(data) /\ q.target # index
               THEN InsertAt(RemoveAt(data, index), q.target, q.document)
               ELSE Nothing

\* Faulty variant: a profile needs no account.
ReadRoleIfAny(r) ==
    LET q == req[r] IN
    /\ At(r, "role")
    /\ Proceed(r, IF Readable("accounts")
                  THEN [q EXCEPT !.at = "read",
                                 !.role = IF q.account \in DOMAIN Data("accounts")
                                          THEN Data("accounts")[q.account].role ELSE "user"]
                  ELSE Idle)

\* profile reads the role that it later stores with the new profile.
ReadRole(r) ==
    LET q == req[r] IN
    /\ At(r, "role")
    /\ Proceed(r, IF Readable("accounts") /\ q.account \in DOMAIN Data("accounts")
                  THEN [q EXCEPT !.at = "read", !.role = Data("accounts")[q.account].role]
                  ELSE Idle)

Read(r) ==
    LET q == req[r]
        f == FileOf(q.kind)
    IN  /\ At(r, "read") /\ q.kind # "pin"
        /\ Proceed(r, IF Readable(f) /\ Stored(q, Data(f)) # Nothing
                      THEN [q EXCEPT !.at = "open", !.read = Stored(q, Data(f))]
                      ELSE Idle)

\* A pin reads the pinned documents, then looks whether each still exists.
ReadPins(r) ==
    /\ At(r, "read") /\ req[r].kind = "pin"
    /\ Proceed(r, IF Readable("pinned")
                  THEN [req[r] EXCEPT !.at = "resolve", !.read = <<>>, !.rest = Data("pinned")]
                  ELSE Idle)

ResolvePin(r) ==
    LET q == req[r] IN
    /\ At(r, "resolve") /\ q.rest # <<>>
    /\ Proceed(r, [q EXCEPT !.rest = Tail(@),
                            !.read = IF Head(q.rest) \in present THEN Append(@, Head(q.rest)) ELSE @])

\* A document that is pinned already is refused.
AddPin(r) ==
    LET q == req[r] IN
    /\ At(r, "resolve") /\ q.rest = <<>>
    /\ Proceed(r, IF q.document \in Range(q.read) THEN Idle
                  ELSE [q EXCEPT !.at = "open", !.read = Append(@, q.document)])

\* Initialized: the settings and then the accounts are found to exist.
CheckSettings(r) ==
    /\ At(r, "checkSettings")
    /\ Proceed(r, [req[r] EXCEPT !.at = IF Exists("settings") THEN "checkAccounts" ELSE "open",
                                 !.files = <<"settings", "accounts", "pinned", "index">>])

\* Faulty variant: what is there is initialized again.
CheckAccountsIgnored(r) ==
    /\ At(r, "checkAccounts")
    /\ Proceed(r, [req[r] EXCEPT !.at = "open"])

CheckAccounts(r) ==
    /\ At(r, "checkAccounts")
    /\ Proceed(r, IF Exists("accounts") THEN Idle ELSE [req[r] EXCEPT !.at = "open"])

----------------------------------------------------------------------------
(* Writing.                                                                *)

\* r has read or tested f, and still has to write it.
HasRead(r, f) ==
    \/ req[r].at = "read" /\ req[r].kind = "profile" /\ f = "accounts"
    \/ req[r].at \in {"checkAccounts", "resolve", "open", "write"} /\ f \in Range(req[r].files)

\* The other requests after r, which q becomes, has created or written f.
Outdate(r, f, q) ==
    [x \in Request |-> IF x = r THEN q ELSE [req[x] EXCEPT !.outdated = @ \/ HasRead(x, f)]]

\* Faulty variant: the answer is sent when the file is open.
OpenFileOnly(r) ==
    LET f == Head(req[r].files) IN
    /\ At(r, "open")
    /\ file' = [file EXCEPT ![f] = [state |-> "empty", data |-> @.data]]
    /\ req' = IF Exists(f) THEN [req EXCEPT ![r] = Idle] ELSE Outdate(r, f, Idle)
    /\ UNCHANGED <<session, present, issued, changes, crashes, lost, granted>>

OpenFile(r) ==
    LET f == Head(req[r].files)
        q == [req[r] EXCEPT !.at = "write"]
    IN
    /\ At(r, "open")
    /\ file' = [file EXCEPT ![f] = [state |-> "empty", data |-> @.data]]
    /\ req' = IF Exists(f) THEN [req EXCEPT ![r] = q] ELSE Outdate(r, f, q)
    /\ UNCHANGED <<session, present, issued, changes, crashes, lost, granted>>

\* Faulty variant: the first account gets the role of local tokens.
NewDataLocal(q, f) ==
    CASE q.kind = "initialize" /\ f = "accounts" ->
           With(<<>>, q.account, [role |-> "local", name |-> q.id, password |-> q.id])
      [] q.kind = "initialize" /\ f = "pinned" -> <<>>
      [] f \in {"settings", "index"} -> q.id
      [] OTHER -> q.read

NewData(q, f) ==
    CASE q.kind = "initialize" /\ f = "accounts" ->
           With(<<>>, q.account, [role |-> "administrator", name |-> q.id,
                                  password |-> IF mode = "local" THEN Nothing ELSE q.id])
      [] q.kind = "initialize" /\ f = "pinned" -> <<>>
      [] f \in {"settings", "index"} -> q.id
      [] OTHER -> q.read

\* Faulty variant: the answer is sent after the accounts.
WriteFileEarlyEnd(r) ==
    LET q == req[r]
        f == Head(q.files)
        rest == Tail(q.files)
    IN  /\ At(r, "write")
        /\ file' = [file EXCEPT ![f] = [state |-> "whole", data |-> NewData(q, f)]]
        /\ req' = Outdate(r, f, IF rest = <<>> \/ f = "accounts" THEN Idle
                                ELSE [q EXCEPT !.files = rest, !.at = "open"])
        /\ lost' = IF q.outdated THEN lost \cup {f} ELSE lost
        /\ UNCHANGED <<session, present, issued, changes, crashes, granted>>

\* The text goes to the start of the file: behind it stays what another
\* request has meanwhile written, if that was longer.
WriteFile(r) ==
    LET q == req[r]
        f == Head(q.files)
        rest == Tail(q.files)
    IN  /\ At(r, "write")
        /\ \E state \in {"whole", "corrupt"} :
              /\ state = "corrupt" => file[f].state # "empty"
              /\ file' = [file EXCEPT ![f] = [state |-> state, data |-> NewData(q, f)]]
        /\ req' = Outdate(r, f, IF rest = <<>> THEN Idle
                                ELSE [q EXCEPT !.files = rest, !.at = "open"])
        /\ lost' = IF q.outdated THEN lost \cup {f} ELSE lost
        /\ UNCHANGED <<session, present, issued, changes, crashes, granted>>

----------------------------------------------------------------------------
\* Documents are removed and stored meanwhile.
DocumentChanges ==
    /\ changes < MaxChanges
    /\ changes' = changes + 1
    /\ \E d \in Document :
          present' = IF d \in present THEN present \ {d} ELSE present \cup {d}
    /\ UNCHANGED <<file, session, req, issued, crashes, lost, granted>>

Crash ==
    /\ crashes < MaxCrashes
    /\ crashes' = crashes + 1
    /\ req' = [r \in Request |-> Idle]
    /\ UNCHANGED <<file, session, present, issued, changes, lost, granted>>

Step(r) ==
    \/ BeginSettings(r) \/ BeginAccounts(r) \/ BeginRemoveAccount(r) \/ BeginProfile(r)
    \/ BeginPin(r) \/ BeginUnpin(r) \/ BeginSort(r) \/ BeginInitialize(r)
    \/ ReadRole(r) \/ Read(r) \/ ReadPins(r) \/ ResolvePin(r) \/ AddPin(r)
    \/ CheckSettings(r) \/ CheckAccounts(r)
    \/ OpenFile(r) \/ WriteFile(r)

Next ==
    \/ \E r \in Request : Step(r)
    \/ GuestLogin \/ LocalLogin \/ Authenticate \/ Expire
    \/ DocumentChanges \/ Crash

Spec == Init /\ [][Next]_vars

----------------------------------------------------------------------------
(* Properties.                                                             *)

\* The other entries are the same.
SameBeside(x, before, after) ==
    /\ DOMAIN before \ {x} = DOMAIN after \ {x}
    /\ \A y \in DOMAIN before \ {x} : after[y] = before[y]

\* Which pin comes before which.
Order(pins) ==
    {p \in Document \X Document :
       \E i, j \in DOMAIN pins : i <= j /\ p = <<pins[i], pins[j]>>}

OrderOf(kept, pins) == {p \in Order(pins) : p[1] \in kept /\ p[2] \in kept}

Others(d) == Document \ {d}

\* What a client asks for: the change of its own entry, and of no other.
Intended(q, before, after) ==
    LET x == q.account
        d == q.document
    IN  CASE q.kind = "accounts" ->
               /\ SameBeside(x, before, after)
               /\ after[x].role = q.role /\ after[x].name = q.id
               /\ ~q.password => after[x].password = before[x].password
          [] q.kind = "profile" ->
               /\ SameBeside(x, before, after)
               /\ after[x].role = before[x].role /\ after[x].name = q.id
               /\ ~q.password => after[x].password = before[x].password
          [] q.kind = "removeAccount" ->
               SameBeside(x, before, after) /\ x \notin DOMAIN after
          [] q.kind = "unpin" -> Order(after) = OrderOf(Others(d), before)
          [] q.kind = "sort"  ->
               /\ OrderOf(Others(d), after) = OrderOf(Others(d), before)
               /\ after[q.target] = d
          [] q.kind = "pin"   ->
               /\ Last(after) = d
               /\ \E kept \in SUBSET Document : Order(Front(after)) = OrderOf(kept, before)
          [] OTHER -> TRUE

\* A request whose readings are still right when it opens the file for writing
\* changes what it was asked to change and nothing else: the role of an account
\* survives a profile, a password survives a change without one, pins keep
\* their order.
UpdatesAreExact ==
    [][\A r \in Request :
          LET f == Head(req[r].files) IN
          /\ At(r, "write") /\ ~req[r].outdated
          /\ WriteFile(r)
          => Intended(req[r], Data(f), file'[f].data)]_vars

Accounts == IF Exists("accounts") THEN DOMAIN Data("accounts") ELSE {}

\* A removed account comes back only when an administrator stores that very
\* account, or by a request that was under way while it was removed: a change of
\* another account, or of its own profile.
RemovedStaysRemoved ==
    [][\A x \in Accounts' \ Accounts :
          \E r \in Request :
              /\ At(r, "write")
              /\ \/ req[r].kind \in {"accounts", "initialize"} /\ req[r].account = x
                 \/ req[r].outdated]_vars

\* Nobody comes by an authorization to write or to manage that an administrator
\* or the initialization has not given with a role: not by a profile, whose
\* request reads the role first and stores it later, and not by a login while
\* accounts are written.  In local mode there is one user, who may do all.
AuthorityIsGranted ==
    mode # "local" =>
        \A t \in tokens :
            /\ t.authorizations \cap {"manage", "sync"} # {} =>
                  <<t.account, "administrator">> \in granted
            /\ t.authorizations \cap {"write", "delete"} # {} =>
                  \E role \in Role \ {"user"} : <<t.account, role>> \in granted

\* A file that cannot be parsed, which makes every request on it fail, is being
\* written, or was when the backend crashed, or was written by two at once; and no
\* document is pinned twice, however changes of the pins overlap.
FilesAreSound ==
    \A f \in File :
        /\ file[f].state = "empty" =>
              crashes > 0 \/ \E r \in Request : At(r, "write") /\ Head(req[r].files) = f
        /\ file[f].state = "corrupt" => f \in lost
        /\ f = "pinned" /\ Exists(f) => IsInjective(Data(f))

\* Once the system counts as initialized, nothing is missing, unless an
\* initialization is still under way or a crash ended one: nobody can
\* initialize it again.
InitializedIsComplete ==
    Exists("settings") /\ Exists("accounts") =>
        \/ \A f \in File : Exists(f)
        \/ crashes > 0
        \/ \E r \in Request : req[r].kind = "initialize"

\* An initialization never replaces accounts, unless two of them overlapped.
AccountsOutliveInitialization ==
    [][\A r \in Request :
          /\ req[r].kind = "initialize" /\ At(r, "open") /\ OpenFile(r)
          /\ Exists(Head(req[r].files))
          /\ Exists("accounts")
          => req[r].outdated]_vars

============================================================================
