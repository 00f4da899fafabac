------------------------------- MODULE Access -------------------------------
(***************************************************************************)
(* Who may call what: the endpoints of the backend with the authorizations *)
(* that their decorators name (app.controller.ts), the guard in front of   *)
(* them (app.guard.ts) and the authorizations that a token is issued with  *)
(* (accounts.service.ts).  A token carries its authorizations: the guard   *)
(* does not look at the accounts.                                          *)
(***************************************************************************)
EXTENDS TLC

Authorization == {"read", "write", "delete", "sync", "manage"}

\* @Public: the guard lets everyone pass.  An endpoint without authorizations
\* takes any token.
Public == {"public"}
AnyToken == {}

SystemEndpoints ==
    [health |-> Public, information |-> Public, release_retrieve |-> {"manage"},
     initialize |-> Public]

SessionEndpoints ==
    [token |-> AnyToken, guest |-> Public, local |-> Public, authenticate |-> Public,
     profile |-> AnyToken]

AdministrationEndpoints ==
    [settings_retrieve |-> Public, settings_store |-> {"manage"},
     accounts_retrieve |-> {"manage"}, accounts_store |-> {"manage"},
     accounts_remove |-> {"manage"}]

PinnedEndpoints ==
    [pinned_retrieve |-> {"read"}, pinned_store |-> {"write"}, pinned_sort |-> {"write"},
     pinned_remove |-> {"write"}]

DocumentEndpoints ==
    [search |-> {"read"}, tree |-> {"read"}, document_retrieve |-> {"read"},
     document_store |-> {"write"}, document_move |-> {"write"}, document_remove |-> {"delete"}]

\* An attachment is read with a token of its own, which its document names.
AttachmentEndpoints ==
    [version_retrieve |-> {"write"}, version_remove |-> {"delete"},
     attachment_retrieve |-> Public, attachment_store |-> {"write"},
     attachment_remove |-> {"delete"}]

TrashEndpoints ==
    [trash_retrieve |-> {"delete"}, trash_recover |-> {"delete"}, trash_remove |-> {"delete"}]

SyncEndpoints ==
    [sync_snapshot |-> {"sync"}, sync_actions |-> {"sync"}, sync_import |-> {"sync"}]

Endpoints ==
    SystemEndpoints @@ SessionEndpoints @@ AdministrationEndpoints @@ PinnedEndpoints
    @@ DocumentEndpoints @@ AttachmentEndpoints @@ TrashEndpoints @@ SyncEndpoints

\* An endpoint takes a token with one of its authorizations; authorizations are
\* those of a token that has not expired.
Admits(endpoint, authorizations) ==
    LET required == Endpoints[endpoint] IN
    required = AnyToken \/ required \cap authorizations # {}

IsPublic(endpoint) == Endpoints[endpoint] = Public

----------------------------------------------------------------------------
GuestAuthorizations == {"read"}

LocalAuthorizations == Authorization

\* A token of a login has the authorizations of the account's role.
RoleAuthorizations(role) ==
    CASE role = "user" -> {"read"}
      [] role = "author" -> {"read", "write", "delete"}
      [] role = "administrator" -> Authorization

============================================================================
