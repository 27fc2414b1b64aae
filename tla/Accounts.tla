------------------------------ MODULE Accounts ------------------------------
(***************************************************************************)
(* Server accounts and sessions (ServerAuthService), and the checks every  *)
(* API makes of a request before its handler runs: a request is admitted   *)
(* by one query, and its handler writes in a transaction of its own, with  *)
(* other requests in between.                                              *)
(***************************************************************************)
EXTENDS Naturals, FiniteSets, Routes

CONSTANTS
    AccountIds,     \* account identifiers a uuid4 may return
    Names,          \* user names that are typed
    ValidNames,     \* the ones _validate_username accepts
    Passwords,      \* passwords that are typed
    BadPasswords,   \* the ones _password_hash refuses: empty or shorter than three
    Patches,        \* bodies of PATCH requests of other clients than the Tool
    Threads,        \* request threads
    NoAccount, NoValue

Roles == {"ADMIN", "EDITOR", "VIEWER"}

AccountRecords == [name : Names, password : Passwords, role : Roles, active : BOOLEAN]

\* The identifiers a uuid4 may return are many, but finitely many.
ASSUME AccountsAssumption ==
    /\ IsFiniteSet(AccountIds)
    /\ NoAccount \notin AccountRecords
    /\ ValidNames \subseteq Names /\ BadPasswords \subseteq Passwords
    /\ Patches \subseteq [username : Names \cup {NoValue}, active : BOOLEAN \cup {NoValue},
                          role : Roles \cup {NoValue}, password : Passwords \cup {NoValue}]

VARIABLES
    accounts,   \* user_accounts
    tokens,     \* the unexpired tokens in clients' hands
    request     \* the handler each request thread was admitted to

accountVars == <<accounts, tokens, request>>

NoRequest == "none"

InitAccounts ==
    /\ accounts = [id \in AccountIds |-> NoAccount]
    /\ tokens = {}
    /\ request = [t \in Threads |-> NoRequest]

Existing == {id \in AccountIds : accounts[id] # NoAccount}
ActiveAdmins(acc) == {id \in AccountIds : /\ acc[id] # NoAccount
                                          /\ acc[id].active /\ acc[id].role = "ADMIN"}

Account(name, password, role) ==
    [name |-> name, password |-> password, role |-> role, active |-> TRUE]

\* bootstrap_admin: the first account, from the server's environment.  It runs at the
\* start of a production server and before every login of the administration API.
BootstrapAdmin(id, name, password) ==
    /\ Existing = {}
    /\ name \in ValidNames /\ password \notin BadPasswords
    /\ accounts' = [accounts EXCEPT ![id] = Account(name, password, "ADMIN")]
    /\ UNCHANGED <<tokens, request>>

\* _issue: the token names the account and the role it has now.
Issued(id) == [sub |-> id, role |-> accounts[id].role]

Login(id, name, password) ==
    /\ id \in Existing
    /\ accounts[id].name = name /\ accounts[id].active
    /\ accounts[id].password = password
    /\ tokens' = tokens \cup {Issued(id)}
    /\ UNCHANGED <<accounts, request>>

ExpireToken(token) ==
    /\ token \in tokens
    /\ tokens' = tokens \ {token}
    /\ UNCHANGED <<accounts, request>>

\* authenticate reads the account again: it must be active, and its role is the one it has
\* now.
Authenticates(token) ==
    token \in tokens /\ token.sub \in Existing /\ accounts[token.sub].active
RoleNow(token) == accounts[token.sub].role

\* The role an API asks for: administration, a change of data, or any role at all.
MayAdminister(role) == role = "ADMIN"
MayWrite(role) == role \in {"ADMIN", "EDITOR"}
MayCall(kind, role) ==
    CASE kind = "admin" -> MayAdminister(role)
      [] kind = "write" -> MayWrite(role)
      [] kind \in {"read", "open"} -> TRUE
      [] kind = "dev" -> FALSE

\* The two handlers that change accounts, and all the others.
HandlerOf(route) == IF route \in {"create_account", "update_account"} THEN route ELSE "other"

\* The dependencies of a request run before its handler, and are not looked at again.  The
\* open routes are left out: login is an action of its own, the rest change nothing.
Admit(t, token, route) ==
    /\ request[t] = NoRequest
    /\ Access[route] # "open"
    /\ Authenticates(token)
    /\ MayCall(Access[route], RoleNow(token))
    /\ request' = [request EXCEPT ![t] = HandlerOf(route)]
    /\ UNCHANGED <<accounts, tokens>>

Done(t) == request' = [request EXCEPT ![t] = NoRequest]

\* A handler that reads, or that changes no account.
HandleOther(t) ==
    /\ request[t] = "other"
    /\ Done(t)
    /\ UNCHANGED <<accounts, tokens>>

NameTaken(acc, name, except) ==
    \E id \in AccountIds \ {except} : acc[id] # NoAccount /\ acc[id].name = name

\* create_account; a name that exists, or a refused password, answers 422.
CreateAccount(t, id, name, password, role) ==
    /\ request[t] = "create_account"
    /\ accounts[id] = NoAccount
    /\ accounts' = IF /\ name \in ValidNames /\ password \notin BadPasswords
                      /\ ~NameTaken(accounts, name, id)
                   THEN [accounts EXCEPT ![id] = Account(name, password, role)]
                   ELSE accounts
    /\ Done(t)
    /\ UNCHANGED tokens

Or(value, current) == IF value = NoValue THEN current ELSE value

Patched(account, patch) ==
    [name |-> Or(patch.username, account.name), password |-> Or(patch.password, account.password),
     role |-> Or(patch.role, account.role), active |-> Or(patch.active, account.active)]

\* Mutant: only a deactivation is looked at, not a change of the role.
RemovesActiveAdmin(account, next) ==
    account.active /\ account.role = "ADMIN" /\ ~next.active

RemovesAdminAccess(account, next) ==
    account.active /\ account.role = "ADMIN" /\ (~next.active \/ next.role # "ADMIN")

\* The name is valid and no other account has it.
RenameAllowed(id, patch) ==
    patch.username # NoValue => /\ patch.username \in ValidNames
                                /\ ~NameTaken(accounts, patch.username, id)

\* update_account: all its checks are made in the transaction that writes.
UpdateAccount(t, id, patch) ==
    /\ request[t] = "update_account"
    /\ id \in Existing
    /\ LET next == Patched(accounts[id], patch)
       IN  accounts' = IF /\ RenameAllowed(id, patch)
                          /\ patch.password \notin BadPasswords
                          /\ RemovesAdminAccess(accounts[id], next)
                                => Cardinality(ActiveAdmins(accounts)) > 1
                       THEN [accounts EXCEPT ![id] = next]
                       ELSE accounts
    /\ Done(t)
    /\ UNCHANGED tokens

\* The four changes the Tool's account page asks for.  Its table may be old, so that it can
\* ask to activate an active account.
NoChange == [username |-> NoValue, active |-> NoValue, role |-> NoValue, password |-> NoValue]
ChangeSelectedRole(role) == [NoChange EXCEPT !.role = role]
ToggleSelectedAccount(active) == [NoChange EXCEPT !.active = ~active]
ResetSelectedPassword(password) == [NoChange EXCEPT !.password = password]
RenameSelectedAccount(name) == [NoChange EXCEPT !.username = name]

ToolPatches ==
    {ChangeSelectedRole(role) : role \in Roles} \cup
    {ToggleSelectedAccount(active) : active \in BOOLEAN} \cup
    {ResetSelectedPassword(password) : password \in Passwords} \cup
    {RenameSelectedAccount(name) : name \in Names}

NextAccounts ==
    \/ \E id \in AccountIds, name \in Names, password \in Passwords :
        \/ BootstrapAdmin(id, name, password)
        \/ Login(id, name, password)
    \/ \E token \in tokens : ExpireToken(token)
    \/ \E t \in Threads :
        \/ \E token \in tokens, route \in DOMAIN Access : Admit(t, token, route)
        \/ HandleOther(t)
        \/ \E id \in AccountIds, name \in Names, password \in Passwords, role \in Roles :
            CreateAccount(t, id, name, password, role)
        \/ \E id \in AccountIds, patch \in ToolPatches \cup Patches : UpdateAccount(t, id, patch)

SpecAccounts == InitAccounts /\ [][NextAccounts]_accountVars

-----------------------------------------------------------------------------
(* Properties *)

\* update_account refuses to deactivate or demote the last administrator.  Two
\* administrators who demote each other at once, each admitted before the other's
\* change, leave one of them; and a name always means one account.
AdministrableAccounts ==
    /\ Existing # {} => ActiveAdmins(accounts) # {}
    /\ \A a, b \in Existing : accounts[a].name = accounts[b].name => a = b

=============================================================================
