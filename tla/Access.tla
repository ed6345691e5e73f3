--------------------------------- MODULE Access ---------------------------------
(*****************************************************************************)
(* Who may do what: the accounts and their membership, the permissions of    *)
(* the roles, the signatures that a change of them needs, and the identity   *)
(* of a device service. A token only says who somebody is; everything else   *)
(* is read again on every request. No handler locks a row: what an update    *)
(* checked may have changed when it is committed.                            *)
(*****************************************************************************)
EXTENDS Integers, Sequences, FiniteSets

CONSTANTS
  None,
  Person, Role,      \* Role: the roles the matrix is about, all but "admin"
  Default,           \* the permissions a role comes with
  Later,             \* the permissions that only come with a new version of the program
  Station,
  Slot,              \* the requests that may be under way at a time
  AccessScenarios    \* [accounts, presence, Budget: what may happen, how often]

VARIABLES
  accounts,   \* [state, member, roles, temporary], or None
  tokens,     \* who ever logged in: a token outlives what it was given for
  roleSet,    \* None, or the saved matrix [matrix, known, row]
  shipped,    \* the permissions the running program knows
  tickets,    \* the signatures [by, version, used, old]
  pending,    \* the updates and matrices that were checked and are not committed
  service,    \* [state, secret, scopes, heard]: heard, a ghost, what it did since it was changed
  chances,    \* bounds
  taken       \* ghost: what the matrix saved last took from a role

accessVars == <<accounts, tokens, roleSet, shipped, tickets, pending, service, chances, taken>>

AdminOnly == {"org.admin", "service.manage"}

-----------------------------------------------------------------------------
(* What the roles allow.                                                    *)

\* A permission that came after the matrix was saved keeps its default.
Merged_Mut(saved) == [r \in Role |-> (saved.matrix[r] \cup (Default[r] \cap Later)) \cap shipped]

Merged(saved) == [r \in Role |-> (saved.matrix[r] \cup (Default[r] \ saved.known)) \cap shipped]

Matrix == IF roleSet = None THEN [r \in Role |-> Default[r] \cap shipped] ELSE Merged(roleSet)

\* What may be saved: nothing that is kept for the administrators.
Normalized_Mut(matrix) == \A r \in Role : matrix[r] \subseteq shipped

Normalized(matrix) == \A r \in Role : matrix[r] \subseteq shipped \ AdminOnly

Permissions(u) ==
  IF "admin" \in accounts[u].roles THEN shipped
  ELSE UNION {Matrix[r] : r \in accounts[u].roles}

-----------------------------------------------------------------------------
(* Who is let in.                                                           *)

Login(u) ==
  /\ u \notin tokens
  /\ accounts[u] # None
  /\ accounts[u].state = "active" /\ accounts[u].member = "active"
  /\ tokens' = tokens \cup {u}
  /\ UNCHANGED <<accounts, roleSet, shipped, tickets, pending, service, chances, taken>>

\* The context of a request: whoever holds the token, as the account stands now.
Admitted(u) ==
  /\ u \in tokens
  /\ accounts[u].state = "active" /\ accounts[u].member = "active"
  /\ ~accounts[u].temporary

May(u, permission) == Admitted(u) /\ permission \in Permissions(u)

\* The only thing a temporary password is good for.
ChangePassword(u) ==
  /\ u \in tokens
  /\ accounts[u].member = "active"
  /\ accounts[u].temporary
  /\ accounts' = [accounts EXCEPT ![u].temporary = FALSE]
  /\ UNCHANGED <<tokens, roleSet, shipped, tickets, pending, service, chances, taken>>

-----------------------------------------------------------------------------
(* The accounts.                                                            *)

Administrators ==
  {u \in Person : /\ accounts[u] # None
                  /\ accounts[u].state = "active" /\ accounts[u].member = "active"
                  /\ "admin" \in accounts[u].roles}

CreateAccount(actor, u, roles) ==
  /\ chances.accounts > 0
  /\ May(actor, "org.admin")
  /\ accounts[u] = None
  /\ roles # {}
  /\ accounts' = [accounts EXCEPT ![u] = [state |-> "active", member |-> "active", roles |-> roles, temporary |-> TRUE]]
  /\ chances' = [chances EXCEPT !.accounts = @ - 1]
  /\ UNCHANGED <<tokens, roleSet, shipped, tickets, pending, service, taken>>

\* The account after one of its fields is set.
Changed(account, field, value) ==
  CASE field = "state" -> [account EXCEPT !.state = value]
    [] field = "member" -> [account EXCEPT !.member = value]
    [] field = "roles" -> [account EXCEPT !.roles = value]

\* The account would not be an active administrator any more.
RemovesAdmin(u, after) ==
  /\ "admin" \in accounts[u].roles
  /\ "admin" \notin after.roles \/ after.state # "active" \/ after.member # "active"

LocksOut(u, after) ==
  \/ after.state = "disabled" /\ accounts[u].state # after.state
  \/ after.member = "revoked" /\ accounts[u].member # after.member
  \/ after.roles # accounts[u].roles

\* Nobody takes the rights of its own account, nor those of the only administrator there
\* is as it looks.
MayUpdate(actor, u, after) ==
  /\ ~(actor = u /\ LocksOut(u, after))
  /\ RemovesAdmin(u, after) => Cardinality(Administrators) > 1

CheckUpdate(s, actor, u, field, value) ==
  /\ chances.accounts > 0
  /\ pending[s] = None
  /\ May(actor, "org.admin")
  /\ accounts[u] # None
  /\ Changed(accounts[u], field, value) # accounts[u]
  /\ MayUpdate(actor, u, Changed(accounts[u], field, value))
  /\ pending' = [pending EXCEPT ![s] = [kind |-> "account", of |-> u, field |-> field, value |-> value]]
  /\ chances' = [chances EXCEPT !.accounts = @ - 1]
  /\ UNCHANGED <<accounts, tokens, roleSet, shipped, tickets, service, taken>>

\* Whatever was committed since it was checked.
CommitUpdate(s) ==
  /\ pending[s] # None
  /\ pending[s].kind = "account"
  /\ accounts' = [accounts EXCEPT ![pending[s].of] = Changed(@, pending[s].field, pending[s].value)]
  /\ pending' = [pending EXCEPT ![s] = None]
  /\ UNCHANGED <<tokens, roleSet, shipped, tickets, service, chances, taken>>

ResetPassword(actor, u) ==
  /\ chances.accounts > 0
  /\ May(actor, "org.admin")
  /\ accounts[u] # None
  /\ accounts' = [accounts EXCEPT ![u].temporary = TRUE]
  /\ chances' = [chances EXCEPT !.accounts = @ - 1]
  /\ UNCHANGED <<tokens, roleSet, shipped, tickets, pending, service, taken>>

-----------------------------------------------------------------------------
(* The permissions of the roles, changed under a signature.                 *)

Row == IF roleSet = None THEN 0 ELSE roleSet.row

Sign(u, version) ==
  /\ chances.tickets > 0
  /\ Admitted(u)
  /\ tickets' = Append(tickets, [by |-> u, version |-> version, used |-> FALSE, old |-> FALSE])
  /\ chances' = [chances EXCEPT !.tickets = @ - 1]
  /\ UNCHANGED <<accounts, tokens, roleSet, shipped, pending, service, taken>>

OutOfTime(n) ==
  /\ ~tickets[n].old
  /\ tickets' = [tickets EXCEPT ![n].old = TRUE]
  /\ UNCHANGED <<accounts, tokens, roleSet, shipped, pending, service, chances, taken>>

\* The signature of this person, for this version of this matrix, never used, in time.
Signed(n, u, version) ==
  /\ tickets[n].by = u
  /\ ~tickets[n].used /\ ~tickets[n].old
  /\ tickets[n].version = version

CheckMatrix(s, actor, n, matrix) ==
  /\ pending[s] = None
  /\ May(actor, "org.admin")
  /\ Normalized(matrix)
  /\ Signed(n, actor, Row)
  /\ matrix # Matrix
  /\ pending' = [pending EXCEPT ![s] = [kind |-> "matrix", ticket |-> n, matrix |-> matrix, row |-> Row, first |-> roleSet = None]]
  /\ UNCHANGED <<accounts, tokens, roleSet, shipped, tickets, service, chances, taken>>

\* The first row is inserted, and its key admits one; later ones are overwritten.
CommitMatrix(s) ==
  /\ pending[s] # None
  /\ pending[s].kind = "matrix"
  /\ ~(pending[s].first /\ roleSet # None)
  /\ roleSet' = [matrix |-> pending[s].matrix, known |-> shipped, row |-> pending[s].row + 1]
  /\ tickets' = [tickets EXCEPT ![pending[s].ticket].used = TRUE]
  /\ taken' = {t \in Role \X shipped : t[2] \notin pending[s].matrix[t[1]]}
  /\ pending' = [pending EXCEPT ![s] = None]
  /\ UNCHANGED <<accounts, tokens, shipped, service, chances>>

\* The request fails, or its process dies.
Fail(s) ==
  /\ pending[s] # None
  /\ pending' = [pending EXCEPT ![s] = None]
  /\ UNCHANGED <<accounts, tokens, roleSet, shipped, tickets, service, chances, taken>>

\* A new version of the program brings its permissions.
Upgrade ==
  /\ chances.upgrades > 0
  /\ shipped' = shipped \cup Later
  /\ pending' = [s \in Slot |-> None]
  /\ chances' = [chances EXCEPT !.upgrades = @ - 1]
  /\ UNCHANGED <<accounts, tokens, roleSet, tickets, service, taken>>

-----------------------------------------------------------------------------
(* A device service, known by its secret.                                   *)

Administer(actor) == chances.services > 0 /\ May(actor, "service.manage") /\ chances' = [chances EXCEPT !.services = @ - 1]

\* The stations are named one by one: all of them at once cannot be given.
ScopesGiven == SUBSET Station

UpdateService(actor, scopes) ==
  /\ Administer(actor)
  /\ scopes \in ScopesGiven
  /\ service' = [service EXCEPT !.scopes = scopes, !.heard = {}]
  /\ UNCHANGED <<accounts, tokens, roleSet, shipped, tickets, pending, taken>>

RotateService(actor) ==
  /\ Administer(actor)
  /\ service' = [service EXCEPT !.secret = @ + 1, !.heard = {}]
  /\ UNCHANGED <<accounts, tokens, roleSet, shipped, tickets, pending, taken>>

SetServiceState(actor, state) ==
  /\ Administer(actor)
  /\ service' = [service EXCEPT !.state = state, !.heard = {}]
  /\ UNCHANGED <<accounts, tokens, roleSet, shipped, tickets, pending, taken>>

Known_Mut(secret) == secret <= service.secret

Known(secret) == secret = service.secret /\ service.state = "active"

Authorized(station) == station \in service.scopes

ServiceCall(secret, station) ==
  /\ Known(secret) /\ Authorized(station)
  /\ service' = [service EXCEPT !.heard = @ \cup {[secret |-> secret, station |-> station]}]
  /\ UNCHANGED <<accounts, tokens, roleSet, shipped, tickets, pending, chances, taken>>

-----------------------------------------------------------------------------
AccessInit ==
  /\ \E scenario \in AccessScenarios :
       /\ accounts = scenario.accounts
       /\ tokens = scenario.tokens
       /\ chances = scenario.chances
  /\ roleSet = None
  /\ shipped = ((UNION {Default[r] : r \in Role}) \cup AdminOnly) \ Later
  /\ tickets = <<>>
  /\ pending = [s \in Slot |-> None]
  /\ service = [state |-> "active", secret |-> 1, scopes |-> {}, heard |-> {}]
  /\ taken = {}

Values(field) ==
  CASE field = "state" -> {"active", "disabled"}
    [] field = "member" -> {"active", "revoked"}
    [] field = "roles" -> {{"admin"}} \cup {{r} : r \in Role}

AccountNext ==
  \/ \E u \in Person : accounts[u] # None /\ (Login(u) \/ ChangePassword(u))
  \/ \E actor \in tokens, u \in Person :
       \/ ResetPassword(actor, u)
       \/ \E r \in Role \cup {"admin"} : CreateAccount(actor, u, {r})
       \/ \E s \in Slot, field \in {"state", "member", "roles"} : \E value \in Values(field) :
            CheckUpdate(s, actor, u, field, value)
  \/ \E s \in Slot : CommitUpdate(s)

MatrixNext ==
  \/ \E u \in tokens, version \in 0..2 : version <= Row /\ Sign(u, version)
  \/ \E n \in DOMAIN tickets : OutOfTime(n)
  \/ \E s \in Slot, actor \in tokens, n \in DOMAIN tickets, matrix \in [Role -> SUBSET shipped] :
       CheckMatrix(s, actor, n, matrix)
  \/ \E s \in Slot : CommitMatrix(s) \/ Fail(s)
  \/ Upgrade

ServiceNext ==
  \/ \E actor \in tokens : \/ RotateService(actor)
                           \/ \E scopes \in ScopesGiven : UpdateService(actor, scopes)
                           \/ \E state \in {"active", "disabled"} : SetServiceState(actor, state)
  \/ \E secret \in 1..service.secret, station \in Station : ServiceCall(secret, station)

AccessNext == AccountNext \/ MatrixNext \/ ServiceNext

AccessSpec == AccessInit /\ [][AccessNext]_accessVars

-----------------------------------------------------------------------------
(* Only administrators administer, whatever matrix is saved.                 *)
KeptForAdministrators ==
  \A u \in Person : accounts[u] # None =>
    (Permissions(u) \cap AdminOnly # {} => "admin" \in accounts[u].roles)

(* What the matrix saved last took from a role stays away through every      *)
(* upgrade of the program, until a matrix is saved that gives it back,       *)
(* however saves overlap.                                                    *)
TakenStaysAway == \A t \in taken : t[2] \notin Matrix[t[1]]

(* Of a service that was given another secret, state or stations, no call    *)
(* that comes afterwards is taken that is not allowed any more.              *)
ServiceKept ==
  \A h \in service.heard :
    service.state = "active" /\ h.secret = service.secret /\ h.station \in service.scopes

AccessHolds ==
  KeptForAdministrators /\ TakenStaysAway /\ ServiceKept
================================================================================
