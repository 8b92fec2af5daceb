------------------------------ MODULE Ventures ------------------------------
(***************************************************************************)
(* One account of the Local Hub: the tokens it is given and withdrawn      *)
(* (core/security.py, api/routes/auth.py), its assignment to a role, a     *)
(* company and a branch (api/routes/ventures.py), and the rows a request   *)
(* may read and write under it (api/deps.py, core/scope.py,                *)
(* db/scoping.py).                                                         *)
(*                                                                         *)
(* Nothing locks the user row: every request reads it in one step and      *)
(* commits in another, and a commit writes only the columns that differ    *)
(* from what was read.                                                     *)
(***************************************************************************)
EXTENDS Integers, FiniteSets

CONSTANTS Company, Branch,
          CompanyOf,    \* the company of each branch
          Token, Desk,  \* access tokens; requests under way at once
          FirstCompany, \* where the account starts, as an admin
          None,         \* no company, no branch, no token, no request
          Nowhere,      \* the branch_id that no branch has
          MaxRevisions  \* bound: token_version

ASSUME VenturesAssumption ==
    /\ CompanyOf \in [Branch -> Company] /\ FirstCompany \in Company
    /\ None \notin Company \cup Branch \cup Nat
    /\ Nowhere \notin Branch \cup {None}
    /\ MaxRevisions \in Nat \ {0}

VARIABLES
    account,  \* users: role, company_id, branch_id, is_active, token_version
    issued,   \* the token_version each token carries
    desk,     \* the requests: the version they have read and the columns
              \* they will write
    withdrawn,\* history: tokens issued before a logout or an assignment that
              \* has been committed since
    overlapped\* history: a token_version was counted up from a stale read

ventureVars == <<account, issued, desk, withdrawn, overlapped>>

Role == {"super_admin", "admin", "analyst", "staff"}

(* BRANCH_REQUIRED_ROLES; store managers, order takers and the kitchen are *)
(* scoped as the staff are.                                                *)
BranchRequired == {"staff"}

Versions == 1..(MaxRevisions + 1)

AccountType == [role : Role, company : Company \cup {None},
                branch : Branch \cup {None}, active : BOOLEAN,
                version : Versions]

(* The row with the columns of an UPDATE written over it.                  *)
Updated(columns) ==
    LET Of(c) == IF c \in DOMAIN columns THEN columns[c] ELSE account[c]
    IN [role |-> Of("role"), company |-> Of("company"), branch |-> Of("branch"),
        active |-> Of("active"), version |-> Of("version")]

VenturesTypeOK ==
    /\ account \in AccountType
    /\ issued \in [Token -> Versions \cup {None}]
    /\ \A d \in Desk : \/ desk[d] = None
                      \/ desk[d] \in [token : Token, version : Versions]
                      \/ /\ desk[d].version \in Versions
                         /\ Updated(desk[d].columns) \in AccountType
    /\ withdrawn \subseteq Token
    /\ account.role \in BranchRequired /\ account.branch = None => overlapped
    /\ overlapped \in BOOLEAN

VenturesInit ==
    /\ account = [role |-> "admin", company |-> FirstCompany, branch |-> None,
                  active |-> TRUE, version |-> 1]
    /\ issued = [t \in Token |-> None]
    /\ desk = [d \in Desk |-> None]
    /\ withdrawn = {} /\ overlapped = FALSE

(* A slip: staff may be left without a branch.                             *)
ValidAssignmentSlip(role, company, branch) ==
    IF role = "super_admin" THEN company = None /\ branch = None
    ELSE company # None /\ (branch # None => CompanyOf[branch] = company)

(* _validate_assignment.                                                   *)
ValidAssignment(role, company, branch) ==
    IF role = "super_admin" THEN company = None /\ branch = None
    ELSE /\ company # None
         /\ branch = None => role \notin BranchRequired
         /\ branch # None => role # "admin" /\ CompanyOf[branch] = company

(* get_auth_context and, at a login, _account_scope_is_active, as far as   *)
(* they look at the account alone.                                         *)
Accepted(u) ==
    /\ u.active
    /\ IF u.role = "super_admin" THEN u.company = None /\ u.branch = None
       ELSE u.company # None /\ (u.role \in BranchRequired => u.branch # None)

MayLogIn(u) ==
    /\ Accepted(u)
    /\ u.role = "admin" => u.branch = None
    /\ u.branch # None => CompanyOf[u.branch] = u.company

(* A slip: an account without a branch has all of them.                    *)
BranchesOfSlip(u) ==
    IF u.role = "super_admin" \/ u.branch = None THEN {} ELSE {u.branch}

(* branch_ids of scope_context_for_user; none means all of them.  The      *)
(* branch that does not exist keeps a wrong assignment out of every row.   *)
BranchesOf(u) ==
    IF u.role = "super_admin" THEN {}
    ELSE IF u.branch # None THEN {u.branch}
    ELSE IF u.role \in BranchRequired THEN {Nowhere} ELSE {}

(* The scope of a request; a Super Admin may have chosen a venture.        *)
ScopeOf(u, venture) ==
    [all      |-> u.role = "super_admin" /\ venture = None,
     company  |-> IF u.role = "super_admin" THEN venture ELSE u.company,
     branches |-> BranchesOf(u)]

(* A row of a table of BRANCH_MODELS.  In some of them, customers and chat *)
(* sessions among them, branch_id may be NULL.                             *)
Row == [company : Company, branch : Branch \cup {None}]

(* _apply_read_scope: IN is not true of NULL.                              *)
Readable(scope, r) ==
    \/ scope.all
    \/ /\ scope.company # None /\ r.company = scope.company
       /\ scope.branches # {} => r.branch \in scope.branches

(* A slip: the branch of a new row is not looked at.                       *)
WritableSlip(scope, r) ==
    /\ scope.all \/ (scope.company # None /\ r.company = scope.company)
    /\ r.branch # None => CompanyOf[r.branch] = r.company

(* _enforce_write_scope, with the reference of the row to its branch.  It  *)
(* looks at neither if the row has none.                                   *)
Writable(scope, r) ==
    /\ scope.all \/ (scope.company # None /\ r.company = scope.company)
    /\ r.branch # None =>
         /\ ~scope.all /\ scope.branches # {} => r.branch \in scope.branches
         /\ CompanyOf[r.branch] = r.company

(* A slip: the version stays as it was read.                               *)
RevisedSlip(n) == n

Revised(n) == n + 1

(* The columns the UPDATE of an account changed to u holds.                *)
Columns(u) == [c \in {c \in DOMAIN u : u[c] # account[c]} |-> u[c]]

Live(t) == issued[t] = account.version /\ Accepted(account)

-----------------------------------------------------------------------------
Free(d) == desk[d] = None
Writing(d) == desk[d] # None /\ "columns" \in DOMAIN desk[d]

(* login reads the row and makes a token of its version.                   *)
BeginLogin(d, t) ==
    /\ Free(d) /\ MayLogIn(account) /\ issued[t] = None
    /\ \A e \in Desk : ~Free(e) /\ ~Writing(e) => desk[e].token # t
    /\ desk' = [desk EXCEPT ![d] = [token |-> t, version |-> account.version]]
    /\ UNCHANGED <<account, issued, withdrawn, overlapped>>

(* It hands the token over.  (Its counters of failures are left out.)      *)
Login(d) ==
    /\ ~Free(d) /\ ~Writing(d)
    /\ issued' = [issued EXCEPT ![desk[d].token] = desk[d].version]
    /\ desk' = [desk EXCEPT ![d] = None]
    /\ UNCHANGED <<account, withdrawn, overlapped>>

(* logout, with a token that is still good.                                *)
BeginLogout(d, t) ==
    /\ Free(d) /\ Live(t) /\ account.version <= MaxRevisions
    /\ desk' = [desk EXCEPT ![d] = [version |-> account.version, columns |->
                   Columns([account EXCEPT !.version = Revised(@)])]]
    /\ UNCHANGED <<account, issued, withdrawn, overlapped>>

(* update_venture_user_assignment, by a Super Admin.                       *)
BeginAssignment(d, role, company, branch, active) ==
    /\ Free(d) /\ account.version <= MaxRevisions
    /\ ValidAssignment(role, company, branch)
    /\ desk' = [desk EXCEPT ![d] = [version |-> account.version, columns |->
                   Columns([role |-> role, company |-> company,
                            branch |-> branch, active |-> active,
                            version |-> Revised(account.version)])]]
    /\ UNCHANGED <<account, issued, withdrawn, overlapped>>

(* Either commits the columns it has changed; users_role_scope refuses     *)
(* some of the mixtures.                                                   *)
CommitAccount(d) ==
    /\ Writing(d)
    /\ LET u == Updated(desk[d].columns) IN
       IF IF u.role = "super_admin" THEN u.company = None /\ u.branch = None
          ELSE u.company # None
       THEN /\ account' = u
            /\ overlapped' = (overlapped \/ account.version # desk[d].version)
            /\ withdrawn' = {t \in Token : issued[t] # None}
       ELSE UNCHANGED <<account, overlapped, withdrawn>>
    /\ desk' = [desk EXCEPT ![d] = None]
    /\ UNCHANGED issued

VenturesNext ==
    \E d \in Desk :
        \/ \E t \in Token : BeginLogin(d, t) \/ BeginLogout(d, t)
        \/ Login(d) \/ CommitAccount(d)
        \/ \E role \in Role, c \in Company \cup {None}, b \in Branch \cup {None},
              active \in BOOLEAN : BeginAssignment(d, role, c, b, active)

VenturesSpec == VenturesInit /\ [][VenturesNext]_ventureVars

-----------------------------------------------------------------------------
(* After a logout or a new assignment no token that was given out before   *)
(* it works again: the version in the row only grows, unless two of these  *)
(* requests overlap.  (token_version is written as the value read plus     *)
(* one; the slower of two requests can set it back to a version that       *)
(* earlier tokens carry.)                                                  *)
WithdrawnStaysOut == ~overlapped => \A t \in withdrawn : ~Live(t)

(* An account in a role that works in one branch is never scoped to all of *)
(* them, though two assignments that overlap can leave it a role of one    *)
(* and the missing branch of the other.                                    *)
StaffKeepsToABranch ==
    account.role \in BranchRequired => BranchesOf(account) # {}

(* What a request may write it may read, and it is of its company: the     *)
(* write guard and the read filter, two pieces of code, agree for every    *)
(* account that can arise, with one exception.  An account that is kept to *)
(* branches may write a row without a branch, and does not find it again.  *)
WritableIsReadable ==
    \A v \in Company \cup {None} : \A r \in Row :
        LET scope == ScopeOf(account, v) IN
        Writable(scope, r) =>
          \/ Readable(scope, r)
          \/ r.branch = None /\ scope.branches # {} /\ r.company = scope.company

(* An account has what it was given: no token that was withdrawn, no more*)
(* branches than its role allows, no row of a branch to write that it may*)
(* not read.                                                             *)
AccountHolds ==
    /\ VenturesTypeOK
    /\ WithdrawnStaysOut /\ StaffKeepsToABranch /\ WritableIsReadable
=============================================================================
