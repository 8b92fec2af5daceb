----------------------------- MODULE TableCodes -----------------------------
(***************************************************************************)
(* One table of the cafe and its QR codes (services/cafe.py), the visits   *)
(* a scan or a waiter opens at it, and the access a scan gives a guest     *)
(* (services/public_cafe_entry.py, services/public_cafe.py).               *)
(*                                                                         *)
(* None of these requests locks the table: each reads in one step and      *)
(* commits in another.  A commit writes only the columns that differ from  *)
(* what was read.                                                          *)
(***************************************************************************)
EXTENDS Integers, Sequences

CONSTANTS Waiter,      \* requests of the staff
          Phone,       \* requests of guests
          Place,       \* branches the table may stand in
          Home,        \* where it stands first
          Resting,     \* no request
          MaxCodes, MaxVisits, MaxEdits \* bounds: codes, visits, table versions

ASSUME CodesAssumption ==
    /\ Home \in Place
    /\ MaxCodes \in Nat \ {0} /\ MaxVisits \in Nat \ {0} /\ MaxEdits \in Nat \ {0}
    /\ Waiter \cap Phone = {}

VARIABLES
    table,  \* cafe_tables: is_active, branch_id, version; and, as history, how
            \* often a visit had begun when a request that closed it looked
    codes,  \* table_qr_tokens in the order of their creation: branch_id,
            \* revoked_at, expires_at; and, as history, how many codes existed
            \* when the rotation that made it looked
    visits, \* table_sessions in the order of their creation: branch_id, status
            \* ("billed" from the request of the bill on); and, as history, when
            \* the visit last became active
    sittings, \* history: how often a visit became active
    guests, \* cafe_guest_access: the visit, the branch and the code scanned
    errand  \* what each request has read

codeVars == <<table, codes, visits, sittings, guests, errand>>

CodeType == [branch : Place, revoked : BOOLEAN, expired : BOOLEAN,
             seen : 0..MaxCodes]
VisitType == [branch : Place, status : {"open", "billed", "closed"},
              sitting : Nat]
GuestType == [visit : 1..MaxVisits, branch : Place, code : 1..MaxCodes]

ErrandType ==
    [kind : {"rotate"}, branch : Place, codes : SUBSET (1..MaxCodes),
     seen : 0..MaxCodes]
    \cup [kind : {"revoke"}, code : 1..MaxCodes]
    \cup [kind : {"open"}, branch : Place]
    \cup [kind : {"scan"}, code : 1..MaxCodes, branch : Place,
          fresh : BOOLEAN]
    \cup [kind : {"visit"}, code : 1..MaxCodes, branch : Place]
    \cup [kind : {"bill"}, visit : 1..MaxVisits]

TableType == [active : BOOLEAN, branch : Place, version : 1..MaxEdits,
              looked : Nat]

(* The row with the columns of an UPDATE written over it.                  *)
Edited(columns) ==
    LET Of(c) == IF c \in DOMAIN columns THEN columns[c] ELSE table[c]
    IN [active |-> Of("active"), branch |-> Of("branch"),
        version |-> Of("version"), looked |-> Of("looked")]

CodesTypeOK ==
    /\ table \in TableType
    /\ codes \in Seq(CodeType) /\ Len(codes) <= MaxCodes
    /\ visits \in Seq(VisitType) /\ Len(visits) <= MaxVisits
    /\ sittings \in Nat
    /\ guests \subseteq GuestType
    /\ \A a \in Waiter \cup Phone :
         \/ errand[a] \in ErrandType \cup {Resting}
         \/ errand[a].kind = "edit" /\ Edited(errand[a].columns) \in TableType

CodesInit ==
    /\ table = [active |-> TRUE, branch |-> Home, version |-> 1, looked |-> 0]
    /\ codes = <<>> /\ visits = <<>> /\ sittings = 0 /\ guests = {}
    /\ errand = [a \in Waiter \cup Phone |-> Resting]

-----------------------------------------------------------------------------
Unrevoked == {c \in DOMAIN codes : ~codes[c].revoked}
Usable == {c \in Unrevoked : ~codes[c].expired}
Running == {v \in DOMAIN visits : visits[v].status # "closed"}
RunningIn(b) == {v \in Running : visits[v].branch = b}

(* A slip: the branch is not compared.                                     *)
ResolvesSlip(c) == c \in Usable /\ table.active

(* _resolve_qr_record: code and table are good, and in one branch.         *)
Resolves(c) == c \in Usable /\ table.active /\ codes[c].branch = table.branch

(* A slip: a rotation revokes the newest code only.                        *)
RevokedSlip == IF Usable = {} THEN {} ELSE {CHOOSE c \in Usable :
                                            \A d \in Usable : d <= c}

(* What a rotation that looks now revokes: every unrevoked code.           *)
Revoked == Unrevoked

(* A slip: a table is closed whoever sits at it.                           *)
MayEditSlip(active) == table.version < MaxEdits

(* update_cafe_table refuses to close a table with an active session.      *)
MayEdit(active) == table.version < MaxEdits /\ (active \/ Running = {})

Rest(a) == errand' = [errand EXCEPT ![a] = Resting]
Take(a, e) == errand[a] = Resting /\ errand' = [errand EXCEPT ![a] = e]
On(a, kind) == errand[a] # Resting /\ errand[a].kind = kind

-----------------------------------------------------------------------------
(* rotate_table_qr reads the active table and its unrevoked codes.         *)
BeginRotate(a) ==
    /\ table.active
    /\ Take(a, [kind |-> "rotate", branch |-> table.branch, codes |-> Revoked,
                seen |-> Len(codes)])
    /\ UNCHANGED <<table, codes, visits, sittings, guests>>

(* It revokes those and adds a code for the branch it has read.            *)
RotateTableQr(a) ==
    /\ On(a, "rotate") /\ Len(codes) < MaxCodes
    /\ LET e == errand[a] IN
       codes' = Append([c \in DOMAIN codes |->
                          IF c \in e.codes THEN [codes[c] EXCEPT !.revoked = TRUE]
                          ELSE codes[c]],
                       [branch |-> e.branch, revoked |-> FALSE,
                        expired |-> FALSE, seen |-> e.seen])
    /\ Rest(a)
    /\ UNCHANGED <<table, visits, sittings, guests>>

(* revoke_table_qr picks the newest usable code and revokes that one.      *)
BeginRevoke(a) ==
    /\ Usable # {}
    /\ Take(a, [kind |-> "revoke",
                code |-> CHOOSE c \in Usable : \A d \in Usable : d <= c])
    /\ UNCHANGED <<table, codes, visits, sittings, guests>>

RevokeTableQr(a) ==
    /\ On(a, "revoke")
    /\ codes' = [codes EXCEPT ![errand[a].code].revoked = TRUE]
    /\ Rest(a)
    /\ UNCHANGED <<table, visits, sittings, guests>>

(* expires_at passes.                                                      *)
ExpireCode(c) ==
    /\ ~codes[c].expired
    /\ codes' = [codes EXCEPT ![c].expired = TRUE]
    /\ UNCHANGED <<table, visits, sittings, guests, errand>>

(* update_cafe_table checks the version of a form that shows the table as  *)
(* it is, and that nobody sits at a table it closes.                       *)
BeginEdit(a, active, branch) ==
    /\ MayEdit(active)
    /\ LET written == [active |-> active, branch |-> branch,
                       version |-> table.version + 1,
                       looked |-> IF active THEN table.looked ELSE sittings]
       IN Take(a, [kind |-> "edit", columns |->
                     [c \in {c \in DOMAIN table : written[c] # table[c]}
                           \cup (IF active THEN {} ELSE {"looked"}) |->
                        written[c]]])
    /\ UNCHANGED <<table, codes, visits, sittings, guests>>

UpdateCafeTable(a) ==
    /\ On(a, "edit")
    /\ table' = Edited(errand[a].columns)
    /\ Rest(a)
    /\ UNCHANGED <<codes, visits, sittings, guests>>

(* open_table_session, by a waiter.                                        *)
BeginOpen(a) ==
    /\ table.active /\ Running = {}
    /\ Take(a, [kind |-> "open", branch |-> table.branch])
    /\ UNCHANGED <<table, codes, visits, sittings, guests>>

(* A slip: the unique index is missing.                                    *)
TableFreeSlip == TRUE

(* uq_table_sessions_one_active_per_table lets the insert through.         *)
TableFree == Running = {}

Seat(b) ==
    /\ visits' = Append(visits, [branch |-> b, status |-> "open",
                                sitting |-> sittings + 1])
    /\ sittings' = sittings + 1

(* The unique index lets one of two openings through.                      *)
OpenTableSession(a) ==
    /\ On(a, "open") /\ (Running = {} => Len(visits) < MaxVisits)
    /\ IF TableFree THEN Seat(errand[a].branch)
                    ELSE UNCHANGED <<visits, sittings>>
    /\ Rest(a)
    /\ UNCHANGED <<table, codes, guests>>

(* The bill and close_table_session, by anyone.                            *)
BillVisit(v) ==
    /\ visits[v].status = "open"
    /\ visits' = [visits EXCEPT ![v].status = "billed"]
    /\ UNCHANGED <<table, codes, sittings, guests, errand>>

CloseVisit(v) ==
    /\ v \in Running
    /\ visits' = [visits EXCEPT ![v].status = "closed"]
    /\ UNCHANGED <<table, codes, sittings, guests, errand>>

(* request_public_bill: require_guest_context reads the visit and its      *)
(* table without a lock.                                                   *)
BeginGuestBill(a, g) ==
    /\ visits[g.visit].status = "open"
    /\ table.active /\ table.branch = g.branch
    /\ Take(a, [kind |-> "bill", visit |-> g.visit])
    /\ UNCHANGED <<table, codes, visits, sittings, guests>>

(* What it decides by is what it has read, so a visit that has ended       *)
(* meanwhile is active once more, unless another one is.                   *)
RequestPublicBill(a) ==
    /\ On(a, "bill")
    /\ LET v == errand[a].visit IN
       CASE visits[v].status # "closed" ->
              /\ visits' = [visits EXCEPT ![v].status = "billed"]
              /\ UNCHANGED sittings
         [] visits[v].status = "closed" /\ TableFree ->
              /\ visits' = [visits EXCEPT ![v].status = "billed",
                                         ![v].sitting = sittings + 1]
              /\ sittings' = sittings + 1
         [] OTHER -> UNCHANGED <<visits, sittings>>
    /\ Rest(a)
    /\ UNCHANGED <<table, codes, guests>>

(* resolve_qr_and_open_visit resolves the code and looks for a visit.      *)
BeginScan(a, c) ==
    /\ Resolves(c)
    /\ Take(a, IF RunningIn(table.branch) # {}
               THEN [kind |-> "scan", code |-> c, branch |-> table.branch,
                     fresh |-> FALSE]
               ELSE [kind |-> "visit", code |-> c, branch |-> table.branch])
    /\ UNCHANGED <<table, codes, visits, sittings, guests>>

(* It opens one; or somebody else has, and it looks again.  Either way the *)
(* transaction ends, and what the session holds is read anew after it.     *)
OpenVisit(a) ==
    /\ On(a, "visit") /\ (Running = {} => Len(visits) < MaxVisits)
    /\ LET e == errand[a] IN
       \/ /\ TableFree
          /\ Seat(e.branch)
          /\ errand' = [errand EXCEPT ![a] = [kind |-> "scan", code |-> e.code,
                                        branch |-> e.branch, fresh |-> TRUE]]
       \/ /\ ~TableFree /\ RunningIn(e.branch) # {}
          /\ errand' = [errand EXCEPT ![a] = [kind |-> "scan", code |-> e.code,
                                        branch |-> e.branch, fresh |-> TRUE]]
          /\ UNCHANGED <<visits, sittings>>
       \/ /\ ~TableFree /\ RunningIn(e.branch) = {}
          /\ Rest(a)
          /\ UNCHANGED <<visits, sittings>>
    /\ UNCHANGED <<table, codes, guests>>

(* resolve_qr_for_guest: the code again, the open visit, and an access.    *)
ResolveForGuest(a) ==
    /\ On(a, "scan")
    /\ LET e == errand[a]
           branch == IF e.fresh THEN table.branch ELSE e.branch
           open == {v \in RunningIn(branch) : visits[v].status = "open"}
       IN guests' = IF (e.fresh => Resolves(e.code)) /\ open # {}
                    THEN guests \cup {[visit |-> v, branch |-> branch,
                                       code |-> e.code] : v \in open}
                    ELSE guests
    /\ Rest(a)
    /\ UNCHANGED <<table, codes, visits, sittings>>

CodesNext ==
    \/ \E a \in Waiter :
         \/ BeginRotate(a) \/ RotateTableQr(a)
         \/ BeginRevoke(a) \/ RevokeTableQr(a)
         \/ \E active \in BOOLEAN, b \in Place : BeginEdit(a, active, b)
         \/ UpdateCafeTable(a)
         \/ BeginOpen(a) \/ OpenTableSession(a)
    \/ \E c \in DOMAIN codes : ExpireCode(c)
    \/ \E v \in DOMAIN visits : BillVisit(v) \/ CloseVisit(v)
    \/ \E a \in Phone :
         \/ \E c \in DOMAIN codes : BeginScan(a, c)
         \/ OpenVisit(a) \/ ResolveForGuest(a)
         \/ \E g \in guests : BeginGuestBill(a, g)
         \/ RequestPublicBill(a)

CodesSpec == CodesInit /\ [][CodesNext]_codeVars

-----------------------------------------------------------------------------
(* A rotation leaves no code alive that existed when it looked: two live   *)
(* codes come only from rotations that overlapped.  (They do then, and     *)
(* revoke_table_qr kills just the newest of them.)                         *)
RotationClearsEarlier ==
    \A c, d \in DOMAIN codes : c <= codes[d].seen => codes[c].revoked

(* However the table is moved while somebody scans, a guest's access, the  *)
(* visit it is for and the code that was scanned are of one branch.        *)
GuestsInTheirBranch ==
    \A g \in guests : /\ visits[g.visit].branch = g.branch
                      /\ codes[g.code].branch = g.branch

(* At a closed table sit only visits that became active after the closing  *)
(* had looked: opened while it was under way, or brought back by a guest's *)
(* bill request that had been read before the visit ended.  (Openings,     *)
(* closings and bill requests lock nothing in time, so such visits do      *)
(* happen.)                                                                *)
ClosedOverlapsOnly ==
    ~table.active => \A v \in Running : visits[v].sitting > table.looked

(* A table's codes, guests and visits stay together, whatever rotations, *)
(* moves and closings overlap.                                           *)
TableHolds ==
    /\ CodesTypeOK
    /\ RotationClearsEarlier /\ GuestsInTheirBranch /\ ClosedOverlapsOnly
=============================================================================
