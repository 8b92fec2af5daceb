---------------------------- MODULE DoorsProofs -----------------------------
(*************************************************************************)
(* What is proved of the ways in: the codes and visits of a table, the   *)
(* rate limit, signed calls of devices, accounts and their tokens, the   *)
(* menu card, and the cloud's orders, for every value of their           *)
(* constants.                                                            *)
(*************************************************************************)
EXTENDS TableCodes, RateWindow, SignedRequests, Ventures, MenuCard,
        CloudOrders, SumLemmas

-----------------------------------------------------------------------------
(*************************************************************************)
(* Table codes.  What a request has read of codes and visits stays true  *)
(* because both only grow: a code keeps its branch and its revocation, a *)
(* visit its branch, and its end until it becomes active anew.           *)
(*************************************************************************)

Requests == Waiter \cup Phone
EditFields == {"active", "branch", "version", "looked"}

(* The columns an edit of the table may write.                             *)
EditColumnsOK(c) ==
    /\ DOMAIN c \subseteq EditFields
    /\ "active" \in DOMAIN c => c["active"] \in BOOLEAN
    /\ "branch" \in DOMAIN c => c["branch"] \in Place
    /\ "version" \in DOMAIN c => c["version"] \in 1..MaxEdits
    /\ "looked" \in DOMAIN c => c["looked"] \in Nat

(* What a request may hold, by its kind.                                   *)
RotateErrand == [kind : {"rotate"}, branch : Place, codes : SUBSET (1..MaxCodes),
                 seen : 0..MaxCodes]
RevokeErrand == [kind : {"revoke"}, code : 1..MaxCodes]
OpenErrand   == [kind : {"open"}, branch : Place]
ScanErrand   == [kind : {"scan"}, code : 1..MaxCodes, branch : Place, fresh : BOOLEAN]
VisitErrand  == [kind : {"visit"}, code : 1..MaxCodes, branch : Place]
BillErrand   == [kind : {"bill"}, visit : 1..MaxVisits]
EditErrand(e) == /\ e.kind = "edit" /\ EditColumnsOK(e.columns)

ErrandOK(e) == \/ e \in RotateErrand \cup RevokeErrand \cup OpenErrand
                         \cup ScanErrand \cup VisitErrand \cup BillErrand
               \/ EditErrand(e)

(* Of these visits, those that began no later than the moment have ended.  *)
EndedBy(vs, moment) ==
    \A v \in 1..Len(vs) : vs[v].sitting <= moment => vs[v].status = "closed"

(* What is still true of the codes and visits a request has read.          *)
ErrandHolds(e, cs, vs, n) ==
    /\ e.kind = "rotate" => /\ e.seen <= Len(cs)
                            /\ \A c \in 1..e.seen : cs[c].revoked \/ c \in e.codes
    /\ e.kind = "revoke" => e.code \in 1..Len(cs)
    /\ e.kind \in {"scan", "visit"} => /\ e.code \in 1..Len(cs)
                                       /\ cs[e.code].branch = e.branch
    /\ e.kind = "bill" => e.visit \in 1..Len(vs)
    /\ e.kind = "edit" /\ "looked" \in DOMAIN e.columns =>
         e.columns["looked"] <= n /\ EndedBy(vs, e.columns["looked"])

RowsOK == /\ table \in TableType
          /\ codes \in Seq(CodeType) /\ Len(codes) <= MaxCodes
          /\ visits \in Seq(VisitType) /\ Len(visits) <= MaxVisits
          /\ sittings \in Nat
          /\ guests \subseteq GuestType
          /\ errand = [a \in Requests |-> errand[a]]

ErrandsOK == \A a \in Requests : errand[a] # Resting =>
               ErrandOK(errand[a]) /\ ErrandHolds(errand[a], codes, visits, sittings)

(* A code was made after those its rotation saw, and these are revoked.    *)
CodesOrdered ==
    \A d \in 1..Len(codes) :
      codes[d].seen < d /\ \A c \in 1..codes[d].seen : codes[c].revoked

GuestsKnown ==
    \A g \in guests : /\ g.visit \in 1..Len(visits) /\ g.code \in 1..Len(codes)
                      /\ visits[g.visit].branch = g.branch
                      /\ codes[g.code].branch = g.branch

(* The visits that had begun when a closing looked have ended, and have    *)
(* not begun again.                                                        *)
LookedEnded == table.looked <= sittings /\ EndedBy(visits, table.looked)

TableIInv == RowsOK /\ ErrandsOK /\ CodesOrdered /\ GuestsKnown /\ LookedEnded

(* Codes and visits only ever grow: one that is there stays in its branch, *)
(* revoked or closed as it is.                                             *)
CodesGrow ==
    /\ codes' \in Seq(CodeType) /\ Len(codes') <= MaxCodes
    /\ Len(codes) <= Len(codes')
    /\ \A c \in 1..Len(codes) : /\ codes'[c].branch = codes[c].branch
                                /\ codes'[c].seen = codes[c].seen
                                /\ codes[c].revoked => codes'[c].revoked
VisitsGrow ==
    /\ visits' \in Seq(VisitType) /\ Len(visits') <= MaxVisits
    /\ Len(visits) <= Len(visits')
    /\ sittings' \in Nat /\ sittings <= sittings'
    /\ \A v \in 1..Len(visits) : visits'[v].branch = visits[v].branch
    /\ \A v \in 1..Len(visits') :
         \/ visits'[v].sitting > sittings
         \/ /\ v \in 1..Len(visits)
            /\ visits'[v].sitting = visits[v].sitting
            /\ visits[v].status = "closed" => visits'[v].status = "closed"

(* An edit leaves a table.                                               *)
LEMMA EditedType ==
    ASSUME table \in TableType, NEW c, EditColumnsOK(c)
    PROVE  /\ Edited(c) \in TableType
           /\ Edited(c).looked = IF "looked" \in DOMAIN c THEN c["looked"] ELSE table.looked
BY DEF Edited, EditColumnsOK, TableType

(* The types of the rows, spelled out.                                   *)
LEMMA TableLengths ==
    ASSUME RowsOK
    PROVE  /\ Len(codes) \in Nat /\ Len(visits) \in Nat
           /\ DOMAIN codes = 1..Len(codes) /\ DOMAIN visits = 1..Len(visits)
           /\ \A c \in 1..Len(codes) : codes[c] \in CodeType
           /\ \A v \in 1..Len(visits) : visits[v] \in VisitType
           /\ MaxCodes \in Nat /\ MaxVisits \in Nat
BY CodesAssumption DEF RowsOK

(* A request's kind tells what it holds.                                 *)
LEMMA ErrandTypes ==
    ASSUME NEW e, ErrandOK(e)
    PROVE  /\ e.kind = "rotate" => e \in RotateErrand /\ e.seen \in Nat
           /\ e.kind = "revoke" => e \in RevokeErrand
           /\ e.kind = "open" => e \in OpenErrand
           /\ e.kind = "scan" => e \in ScanErrand
           /\ e.kind = "visit" => e \in VisitErrand
           /\ e.kind = "bill" => e \in BillErrand
           /\ e.kind = "edit" => EditColumnsOK(e.columns)
BY CodesAssumption DEF ErrandOK, RotateErrand, RevokeErrand, OpenErrand, ScanErrand, VisitErrand,
       BillErrand, EditErrand

(* Visits that had ended by a moment have still ended by it.               *)
LEMMA EndedStays ==
    ASSUME RowsOK, VisitsGrow, NEW n \in Nat, n <= sittings, EndedBy(visits, n)
    PROVE  n <= sittings' /\ EndedBy(visits', n)
<1>1. sittings \in Nat /\ sittings' \in Nat /\ sittings <= sittings'
  BY DEF RowsOK, VisitsGrow
<1>2. ASSUME NEW v \in 1..Len(visits'), visits'[v].sitting <= n
      PROVE  visits'[v].status = "closed"
  <2>1. visits' \in Seq(VisitType) /\ visits'[v] \in VisitType
    BY DEF VisitsGrow
  <2>2. ~(visits'[v].sitting > sittings)
    BY <1>1, <1>2, <2>1 DEF VisitType
  <2> QED
    BY <1>2, <2>2 DEF VisitsGrow, EndedBy
<1> QED
  BY <1>1, <1>2 DEF EndedBy

(* What was read of rows that only grow stays true.                        *)
LEMMA ErrandStillHolds ==
    ASSUME RowsOK, CodesGrow, VisitsGrow, NEW e, ErrandOK(e), ErrandHolds(e, codes, visits, sittings)
    PROVE  ErrandHolds(e, codes', visits', sittings')
<1>1. ASSUME e.kind = "rotate"
      PROVE  /\ e.seen <= Len(codes')
             /\ \A c \in 1..e.seen : codes'[c].revoked \/ c \in e.codes
  <2>1. e.seen \in Nat /\ e.seen <= Len(codes) /\ Len(codes) \in Nat /\ Len(codes') \in Nat
    BY <1>1, ErrandTypes, TableLengths DEF ErrandHolds, CodesGrow
  <2> QED
    BY <1>1, <2>1 DEF ErrandHolds, CodesGrow
<1>2. ASSUME e.kind = "revoke" PROVE e.code \in 1..Len(codes')
  <2>1. Len(codes) \in Nat /\ Len(codes') \in Nat
    BY TableLengths DEF CodesGrow
  <2> QED
    BY <1>2, <2>1 DEF ErrandHolds, CodesGrow
<1>3. ASSUME e.kind \in {"scan", "visit"}
      PROVE  e.code \in 1..Len(codes') /\ codes'[e.code].branch = e.branch
  <2>1. Len(codes) \in Nat /\ Len(codes') \in Nat
    BY TableLengths DEF CodesGrow
  <2> QED
    BY <1>3, <2>1 DEF ErrandHolds, CodesGrow
<1>4. ASSUME e.kind = "edit", "looked" \in DOMAIN e.columns
      PROVE  e.columns["looked"] <= sittings' /\ EndedBy(visits', e.columns["looked"])
  <2>1. e.columns["looked"] \in Nat
    BY <1>4, ErrandTypes DEF EditColumnsOK
  <2> QED
    BY <1>4, <2>1, EndedStays DEF ErrandHolds
<1>5. ASSUME e.kind = "bill" PROVE e.visit \in 1..Len(visits')
  <2>1. Len(visits) \in Nat /\ Len(visits') \in Nat
    BY TableLengths DEF VisitsGrow
  <2> QED
    BY <1>5, <2>1 DEF ErrandHolds, VisitsGrow
<1> QED
  BY <1>1, <1>2, <1>3, <1>4, <1>5 DEF ErrandHolds

(* The requests of the others, when one takes something on or rests.       *)
LEMMA ErrandsKeep ==
    ASSUME TableIInv, CodesGrow, VisitsGrow, NEW a \in Requests, NEW e,
           e # Resting => ErrandOK(e) /\ ErrandHolds(e, codes', visits', sittings'),
           errand' = [errand EXCEPT ![a] = e]
    PROVE  ErrandsOK' /\ errand' = [b \in Requests |-> errand'[b]]
<1>1. errand'[a] = e /\ (\A b \in Requests \ {a} : errand'[b] = errand[b])
      /\ errand' = [b \in Requests |-> errand'[b]]
  BY DEF TableIInv, RowsOK
<1>2. ASSUME NEW b \in Requests, errand'[b] # Resting
      PROVE  ErrandOK(errand'[b]) /\ ErrandHolds(errand'[b], codes', visits', sittings')
  <2>1. CASE b = a
    BY <1>1, <1>2, <2>1
  <2>2. CASE b # a
    BY <1>1, <1>2, <2>2, ErrandStillHolds DEF TableIInv, ErrandsOK
  <2> QED
    BY <2>1, <2>2
<1> QED
  BY <1>1, <1>2 DEF ErrandsOK

(* Requests that go on as they were.                                     *)
LEMMA ErrandsStay ==
    ASSUME TableIInv, CodesGrow, VisitsGrow, errand' = errand
    PROVE  ErrandsOK' /\ errand' = [b \in Requests |-> errand'[b]]
<1>1. ASSUME NEW b \in Requests, errand'[b] # Resting
      PROVE  ErrandOK(errand'[b]) /\ ErrandHolds(errand'[b], codes', visits', sittings')
  BY <1>1, ErrandStillHolds DEF TableIInv, ErrandsOK
<1> QED
  BY <1>1 DEF ErrandsOK, TableIInv, RowsOK

(* Codes that do not change.                                             *)
LEMMA CodesStay ==
    ASSUME TableIInv, codes' = codes
    PROVE  CodesGrow /\ CodesOrdered'
<1>1. Len(codes) <= Len(codes)
  BY TableLengths DEF TableIInv
<1> QED
  BY <1>1 DEF TableIInv, RowsOK, CodesGrow, CodesOrdered

(* Visits that do not change.                                            *)
LEMMA VisitsStay ==
    ASSUME TableIInv, visits' = visits, sittings' = sittings
    PROVE  VisitsGrow
<1>1. Len(visits) <= Len(visits) /\ sittings <= sittings
  BY TableLengths DEF TableIInv, RowsOK
<1> QED
  BY <1>1 DEF TableIInv, RowsOK, VisitsGrow

(* Guests that do not change.                                            *)
LEMMA GuestsStay ==
    ASSUME TableIInv, CodesGrow, VisitsGrow, guests' = guests
    PROVE  GuestsKnown'
<1>1. Len(codes) \in Nat /\ Len(codes') \in Nat /\ Len(visits) \in Nat /\ Len(visits') \in Nat
  BY TableLengths DEF TableIInv, CodesGrow, VisitsGrow
<1>2. \A v \in 1..Len(visits) : v \in 1..Len(visits') /\ visits'[v].branch = visits[v].branch
  BY <1>1 DEF VisitsGrow
<1>3. \A c \in 1..Len(codes) : c \in 1..Len(codes') /\ codes'[c].branch = codes[c].branch
  BY <1>1 DEF CodesGrow
<1> QED
  BY <1>2, <1>3 DEF TableIInv, GuestsKnown

(* A table that does not change.                                         *)
LEMMA TableStays ==
    ASSUME TableIInv, VisitsGrow, table' = table
    PROVE  LookedEnded'
<1>1. table.looked \in Nat
  BY DEF TableIInv, RowsOK, TableType
<1> QED
  BY <1>1, EndedStays DEF TableIInv, LookedEnded

(* A request looks and changes no row.                                     *)
LEMMA LookKeeps ==
    ASSUME TableIInv, NEW a \in Requests, NEW e,
           ErrandOK(e), ErrandHolds(e, codes, visits, sittings),
           errand' = [errand EXCEPT ![a] = e],
           UNCHANGED <<table, codes, visits, sittings, guests>>
    PROVE  TableIInv'
<1>1. CodesGrow /\ VisitsGrow /\ CodesOrdered'
  BY CodesStay, VisitsStay
<1>2. ErrandsOK' /\ errand' = [b \in Requests |-> errand'[b]]
  BY <1>1, ErrandsKeep
<1> QED
  BY <1>1, <1>2, GuestsStay, TableStays DEF TableIInv, RowsOK

(* BeginRotate keeps the invariant.                                      *)
LEMMA BeginRotateKeeps ==
    ASSUME TableIInv, NEW a \in Requests, BeginRotate(a)
    PROVE  TableIInv'
<1> DEFINE e == [kind |-> "rotate", branch |-> table.branch, codes |-> Revoked,
                 seen |-> Len(codes)]
<1>1. /\ Len(codes) \in 0..MaxCodes /\ Revoked \in SUBSET (1..MaxCodes)
      /\ \A c \in 1..Len(codes) : codes[c].revoked \/ c \in Revoked
  BY TableLengths DEF TableIInv, RowsOK, Revoked, Unrevoked
<1>2. ErrandOK(e)
  BY <1>1 DEF ErrandOK, RotateErrand, TableIInv, RowsOK, TableType
<1>3. ErrandHolds(e, codes, visits, sittings)
  BY <1>1, TableLengths DEF ErrandHolds, TableIInv
<1> QED
  BY <1>2, <1>3, LookKeeps DEF BeginRotate, Take

(* BeginRevoke keeps the invariant.                                      *)
LEMMA BeginRevokeKeeps ==
    ASSUME TableIInv, NEW a \in Requests, BeginRevoke(a)
    PROVE  TableIInv'
<1> DEFINE newest == CHOOSE c \in Usable : \A d \in Usable : d <= c
           e == [kind |-> "revoke", code |-> newest]
<1>1. Usable \subseteq 1..Len(codes) /\ Len(codes) \in Nat /\ Usable # {}
  BY TableLengths DEF TableIInv, Usable, Unrevoked, BeginRevoke
<1>2. IsFiniteSet(Usable)
  <2>1. IsFiniteSet(1..Len(codes))
    BY <1>1, FS_Interval
  <2> QED
    BY <1>1, <2>1, FS_Subset
<1>3. \E c \in Usable : \A d \in Usable : d <= c
  BY <1>1, <1>2, GreatestExists
<1>4. newest \in 1..Len(codes)
  BY <1>1, <1>3
<1>5. newest \in 1..MaxCodes
  BY <1>1, <1>4, TableLengths DEF TableIInv, RowsOK
<1> HIDE DEF newest
<1>6. ErrandOK(e) /\ ErrandHolds(e, codes, visits, sittings)
  BY <1>4, <1>5 DEF ErrandOK, RevokeErrand, ErrandHolds
<1> QED
  BY <1>6, LookKeeps DEF BeginRevoke, Take, newest

(* BeginOpen keeps the invariant.                                        *)
LEMMA BeginOpenKeeps ==
    ASSUME TableIInv, NEW a \in Requests, BeginOpen(a)
    PROVE  TableIInv'
<1> DEFINE e == [kind |-> "open", branch |-> table.branch]
<1>1. ErrandOK(e) /\ ErrandHolds(e, codes, visits, sittings)
  BY DEF ErrandOK, OpenErrand, ErrandHolds, TableIInv, RowsOK, TableType
<1> QED
  BY <1>1, LookKeeps DEF BeginOpen, Take

(* BeginScan keeps the invariant.                                        *)
LEMMA BeginScanKeeps ==
    ASSUME TableIInv, NEW a \in Requests, NEW c \in DOMAIN codes, BeginScan(a, c)
    PROVE  TableIInv'
<1> DEFINE s == [kind |-> "scan", code |-> c, branch |-> table.branch, fresh |-> FALSE]
           w == [kind |-> "visit", code |-> c, branch |-> table.branch]
<1>1. /\ c \in 1..Len(codes) /\ c \in 1..MaxCodes /\ table.branch \in Place
      /\ codes[c].branch = table.branch
  BY TableLengths DEF TableIInv, RowsOK, BeginScan, Resolves, TableType
<1>2. ErrandOK(s) /\ ErrandHolds(s, codes, visits, sittings)
  BY <1>1 DEF ErrandOK, ScanErrand, ErrandHolds
<1>3. ErrandOK(w) /\ ErrandHolds(w, codes, visits, sittings)
  BY <1>1 DEF ErrandOK, VisitErrand, ErrandHolds
<1> QED
  BY <1>2, <1>3, LookKeeps DEF BeginScan, Take

(* BeginEdit keeps the invariant.                                        *)
LEMMA BeginEditKeeps ==
    ASSUME TableIInv, NEW a \in Requests, NEW used \in BOOLEAN, NEW b \in Place,
           BeginEdit(a, used, b)
    PROVE  TableIInv'
<1> DEFINE written == [active |-> used, branch |-> b, version |-> table.version + 1,
                       looked |-> IF used THEN table.looked ELSE sittings]
           D == {c \in DOMAIN table : written[c] # table[c]}
                   \cup (IF used THEN {} ELSE {"looked"})
           k == [c \in D |-> written[c]]
           e == [kind |-> "edit", columns |-> k]
<1>1. DOMAIN table = EditFields /\ table.version \in 1..MaxEdits /\ table.version < MaxEdits
      /\ table.looked \in Nat /\ sittings \in Nat
  BY DEF TableIInv, RowsOK, TableType, EditFields, BeginEdit, MayEdit
<1>2. D \subseteq EditFields /\ DOMAIN k = D /\ \A c \in D : k[c] = written[c]
  BY <1>1 DEF EditFields
<1>3. /\ written["active"] \in BOOLEAN /\ written["branch"] \in Place
      /\ written["version"] \in 1..MaxEdits /\ written["looked"] \in Nat
  <2>1. table.version + 1 \in 1..MaxEdits
    BY <1>1, CodesAssumption
  <2> QED
    BY <1>1, <2>1
<1>4. "looked" \in D => ~used /\ written["looked"] = sittings
  OBVIOUS
<1>5. ~used => EndedBy(visits, sittings)
  BY TableLengths DEF TableIInv, BeginEdit, MayEdit, Running, EndedBy
<1> HIDE DEF written, D, k
<1>6. EditColumnsOK(k)
  BY <1>2, <1>3 DEF EditColumnsOK
<1>7. ErrandOK(e)
  BY <1>6 DEF ErrandOK, EditErrand
<1>8. ErrandHolds(e, codes, visits, sittings)
  <2>1. sittings <= sittings
    BY <1>1
  <2> QED
    BY <1>2, <1>4, <1>5, <2>1 DEF ErrandHolds
<1>9. errand' = [errand EXCEPT ![a] = e] /\ UNCHANGED <<table, codes, visits, sittings, guests>>
  BY DEF BeginEdit, Take, e, k, D, written
<1> HIDE DEF e
<1> QED
  BY <1>7, <1>8, <1>9, LookKeeps

(* A code is marked, and no other row changes.                             *)
LEMMA MarkedCode ==
    ASSUME TableIInv, NEW c \in 1..Len(codes), NEW r \in CodeType,
           r.branch = codes[c].branch, r.seen = codes[c].seen,
           codes[c].revoked => r.revoked,
           codes' = [codes EXCEPT ![c] = r]
    PROVE  CodesGrow /\ CodesOrdered'
<1>1. Len(codes) \in Nat /\ codes \in Seq(CodeType) /\ Len(codes) <= MaxCodes
  BY TableLengths DEF TableIInv, RowsOK
<1>2. /\ codes' \in Seq(CodeType) /\ Len(codes') = Len(codes)
      /\ codes'[c] = r /\ \A d \in 1..Len(codes) \ {c} : codes'[d] = codes[d]
  BY <1>1
<1>3. CodesGrow
  BY <1>1, <1>2 DEF CodesGrow
<1>4. \A d \in 1..Len(codes) : codes[d].seen \in Nat /\ codes[d].seen < d
  BY <1>1, TableLengths, CodesAssumption DEF TableIInv, CodesOrdered, CodeType
<1>5. ASSUME NEW d \in 1..Len(codes)
      PROVE  codes'[d].seen < d /\ \A b \in 1..codes'[d].seen : codes'[b].revoked
  <2>1. codes'[d].seen = codes[d].seen
    BY <1>2
  <2>2. ASSUME NEW b \in 1..codes[d].seen PROVE codes'[b].revoked
    <3>1. b \in 1..Len(codes) /\ codes[b].revoked
      BY <1>1, <1>4 DEF TableIInv, CodesOrdered
    <3> QED
      BY <1>2, <3>1
  <2> QED
    BY <1>4, <2>1, <2>2
<1> QED
  BY <1>2, <1>3, <1>5 DEF CodesOrdered

(* Revoke keeps the invariant.                                           *)
LEMMA RevokeKeeps ==
    ASSUME TableIInv, NEW a \in Requests, RevokeTableQr(a)
    PROVE  TableIInv'
<1> DEFINE c == errand[a].code
           r == [codes[c] EXCEPT !.revoked = TRUE]
<1>1. c \in 1..Len(codes) /\ codes[c] \in CodeType
  BY TableLengths DEF TableIInv, ErrandsOK, ErrandHolds, RevokeTableQr, On
<1>2. r \in CodeType /\ r.branch = codes[c].branch /\ r.seen = codes[c].seen /\ r.revoked
  BY <1>1 DEF CodeType
<1>3. codes' = [codes EXCEPT ![c] = r]
  BY DEF RevokeTableQr
<1> HIDE DEF c, r
<1>4. CodesGrow /\ CodesOrdered' /\ VisitsGrow
  BY <1>1, <1>2, <1>3, MarkedCode, VisitsStay DEF RevokeTableQr
<1>5. ErrandsOK' /\ errand' = [b \in Requests |-> errand'[b]]
  BY <1>4, ErrandsKeep DEF RevokeTableQr, Rest
<1> QED
  BY <1>4, <1>5, GuestsStay, TableStays
     DEF TableIInv, RowsOK, CodesGrow, RevokeTableQr

(* Expire keeps the invariant.                                           *)
LEMMA ExpireKeeps ==
    ASSUME TableIInv, NEW c \in DOMAIN codes, ExpireCode(c)
    PROVE  TableIInv'
<1> DEFINE r == [codes[c] EXCEPT !.expired = TRUE]
<1>1. c \in 1..Len(codes) /\ codes[c] \in CodeType
  BY TableLengths DEF TableIInv
<1>2. r \in CodeType /\ r.branch = codes[c].branch /\ r.seen = codes[c].seen
      /\ r.revoked = codes[c].revoked
  BY <1>1 DEF CodeType
<1>3. codes' = [codes EXCEPT ![c] = r]
  BY DEF ExpireCode
<1> HIDE DEF r
<1>4. CodesGrow /\ CodesOrdered' /\ VisitsGrow
  BY <1>1, <1>2, <1>3, MarkedCode, VisitsStay DEF ExpireCode
<1>5. ErrandsOK' /\ errand' = [b \in Requests |-> errand'[b]]
  BY <1>4, ErrandsStay DEF ExpireCode
<1> QED
  BY <1>4, <1>5, GuestsStay, TableStays DEF TableIInv, RowsOK, CodesGrow, ExpireCode

(* Rotate keeps the invariant.                                           *)
LEMMA RotateKeeps ==
    ASSUME TableIInv, NEW a \in Requests, RotateTableQr(a)
    PROVE  TableIInv'
<1> DEFINE e == errand[a]
           n == Len(codes)
           new == [branch |-> e.branch, revoked |-> FALSE, expired |-> FALSE,
                   seen |-> e.seen]
           Mark(c) == IF c \in e.codes THEN [codes[c] EXCEPT !.revoked = TRUE]
                      ELSE codes[c]
           old == [c \in 1..n |-> Mark(c)]
<1>1. /\ n \in Nat /\ n < MaxCodes /\ MaxCodes \in Nat
      /\ e \in RotateErrand /\ e.seen \in Nat /\ e.seen <= n
      /\ \A c \in 1..e.seen : codes[c].revoked \/ c \in e.codes
  BY TableLengths, ErrandTypes
     DEF TableIInv, ErrandsOK, ErrandHolds, RotateTableQr, On
<1>2. codes' = Append(old, new)
  BY TableLengths DEF TableIInv, RotateTableQr
<1>3. new \in CodeType /\ new.seen = e.seen
  BY <1>1 DEF CodeType, RotateErrand
<1>4. \A c \in 1..n : /\ Mark(c) \in CodeType /\ Mark(c).branch = codes[c].branch
                      /\ Mark(c).seen = codes[c].seen
                      /\ Mark(c).revoked <=> codes[c].revoked \/ c \in e.codes
  <2> SUFFICES ASSUME NEW c \in 1..n
               PROVE  /\ Mark(c) \in CodeType /\ Mark(c).branch = codes[c].branch
                      /\ Mark(c).seen = codes[c].seen
                      /\ Mark(c).revoked <=> codes[c].revoked \/ c \in e.codes
    OBVIOUS
  <2>1. codes[c] \in CodeType
    BY TableLengths DEF TableIInv
  <2> QED
    BY <2>1 DEF CodeType
<1>5. old \in Seq(CodeType) /\ Len(old) = n /\ \A c \in 1..n : old[c] = Mark(c)
  <2>1. old \in [1..n -> CodeType]
    BY <1>4
  <2> HIDE DEF Mark
  <2> QED
    BY <1>1, <2>1
<1> HIDE DEF old, Mark, new
<1>6. /\ codes' \in Seq(CodeType) /\ Len(codes') = n + 1 /\ codes'[n + 1] = new
      /\ \A c \in 1..n : codes'[c] = Mark(c)
  BY <1>1, <1>2, <1>3, <1>5
<1>7. CodesGrow
  <2>1. Len(codes) <= Len(codes') /\ Len(codes') <= MaxCodes
    BY <1>1, <1>6
  <2> QED
    BY <1>4, <1>6, <2>1 DEF CodesGrow
<1>8. CodesOrdered'
  <2> SUFFICES ASSUME NEW d \in 1..(n + 1)
               PROVE  /\ codes'[d].seen < d
                      /\ \A b \in 1..codes'[d].seen : codes'[b].revoked
    BY <1>6 DEF CodesOrdered
  <2>1. CASE d = n + 1
    <3>1. codes'[d].seen = e.seen
      BY <1>3, <1>6, <2>1
    <3>2. ASSUME NEW b \in 1..e.seen PROVE codes'[b].revoked
      <4>1. b \in 1..n
        BY <1>1
      <4> QED
        BY <1>1, <1>4, <1>6, <4>1
    <3> QED
      BY <1>1, <2>1, <3>1, <3>2
  <2>2. CASE d # n + 1
    <3>1. d \in 1..n
      BY <1>1, <2>2
    <3>2. codes'[d].seen = codes[d].seen /\ codes[d].seen < d /\ codes[d].seen \in Nat
      BY <1>4, <1>6, <3>1, TableLengths, CodesAssumption
         DEF TableIInv, CodesOrdered, CodeType
    <3>3. ASSUME NEW b \in 1..codes[d].seen PROVE codes'[b].revoked
      <4>1. b \in 1..n /\ codes[b].revoked
        BY <1>1, <3>1, <3>2 DEF TableIInv, CodesOrdered
      <4> QED
        BY <1>4, <1>6, <4>1
    <3> QED
      BY <3>2, <3>3
  <2> QED
    BY <2>1, <2>2
<1>9. VisitsGrow
  BY VisitsStay DEF RotateTableQr
<1>10. ErrandsOK' /\ errand' = [b \in Requests |-> errand'[b]]
  BY <1>7, <1>9, ErrandsKeep DEF RotateTableQr, Rest
<1> QED
  BY <1>7, <1>8, <1>9, <1>10, GuestsStay, TableStays
     DEF TableIInv, RowsOK, CodesGrow, RotateTableQr

(* UpdateTable keeps the invariant.                                      *)
LEMMA UpdateTableKeeps ==
    ASSUME TableIInv, NEW a \in Requests, UpdateCafeTable(a)
    PROVE  TableIInv'
<1> DEFINE k == errand[a].columns
<1>1. /\ errand[a] # Resting /\ errand[a].kind = "edit"
      /\ ErrandOK(errand[a]) /\ ErrandHolds(errand[a], codes, visits, sittings)
  BY DEF TableIInv, ErrandsOK, UpdateCafeTable, On
<1>2. EditColumnsOK(k) /\ table \in TableType
  BY <1>1, ErrandTypes DEF TableIInv, RowsOK
<1>3. /\ table' \in TableType
      /\ table'.looked = IF "looked" \in DOMAIN k THEN k["looked"] ELSE table.looked
  BY <1>2, EditedType DEF UpdateCafeTable
<1>4. CodesGrow /\ VisitsGrow /\ CodesOrdered'
  BY CodesStay, VisitsStay DEF UpdateCafeTable
<1>5. LookedEnded'
  <2>1. table'.looked <= sittings /\ EndedBy(visits, table'.looked)
    BY <1>1, <1>3 DEF ErrandHolds, TableIInv, LookedEnded
  <2> QED
    BY <2>1 DEF LookedEnded, UpdateCafeTable
<1>6. ErrandsOK' /\ errand' = [b \in Requests |-> errand'[b]]
  BY <1>4, ErrandsKeep DEF UpdateCafeTable, Rest
<1> QED
  BY <1>3, <1>4, <1>5, <1>6, GuestsStay DEF TableIInv, RowsOK, UpdateCafeTable

(* A visit begins.                                                       *)
LEMMA SeatedGrows ==
    ASSUME TableIInv, NEW b \in Place, Len(visits) < MaxVisits, Seat(b)
    PROVE  VisitsGrow
<1> DEFINE n == sittings + 1
           new == [branch |-> b, status |-> "open", sitting |-> n]
<1>1. n \in Nat /\ sittings \in Nat /\ n > sittings /\ sittings <= n
  BY DEF TableIInv, RowsOK
<1>2. visits' = Append(visits, new) /\ sittings' = n
  BY DEF Seat
<1> HIDE DEF n
<1>3. new \in VisitType /\ new.sitting = n
  BY <1>1 DEF VisitType
<1> HIDE DEF new
<1>4. visits \in Seq(VisitType) /\ Len(visits) \in Nat /\ MaxVisits \in Nat
  BY TableLengths DEF TableIInv, RowsOK
<1>5. /\ visits' \in Seq(VisitType) /\ Len(visits') = Len(visits) + 1
      /\ visits'[Len(visits) + 1] = new
      /\ \A v \in 1..Len(visits) : visits'[v] = visits[v]
  BY <1>2, <1>3, <1>4
<1>6. \A v \in 1..Len(visits') : v \in 1..Len(visits) \/ visits'[v] = new
  BY <1>4, <1>5
<1> QED
  BY <1>1, <1>2, <1>3, <1>4, <1>5, <1>6 DEF VisitsGrow

(* One visit's row is written, and it is still the visit it was: it stays  *)
(* closed, or its present sitting began just now.                          *)
LEMMA MarkedVisit ==
    ASSUME TableIInv, NEW v \in 1..Len(visits), NEW r \in VisitType,
           r.branch = visits[v].branch, visits' = [visits EXCEPT ![v] = r],
           sittings' \in Nat, sittings <= sittings',
           \/ r.sitting > sittings
           \/ /\ r.sitting = visits[v].sitting
              /\ visits[v].status = "closed" => r.status = "closed"
    PROVE  VisitsGrow
<1>1. visits \in Seq(VisitType) /\ Len(visits) \in Nat /\ Len(visits) <= MaxVisits
  BY TableLengths DEF TableIInv, RowsOK
<1>2. /\ visits' \in Seq(VisitType) /\ Len(visits') = Len(visits)
      /\ visits'[v] = r /\ \A w \in 1..Len(visits) \ {v} : visits'[w] = visits[w]
  BY <1>1
<1> QED
  BY <1>1, <1>2 DEF VisitsGrow

(* A visit that is active is billed or closed.                           *)
LEMMA VisitEndsKeep ==
    ASSUME TableIInv, NEW v \in DOMAIN visits, NEW status \in {"billed", "closed"},
           visits[v].status # "closed", visits' = [visits EXCEPT ![v].status = status],
           UNCHANGED <<table, codes, sittings, guests, errand>>
    PROVE  TableIInv'
<1> DEFINE r == [visits[v] EXCEPT !.status = status]
<1>1. v \in 1..Len(visits) /\ visits[v] \in VisitType /\ sittings \in Nat
  BY TableLengths DEF TableIInv, RowsOK
<1>2. r \in VisitType /\ r.branch = visits[v].branch /\ r.sitting = visits[v].sitting
  BY <1>1 DEF VisitType
<1>3. visits' = [visits EXCEPT ![v] = r]
  OBVIOUS
<1> HIDE DEF r
<1>4. sittings <= sittings' /\ sittings' \in Nat
  BY <1>1
<1>5. VisitsGrow
  BY <1>1, <1>2, <1>3, <1>4, MarkedVisit
<1>6. CodesGrow /\ CodesOrdered'
  BY CodesStay
<1>7. ErrandsOK' /\ errand' = [b \in Requests |-> errand'[b]]
  BY <1>5, <1>6, ErrandsStay
<1> QED
  BY <1>5, <1>6, <1>7, GuestsStay, TableStays DEF TableIInv, RowsOK, VisitsGrow

(* BeginGuestBill keeps the invariant.                                   *)
LEMMA BeginGuestBillKeeps ==
    ASSUME TableIInv, NEW a \in Requests, NEW g \in guests, BeginGuestBill(a, g)
    PROVE  TableIInv'
<1> DEFINE e == [kind |-> "bill", visit |-> g.visit]
<1>1. g.visit \in 1..Len(visits) /\ g.visit \in 1..MaxVisits
  BY DEF TableIInv, RowsOK, GuestsKnown, GuestType
<1>2. ErrandOK(e) /\ ErrandHolds(e, codes, visits, sittings)
  BY <1>1 DEF ErrandOK, BillErrand, ErrandHolds
<1> QED
  BY <1>2, LookKeeps DEF BeginGuestBill, Take

(* RequestPublicBill keeps the invariant: a visit it brings back begins    *)
(* later than whatever a closing has seen.                                 *)
LEMMA RequestPublicBillKeeps ==
    ASSUME TableIInv, NEW a \in Requests, RequestPublicBill(a)
    PROVE  TableIInv'
<1> DEFINE v == errand[a].visit
           n == sittings + 1
           r == [visits[v] EXCEPT !.status = "billed"]
           s == [visits[v] EXCEPT !.status = "billed", !.sitting = n]
<1>1. v \in 1..Len(visits) /\ visits[v] \in VisitType
  BY TableLengths DEF TableIInv, ErrandsOK, ErrandHolds, RequestPublicBill, On
<1>2. n \in Nat /\ sittings \in Nat /\ n > sittings /\ sittings <= n
  BY DEF TableIInv, RowsOK
<1>3. \/ visits[v].status # "closed" /\ visits' = [visits EXCEPT ![v] = r]
           /\ sittings' = sittings
      \/ visits' = [visits EXCEPT ![v] = s] /\ sittings' = n
      \/ visits' = visits /\ sittings' = sittings
  BY DEF RequestPublicBill
<1> HIDE DEF n, v
<1>4. r \in VisitType /\ r.branch = visits[v].branch /\ r.sitting = visits[v].sitting
  BY <1>1 DEF VisitType
<1>5. s \in VisitType /\ s.branch = visits[v].branch /\ s.sitting = n
  BY <1>1, <1>2 DEF VisitType
<1> HIDE DEF r, s
<1>6. VisitsGrow
  <2>1. CASE visits[v].status # "closed" /\ visits' = [visits EXCEPT ![v] = r]
             /\ sittings' = sittings
    <3>1. sittings' \in Nat /\ sittings <= sittings'
      BY <1>2, <2>1
    <3> QED
      BY <1>1, <1>4, <2>1, <3>1, MarkedVisit
  <2>2. CASE visits' = [visits EXCEPT ![v] = s] /\ sittings' = n
    BY <1>1, <1>2, <1>5, <2>2, MarkedVisit
  <2>3. CASE visits' = visits /\ sittings' = sittings
    BY <2>3, VisitsStay
  <2> QED
    BY <1>3, <2>1, <2>2, <2>3
<1>7. CodesGrow /\ CodesOrdered'
  BY CodesStay DEF RequestPublicBill
<1>8. ErrandsOK' /\ errand' = [b \in Requests |-> errand'[b]]
  BY <1>6, <1>7, ErrandsKeep DEF RequestPublicBill, Rest
<1> QED
  BY <1>6, <1>7, <1>8, GuestsStay, TableStays
     DEF TableIInv, RowsOK, VisitsGrow, RequestPublicBill

(* OpenTable keeps the invariant.                                        *)
LEMMA OpenTableKeeps ==
    ASSUME TableIInv, NEW a \in Requests, OpenTableSession(a)
    PROVE  TableIInv'
<1>1. errand[a].branch \in Place
  BY ErrandTypes DEF TableIInv, ErrandsOK, OpenTableSession, On, OpenErrand
<1>2. VisitsGrow
  BY <1>1, SeatedGrows, VisitsStay DEF OpenTableSession, TableFree
<1>3. CodesGrow /\ CodesOrdered'
  BY CodesStay DEF OpenTableSession
<1>4. ErrandsOK' /\ errand' = [b \in Requests |-> errand'[b]]
  BY <1>2, <1>3, ErrandsKeep DEF OpenTableSession, Rest
<1> QED
  BY <1>2, <1>3, <1>4, GuestsStay, TableStays
     DEF TableIInv, RowsOK, VisitsGrow, OpenTableSession

(* OpenVisit keeps the invariant.                                        *)
LEMMA OpenVisitKeeps ==
    ASSUME TableIInv, NEW a \in Requests, OpenVisit(a)
    PROVE  TableIInv'
<1> DEFINE e == errand[a]
           s == [kind |-> "scan", code |-> e.code, branch |-> e.branch, fresh |-> TRUE]
<1>1. /\ e \in VisitErrand /\ e.code \in 1..Len(codes) /\ codes[e.code].branch = e.branch
  BY ErrandTypes DEF TableIInv, ErrandsOK, ErrandHolds, OpenVisit, On
<1>2. e.branch \in Place /\ e.code \in 1..MaxCodes
  BY <1>1 DEF VisitErrand
<1>3. CodesGrow /\ CodesOrdered' /\ codes' = codes
  BY CodesStay DEF OpenVisit
<1>4. VisitsGrow
  BY <1>2, SeatedGrows, VisitsStay DEF OpenVisit, TableFree
<1>5. ErrandOK(s) /\ ErrandHolds(s, codes', visits', sittings')
  BY <1>1, <1>2, <1>3 DEF ErrandOK, ScanErrand, ErrandHolds
<1>6. \E r \in {s, Resting} : errand' = [errand EXCEPT ![a] = r]
  BY DEF OpenVisit, Rest
<1>7. ErrandsOK' /\ errand' = [b \in Requests |-> errand'[b]]
  <2> HIDE DEF s
  <2> QED
    BY <1>3, <1>4, <1>5, <1>6, ErrandsKeep
<1> QED
  BY <1>3, <1>4, <1>7, GuestsStay, TableStays
     DEF TableIInv, RowsOK, VisitsGrow, OpenVisit

(* ResolveForGuest keeps the invariant.                                  *)
LEMMA ResolveForGuestKeeps ==
    ASSUME TableIInv, NEW a \in Requests, ResolveForGuest(a)
    PROVE  TableIInv'
<1> DEFINE e == errand[a]
           branch == IF e.fresh THEN table.branch ELSE e.branch
           open == {v \in RunningIn(branch) : visits[v].status = "open"}
           new == {[visit |-> v, branch |-> branch, code |-> e.code] : v \in open}
<1>1. /\ e \in ScanErrand /\ e.code \in 1..Len(codes) /\ codes[e.code].branch = e.branch
  BY ErrandTypes DEF TableIInv, ErrandsOK, ErrandHolds, ResolveForGuest, On
<1>2. branch \in Place /\ e.code \in 1..MaxCodes
  BY <1>1 DEF ScanErrand, TableIInv, RowsOK, TableType
<1>3. CodesGrow /\ CodesOrdered' /\ VisitsGrow /\ codes' = codes /\ visits' = visits
  BY CodesStay, VisitsStay DEF ResolveForGuest
<1>4. ErrandsOK' /\ errand' = [b \in Requests |-> errand'[b]]
  BY <1>3, ErrandsKeep DEF ResolveForGuest, Rest
<1>5. \A v \in open : v \in 1..Len(visits) /\ v \in 1..MaxVisits /\ visits[v].branch = branch
  BY TableLengths DEF TableIInv, RowsOK, RunningIn, Running
<1>6. (e.fresh => Resolves(e.code)) => codes[e.code].branch = branch
  BY <1>1 DEF Resolves
<1>7. guests' = (IF (e.fresh => Resolves(e.code)) /\ open # {} THEN guests \cup new ELSE guests)
  BY DEF ResolveForGuest
<1> HIDE DEF branch, open, e
<1>8. \A g \in new : /\ g \in GuestType /\ g.visit \in 1..Len(visits) /\ g.code = e.code
                     /\ visits[g.visit].branch = g.branch /\ g.branch = branch
  BY <1>2, <1>5 DEF GuestType
<1> HIDE DEF new
<1>9. guests' \subseteq GuestType
  BY <1>7, <1>8 DEF TableIInv, RowsOK
<1>10. GuestsKnown'
  BY <1>1, <1>3, <1>6, <1>7, <1>8 DEF TableIInv, GuestsKnown
<1> QED
  BY <1>3, <1>4, <1>9, <1>10, TableStays DEF TableIInv, RowsOK, ResolveForGuest

(* The invariant holds at first.                                         *)
LEMMA TableStart == CodesInit => TableIInv
<1> SUFFICES ASSUME CodesInit PROVE TableIInv
  OBVIOUS
<1>1. RowsOK
  BY CodesAssumption DEF CodesInit, RowsOK, TableType, Requests
<1>2. Len(codes) = 0 /\ Len(visits) = 0 /\ guests = {} /\ table.looked = 0
      /\ sittings = 0
  BY DEF CodesInit
<1>3. ErrandsOK
  BY DEF CodesInit, ErrandsOK, Requests
<1> QED
  BY <1>1, <1>2, <1>3 DEF TableIInv, CodesOrdered, GuestsKnown, LookedEnded, EndedBy

(* Every step keeps the invariant, action by action.                     *)
LEMMA TableStep ==
    ASSUME TableIInv, [CodesNext]_codeVars
    PROVE  TableIInv'
<1>1. \A a \in Waiter : a \in Requests
  BY DEF Requests
<1>2. \A a \in Phone : a \in Requests
  BY DEF Requests
<1>3. ASSUME NEW v \in DOMAIN visits, BillVisit(v) \/ CloseVisit(v)
      PROVE  TableIInv'
  BY <1>3, VisitEndsKeep DEF BillVisit, CloseVisit, Running
<1>4. CASE UNCHANGED codeVars
  BY <1>4, CodesStay, VisitsStay, ErrandsStay, GuestsStay, TableStays
     DEF TableIInv, RowsOK, codeVars
<1> QED
  BY <1>1, <1>2, <1>3, <1>4, BeginRotateKeeps, RotateKeeps, BeginRevokeKeeps,
     RevokeKeeps, BeginEditKeeps, UpdateTableKeeps, BeginOpenKeeps, OpenTableKeeps,
     ExpireKeeps, BeginScanKeeps, OpenVisitKeeps, ResolveForGuestKeeps,
     BeginGuestBillKeeps, RequestPublicBillKeeps
     DEF CodesNext

(* The invariant gives the table's properties.                           *)
LEMMA TableSafe == TableIInv => TableHolds
<1> SUFFICES ASSUME TableIInv PROVE TableHolds
  OBVIOUS
<1>1. /\ DOMAIN codes = 1..Len(codes) /\ DOMAIN visits = 1..Len(visits)
      /\ Len(codes) \in Nat /\ Len(visits) \in Nat
  BY TableLengths DEF TableIInv
<1>2. CodesTypeOK
  <2>1. ASSUME NEW a \in Requests, errand[a] # Resting
        PROVE  \/ errand[a] \in ErrandType
               \/ errand[a].kind = "edit" /\ Edited(errand[a].columns) \in TableType
    <3>1. ErrandOK(errand[a]) /\ table \in TableType
      BY <2>1 DEF TableIInv, ErrandsOK, RowsOK
    <3>2. ErrandType = RotateErrand \cup RevokeErrand \cup OpenErrand
                         \cup ScanErrand \cup VisitErrand \cup BillErrand
      BY DEF ErrandType, RotateErrand, RevokeErrand, OpenErrand, ScanErrand, VisitErrand,
             BillErrand
    <3> QED
      BY <3>1, <3>2, EditedType DEF ErrandOK, EditErrand
  <2> QED
    BY <2>1 DEF TableIInv, RowsOK, CodesTypeOK, Requests
<1>3. RotationClearsEarlier
  <2> SUFFICES ASSUME NEW c \in 1..Len(codes), NEW d \in 1..Len(codes),
                      c <= codes[d].seen
               PROVE  codes[c].revoked
    BY <1>1 DEF RotationClearsEarlier
  <2>1. codes[d].seen \in Nat
    BY TableLengths, CodesAssumption DEF TableIInv, CodeType
  <2> QED
    BY <2>1 DEF TableIInv, CodesOrdered
<1>4. GuestsInTheirBranch
  BY DEF TableIInv, GuestsKnown, GuestsInTheirBranch
<1>5. ClosedOverlapsOnly
  <2>1. table.looked \in Nat /\ \A v \in 1..Len(visits) : visits[v].sitting \in Nat
    BY TableLengths DEF TableIInv, RowsOK, TableType, VisitType
  <2> QED
    BY <1>1, <2>1 DEF TableIInv, LookedEnded, EndedBy, ClosedOverlapsOnly, Running
<1> QED
  BY <1>2, <1>3, <1>4, <1>5 DEF TableHolds

(* Codes, visits and guests of a table keep together for any number of   *)
(* requests under way (rotate_table_qr, resolve_table_access).           *)
THEOREM TableAlwaysHolds == CodesSpec => []TableHolds
BY TableStart, TableStep, TableSafe, PTL DEF CodesSpec

-----------------------------------------------------------------------------
(*************************************************************************)
(* The rate window.  Whoever decides holds the row's lock and has read   *)
(* the count it still shows.                                             *)
(*************************************************************************)

BucketRow == [start : 0..LastTick, count : 1..Limit]
HitRecord == [at : 0..LastTick, step : {"look", "insert", "decide"}, count : 0..Limit]

(* Who decides holds the row, alone, and has read what it still shows.     *)
DeciderHolds ==
    \A h \in Hit : At(h, "decide") =>
      /\ bucket # NoBucket
      /\ hit[h].count = bucket.count
      /\ \A k \in Hit : At(k, "decide") => k = h

RateIInv == RateTypeOK /\ DeciderHolds /\ WindowHoldsLimit

WindowStep == bucket # NoBucket /\ bucket'.start # bucket.start
                => bucket'.start >= bucket.start + Window

(* The mark of a missing row is none of the rows.                        *)
LEMMA NoBucketIsNoRow == NoBucket \notin BucketRow
<1>1. BucketRow \subseteq [start : Nat, count : Nat]
  BY RateAssumption DEF BucketRow
<1> QED
  BY <1>1, RateAssumption

(* The types of the window's variables, spelled out.                     *)
LEMMA RateTypes ==
    ASSUME RateTypeOK
    PROVE  /\ tick \in 0..LastTick /\ passed \in 0..Limit
           /\ bucket \in BucketRow \cup {NoBucket}
           /\ hit \in [Hit -> HitRecord \cup {Away}]
           /\ bucket # NoBucket => bucket \in BucketRow
           /\ \A h \in Hit : hit[h] # Away => hit[h] \in HitRecord
BY DEF RateTypeOK, BucketRow, HitRecord

(* Arrive keeps the invariant.                                           *)
LEMMA ArriveKeeps ==
    ASSUME RateIInv, NEW h \in Hit, Arrive(h)
    PROVE  RateIInv'
<1> DEFINE r == [at |-> tick, step |-> "look", count |-> 0]
<1>1. r \in HitRecord
  BY RateTypes, RateAssumption DEF RateIInv, HitRecord
<1>2. hit' = [hit EXCEPT ![h] = r] /\ UNCHANGED <<tick, bucket, passed>>
  BY DEF Arrive
<1>3. RateTypeOK'
  BY <1>1, <1>2 DEF RateIInv, RateTypeOK, HitRecord
<1>4. DeciderHolds'
  BY <1>1, <1>2, RateTypes DEF RateIInv, DeciderHolds, At
<1> QED
  BY <1>2, <1>3, <1>4 DEF RateIInv, WindowHoldsLimit

(* LookAtBucket keeps the invariant.                                     *)
LEMMA LookAtBucketKeeps ==
    ASSUME RateIInv, NEW h \in Hit, LookAtBucket(h)
    PROVE  RateIInv'
<1>1. hit[h] \in HitRecord /\ hit[h].step = "look" /\ UNCHANGED <<tick, bucket, passed>>
  BY RateTypes DEF RateIInv, LookAtBucket, At
<1>2. CASE bucket = NoBucket /\ hit' = [hit EXCEPT ![h].step = "insert"]
  <2>1. [hit[h] EXCEPT !.step = "insert"] \in HitRecord
    BY <1>1 DEF HitRecord
  <2>2. hit' \in [Hit -> HitRecord \cup {Away}]
    BY <1>2, <2>1, RateTypes DEF RateIInv
  <2>3. RateTypeOK'
    BY <1>1, <2>2 DEF RateIInv, RateTypeOK, HitRecord
  <2>4. DeciderHolds'
    BY <1>1, <1>2, RateTypes DEF RateIInv, DeciderHolds, At
  <2> QED
    BY <1>1, <2>3, <2>4 DEF RateIInv, WindowHoldsLimit
<1>3. CASE /\ bucket # NoBucket /\ BucketFree
           /\ hit' = [hit EXCEPT ![h].step = "decide", ![h].count = bucket.count]
  <2> DEFINE r == [hit[h] EXCEPT !.step = "decide", !.count = bucket.count]
  <2>0. bucket.count \in 0..Limit
    BY <1>3, RateTypes, RateAssumption DEF RateIInv, BucketRow
  <2>1. r \in HitRecord /\ r.count = bucket.count
    BY <1>1, <2>0 DEF HitRecord
  <2>2. hit' = [hit EXCEPT ![h] = r]
    BY <1>3, RateTypes DEF RateIInv
  <2>3. hit' \in [Hit -> HitRecord \cup {Away}] /\ hit'[h] = r
    BY <2>2, <2>1, RateTypes DEF RateIInv
  <2> HIDE DEF r
  <2>4. RateTypeOK'
    BY <1>1, <2>3 DEF RateIInv, RateTypeOK, HitRecord
  <2>5. \A k \in Hit \ {h} : hit'[k] = hit[k]
    BY <2>2, RateTypes DEF RateIInv
  <2>6. DeciderHolds'
    BY <1>1, <1>3, <2>1, <2>3, <2>5 DEF DeciderHolds, At, BucketFree
  <2> QED
    BY <1>1, <2>4, <2>6 DEF RateIInv, WindowHoldsLimit
<1> QED
  BY <1>2, <1>3 DEF LookAtBucket

(* InsertBucket keeps the invariant.                                     *)
LEMMA InsertBucketKeeps ==
    ASSUME RateIInv, NEW h \in Hit, InsertBucket(h)
    PROVE  RateIInv' /\ WindowStep
<1>1. hit[h] \in HitRecord /\ hit[h].step = "insert" /\ tick' = tick
  BY RateTypes DEF RateIInv, InsertBucket, At
<1>2. CASE bucket = NoBucket
  <2> DEFINE b == [start |-> hit[h].at, count |-> 1]
  <2>1. b \in BucketRow /\ bucket' = b /\ passed' = 1 /\ hit' = [hit EXCEPT ![h] = Away]
    BY <1>1, <1>2, RateAssumption DEF InsertBucket, BucketRow, HitRecord
  <2>2. RateTypeOK'
    BY <1>1, <2>1, RateAssumption DEF RateIInv, RateTypeOK, BucketRow
  <2>3. DeciderHolds'
    BY <1>1, <1>2, <2>1, RateTypes, NoBucketIsNoRow DEF RateIInv, DeciderHolds, At
  <2> QED
    BY <1>2, <2>1, <2>2, <2>3 DEF RateIInv, WindowHoldsLimit, WindowStep
<1>3. CASE bucket # NoBucket
  <2>1. hit' = [hit EXCEPT ![h].step = "look"] /\ UNCHANGED <<bucket, passed>>
    BY <1>3 DEF InsertBucket
  <2>2. [hit[h] EXCEPT !.step = "look"] \in HitRecord
    BY <1>1 DEF HitRecord
  <2>3. hit' \in [Hit -> HitRecord \cup {Away}]
    BY <2>1, <2>2, RateTypes DEF RateIInv
  <2>4. RateTypeOK'
    BY <1>1, <2>1, <2>3 DEF RateIInv, RateTypeOK, HitRecord
  <2>5. DeciderHolds'
    BY <1>1, <2>1, RateTypes DEF RateIInv, DeciderHolds, At
  <2> QED
    BY <1>1, <2>1, <2>4, <2>5 DEF RateIInv, WindowHoldsLimit, WindowStep
<1> QED
  BY <1>2, <1>3

(* Decide keeps the invariant.                                           *)
LEMMA DecideKeeps ==
    ASSUME RateIInv, NEW h \in Hit, Decide(h)
    PROVE  RateIInv' /\ WindowStep
<1>1. /\ hit[h] \in HitRecord /\ hit[h].step = "decide" /\ tick' = tick
      /\ hit[h].count = bucket.count /\ bucket \in BucketRow /\ passed = bucket.count
      /\ \A k \in Hit : At(k, "decide") => k = h
  BY RateTypes DEF RateIInv, DeciderHolds, Decide, At, WindowHoldsLimit
<1>2. hit' = [hit EXCEPT ![h] = Away]
  BY DEF Decide
<1>3. hit' \in [Hit -> HitRecord \cup {Away}] /\ \A k \in Hit : ~At(k, "decide")'
  BY <1>1, <1>2, RateTypes DEF RateIInv, At
<1>4. DeciderHolds'
  BY <1>3 DEF DeciderHolds
<1>5. bucket' \in BucketRow /\ passed' = bucket'.count /\ passed' \in 0..Limit /\ WindowStep
  <2>1. CASE /\ Elapsed(h) >= Window /\ passed' = 1
             /\ bucket' = [start |-> hit[h].at, count |-> 1]
    BY <1>1, <2>1, RateAssumption DEF Elapsed, WindowStep, BucketRow, HitRecord
  <2>2. CASE UNCHANGED <<bucket, passed>>
    BY <1>1, <2>2, RateAssumption DEF WindowStep, BucketRow
  <2>3. CASE /\ ~Full(h) /\ passed' = passed + 1
             /\ bucket' = [bucket EXCEPT !.count = hit[h].count + 1]
    BY <1>1, <2>3, RateAssumption DEF Full, WindowStep, BucketRow
  <2> QED
    BY <2>1, <2>2, <2>3 DEF Decide
<1>6. RateTypeOK'
  BY <1>1, <1>3, <1>5 DEF RateIInv, RateTypeOK, BucketRow, HitRecord
<1> QED
  BY <1>4, <1>5, <1>6 DEF RateIInv, WindowHoldsLimit

(* Every step keeps the invariant, action by action.                     *)
LEMMA RateStep ==
    ASSUME RateIInv, [RateNext]_rateVars
    PROVE  RateIInv' /\ WindowStep
<1>1. CASE Tick
  BY <1>1, RateAssumption
     DEF RateIInv, RateTypeOK, DeciderHolds, At, WindowHoldsLimit, WindowStep, Tick
<1>2. ASSUME NEW h \in Hit, Arrive(h)
      PROVE  RateIInv' /\ WindowStep
  BY <1>2, ArriveKeeps DEF Arrive, WindowStep
<1>3. ASSUME NEW h \in Hit, LookAtBucket(h)
      PROVE  RateIInv' /\ WindowStep
  BY <1>3, LookAtBucketKeeps DEF LookAtBucket, WindowStep
<1>4. CASE UNCHANGED rateVars
  BY <1>4 DEF RateIInv, RateTypeOK, DeciderHolds, At, WindowHoldsLimit, WindowStep,
              rateVars
<1> QED
  BY <1>1, <1>2, <1>3, <1>4, InsertBucketKeeps, DecideKeeps DEF RateNext

(* The rate limit holds for any number of simultaneous hits, and a       *)
(* window once begun lasts (consume_rate_limit).                         *)
THEOREM RateLimitHolds == RateSpec => LimitHolds
<1>1. RateInit => RateIInv
  BY RateAssumption
     DEF RateInit, RateIInv, RateTypeOK, DeciderHolds, At, WindowHoldsLimit
<1>2. RateIInv /\ [RateNext]_rateVars => RateIInv' /\ WindowStep
  BY RateStep
<1>3. RateIInv => RateTypeOK /\ WindowHoldsLimit
  BY DEF RateIInv
<1>4. WindowStep => [bucket # NoBucket /\ bucket'.start # bucket.start
                       => bucket'.start >= bucket.start + Window]_rateVars
  BY DEF WindowStep
<1>5. RateSpec => []RateIInv
  BY <1>1, <1>2, PTL DEF RateSpec
<1>6. RateIInv /\ [RateNext]_rateVars
        => [bucket # NoBucket /\ bucket'.start # bucket.start
              => bucket'.start >= bucket.start + Window]_rateVars
  BY <1>2, <1>4
<1> QED
  BY <1>3, <1>5, <1>6, PTL DEF RateSpec, LimitHolds, WindowsApart

-----------------------------------------------------------------------------
(*************************************************************************)
(* Signed calls.  A nonce is kept until twice the skew after the time    *)
(* its call was carried out at, and a delivery decides with a time that  *)
(* is at most the delay old: while a copy could still be in time the     *)
(* nonce is there.                                                       *)
(*************************************************************************)

(* A delivery under way has a call and a time.                             *)
Delivery == [call : Call, now : 0..LastTime]

(* A delivery decides with a time at most Delay old, at which the call's   *)
(* timestamp was within the skew.                                          *)
DeliveriesFresh ==
    \A d \in Copy : copy[d] # Idle =>
      /\ copy[d].now <= time /\ time <= copy[d].now + Delay
      /\ InTime(copy[d].call, copy[d].now)

(* The nonce of a call carried out once is there until twice the skew      *)
(* after that time, signed - ahead, has passed.                            *)
NonceCovers ==
    \A c \in Call : executed[c].times # 0 =>
      \/ executed[c].ahead > Skew - Delay
      \/ /\ kept[c] # Idle
         /\ kept[c] >= signed[c] - executed[c].ahead + 2 * Skew
      \/ time > signed[c] - executed[c].ahead + 2 * Skew

SignedIInv == SignedTypeOK /\ DeliveriesFresh /\ NonceCovers /\ CarriedOutOnce

(* The invariant holds at first.                                         *)
LEMMA SignedStart == SignedInit => SignedIInv
<1> SUFFICES ASSUME SignedInit PROVE SignedIInv
  OBVIOUS
<1>1. SignedTypeOK
  <2>1. [times |-> 0, ahead |-> 0] \in [times : 0..2, ahead : -Skew..Skew]
    BY SignedAssumption
  <2> QED
    BY <2>1, SignedAssumption DEF SignedInit, SignedTypeOK
<1> QED
  BY <1>1 DEF SignedIInv, SignedInit, DeliveriesFresh, NonceCovers, CarriedOutOnce

(* TimePasses keeps the invariant.                                       *)
LEMMA TimePassesKeeps ==
    ASSUME SignedIInv, TimePasses
    PROVE  SignedIInv'
<1>1. time \in 0..LastTime /\ time < LastTime /\ time' = time + 1
      /\ UNCHANGED <<active, signed, kept, copy, executed>>
  BY DEF SignedIInv, SignedTypeOK, TimePasses
<1>2. SignedTypeOK'
  BY <1>1, SignedAssumption DEF SignedIInv, SignedTypeOK, Times
<1>3. DeliveriesFresh'
  <2> SUFFICES ASSUME NEW d \in Copy, copy[d] # Idle
               PROVE  copy[d].now <= time + 1 /\ time + 1 <= copy[d].now + Delay
    BY <1>1 DEF SignedIInv, DeliveriesFresh, InTime
  <2>1. copy[d].now \in 0..LastTime
    BY DEF SignedIInv, SignedTypeOK
  <2>2. copy[d].now <= time /\ copy[d].now + Delay > time
    BY DEF SignedIInv, DeliveriesFresh, TimePasses
  <2> QED
    BY <1>1, <2>1, <2>2, SignedAssumption
<1>4. NonceCovers'
  <2> SUFFICES ASSUME NEW c \in Call, executed[c].times # 0,
                      time > signed[c] - executed[c].ahead + 2 * Skew
               PROVE  time + 1 > signed[c] - executed[c].ahead + 2 * Skew
    BY <1>1 DEF SignedIInv, NonceCovers
  <2>1. signed[c] \in Int /\ executed[c].ahead \in Int
    BY SignedAssumption DEF SignedIInv, SignedTypeOK
  <2> QED
    BY <1>1, <2>1, SignedAssumption
<1> QED
  BY <1>1, <1>2, <1>3, <1>4 DEF SignedIInv, CarriedOutOnce

(* BeginVerify keeps the invariant.                                      *)
LEMMA BeginVerifyKeeps ==
    ASSUME SignedIInv, NEW d \in Copy, NEW c \in Call, BeginVerify(d, c)
    PROVE  SignedIInv'
<1> DEFINE r == [call |-> c, now |-> time]
<1>1. copy' = [copy EXCEPT ![d] = r] /\ UNCHANGED <<time, active, signed, kept, executed>>
      /\ InTime(c, time)
  BY DEF BeginVerify
<1>2. r \in [call : Call, now : 0..LastTime]
  BY DEF SignedIInv, SignedTypeOK
<1>3. SignedTypeOK'
  BY <1>1, <1>2 DEF SignedIInv, SignedTypeOK
<1>4. DeliveriesFresh'
  BY <1>1, SignedAssumption DEF SignedIInv, SignedTypeOK, DeliveriesFresh, InTime
<1> QED
  BY <1>1, <1>3, <1>4 DEF SignedIInv, NonceCovers, CarriedOutOnce

(* A delivery that ends leaves the others as they were.                  *)
LEMMA CopyDone ==
    ASSUME SignedIInv, NEW d \in Copy, copy' = [copy EXCEPT ![d] = Idle],
           UNCHANGED <<time, signed>>
    PROVE  /\ copy' \in [Copy -> Delivery \cup {Idle}]
           /\ DeliveriesFresh'
BY DEF SignedIInv, SignedTypeOK, Delivery, DeliveriesFresh, InTime

(* What a nonce covers, it covers until a request deletes it as expired,   *)
(* and then the time it covers has passed.                                 *)
LEMMA ForgottenIsPast ==
    ASSUME SignedIInv, NEW c \in Call, NEW now \in 0..LastTime, now <= time,
           executed[c].times # 0
    PROVE  \/ executed[c].ahead > Skew - Delay
           \/ /\ KeptAt(now)[c] # Idle
              /\ KeptAt(now)[c] >= signed[c] - executed[c].ahead + 2 * Skew
           \/ time > signed[c] - executed[c].ahead + 2 * Skew
<1> DEFINE past == signed[c] - executed[c].ahead + 2 * Skew
<1>1. past \in Int /\ time \in Int
  BY SignedAssumption DEF SignedIInv, SignedTypeOK
<1>2. KeptAt(now)[c] = IF kept[c] # Idle /\ kept[c] < now THEN Idle ELSE kept[c]
  BY DEF KeptAt
<1>3. CASE kept[c] # Idle /\ kept[c] >= past
  <2>1. kept[c] \in Int
    BY <1>3, SignedAssumption DEF SignedIInv, SignedTypeOK, Times
  <2> HIDE DEF past
  <2>2. CASE kept[c] < now
    BY <1>1, <1>3, <2>1, <2>2 DEF past
  <2>3. CASE ~(kept[c] < now)
    BY <1>2, <1>3, <2>3 DEF past
  <2> QED
    BY <2>2, <2>3
<1> QED
  BY <1>3 DEF SignedIInv, NonceCovers

(* VerifySigned keeps the invariant.                                     *)
LEMMA VerifySignedKeeps ==
    ASSUME SignedIInv, NEW d \in Copy, VerifySigned(d)
    PROVE  SignedIInv'
<1> DEFINE c == copy[d].call
           now == copy[d].now
<1>1. /\ copy[d] # Idle /\ c \in Call /\ now \in 0..LastTime
      /\ now <= time /\ time <= now + Delay /\ InTime(c, now)
      /\ copy' = [copy EXCEPT ![d] = Idle] /\ UNCHANGED <<time, active, signed>>
  BY DEF SignedIInv, SignedTypeOK, DeliveriesFresh, VerifySigned
<1>2. copy' \in [Copy -> Delivery \cup {Idle}] /\ DeliveriesFresh'
  BY <1>1, CopyDone
<1>3. CASE UNCHANGED <<kept, executed>>
  BY <1>1, <1>2, <1>3
     DEF SignedIInv, SignedTypeOK, NonceCovers, CarriedOutOnce, Delivery
<1>4. CASE /\ KeptAt(now)[c] = Idle
           /\ kept' = [KeptAt(now) EXCEPT ![c] = ExpiresAt(now)]
           /\ executed' = [executed EXCEPT ![c] =
                  IF @.times = 0 THEN [times |-> 1, ahead |-> signed[c] - now]
                  ELSE [times |-> 2, ahead |-> @.ahead]]
  <2> DEFINE e == IF executed[c].times = 0
                  THEN [times |-> 1, ahead |-> signed[c] - now]
                  ELSE [times |-> 2, ahead |-> executed[c].ahead]
  <2>1. /\ signed[c] \in Int /\ now \in Int /\ time \in Int /\ Skew \in Int
        /\ Delay \in Int /\ signed[c] - now \in -Skew..Skew
    <3>1. now - signed[c] \in -Skew..Skew
      BY <1>1 DEF InTime
    <3> QED
      BY <1>1, <3>1, SignedAssumption DEF SignedIInv, SignedTypeOK
  <2>2. executed[c] \in [times : 0..2, ahead : -Skew..Skew]
    BY <1>1 DEF SignedIInv, SignedTypeOK
  <2>3. e \in [times : 0..2, ahead : -Skew..Skew] /\ e.times # 0
    BY <2>1, <2>2
  <2>4. executed' = [executed EXCEPT ![c] = e]
    BY <1>1, <1>4 DEF SignedIInv, SignedTypeOK
  <2>5. ExpiresAt(now) \in Times /\ ExpiresAt(now) = now + 2 * Skew /\ ExpiresAt(now) # Idle
    BY <1>1, SignedAssumption DEF ExpiresAt, Times
  <2>6. KeptAt(now) \in [Call -> Times \cup {Idle}]
    BY DEF SignedIInv, SignedTypeOK, KeptAt
  <2>7. kept' \in [Call -> Times \cup {Idle}] /\ kept'[c] = now + 2 * Skew
        /\ \A b \in Call \ {c} : kept'[b] = KeptAt(now)[b]
    BY <1>1, <1>4, <2>5, <2>6
  <2> HIDE DEF e
  <2>8. executed'[c] = e /\ \A b \in Call \ {c} : executed'[b] = executed[b]
    BY <1>1, <2>4 DEF SignedIInv, SignedTypeOK
  <2>9. SignedTypeOK'
    BY <1>1, <1>2, <2>3, <2>4, <2>7 DEF SignedIInv, SignedTypeOK, Delivery
  <2>10. executed[c].times # 0 => executed[c].ahead > Skew - Delay
    <3> SUFFICES ASSUME executed[c].times # 0, ~(executed[c].ahead > Skew - Delay)
                 PROVE  FALSE
      OBVIOUS
    <3>1. time > signed[c] - executed[c].ahead + 2 * Skew
      BY <1>1, <1>4, ForgottenIsPast
    <3>2. signed[c] - now >= -Skew /\ executed[c].ahead \in Int
      BY <2>1, <2>2
    <3> QED
      BY <1>1, <2>1, <3>1, <3>2
  <2>11. e.times = 1 => e.ahead = signed[c] - now
    BY <2>2 DEF e
  <2>12. e.times = 2 => e.ahead > Skew - Delay
    BY <2>10 DEF e
  <2>13. NonceCovers'
    <3> SUFFICES ASSUME NEW b \in Call, executed'[b].times # 0
                 PROVE  \/ executed'[b].ahead > Skew - Delay
                        \/ /\ kept'[b] # Idle
                           /\ kept'[b] >= signed[b] - executed'[b].ahead + 2 * Skew
                        \/ time > signed[b] - executed'[b].ahead + 2 * Skew
      BY <1>1 DEF NonceCovers
    <3>1. CASE b = c
      <4>1. CASE e.times = 1
        <5>1. signed[b] - executed'[b].ahead = now
          BY <2>1, <2>8, <2>11, <3>1, <4>1
        <5> QED
          BY <2>1, <2>5, <2>7, <3>1, <5>1
      <4>2. CASE e.times = 2
        BY <2>8, <2>12, <3>1, <4>2
      <4> QED
        BY <2>3, <4>1, <4>2
    <3>2. CASE b # c
      BY <1>1, <2>7, <2>8, <3>2, ForgottenIsPast
    <3> QED
      BY <3>1, <3>2
  <2>14. CarriedOutOnce'
    BY <2>8, <2>12 DEF SignedIInv, CarriedOutOnce
  <2> QED
    BY <1>2, <2>9, <2>13, <2>14 DEF SignedIInv
<1> QED
  BY <1>3, <1>4 DEF VerifySigned

(* RollBackVerified keeps the invariant.                                 *)
LEMMA RollBackVerifiedKeeps ==
    ASSUME SignedIInv, NEW d \in Copy, RollBackVerified(d)
    PROVE  SignedIInv'
<1>1. copy' = [copy EXCEPT ![d] = Idle] /\ UNCHANGED <<time, active, signed, kept, executed>>
  BY DEF RollBackVerified
<1>2. copy' \in [Copy -> Delivery \cup {Idle}] /\ DeliveriesFresh'
  BY <1>1, CopyDone
<1> QED
  BY <1>1, <1>2 DEF SignedIInv, SignedTypeOK, NonceCovers, CarriedOutOnce, Delivery

(* Every step keeps the invariant, action by action.                     *)
LEMMA SignedStep ==
    ASSUME SignedIInv, [SignedNext]_signedVars
    PROVE  SignedIInv'
<1>1. CASE RevokeDevice \/ UNCHANGED signedVars
  BY <1>1 DEF SignedIInv, SignedTypeOK, DeliveriesFresh, InTime, NonceCovers,
              CarriedOutOnce, RevokeDevice, signedVars
<1> QED
  BY <1>1, TimePassesKeeps, BeginVerifyKeeps, VerifySignedKeeps,
     RollBackVerifiedKeeps DEF SignedNext

(* A signed call is carried out at most once, for any number of copies   *)
(* of it and any delay of a delivery up to the bound                     *)
(* (verify_device_request).                                              *)
THEOREM SignedAlwaysHolds == SignedSpec => []SignedHolds
<1>1. SignedIInv => SignedHolds
  BY DEF SignedIInv, SignedHolds
<1> QED
  BY <1>1, SignedStart, SignedStep, PTL DEF SignedSpec

-----------------------------------------------------------------------------
(*************************************************************************)
(* Accounts.  As long as no requests overlapped, the version in the row  *)
(* is the greatest there is, and a withdrawn token's is smaller.         *)
(*************************************************************************)

Fields == {"role", "company", "branch", "active", "version"}

(* The columns an UPDATE may hold; the version is always among them.       *)
ColumnsOK(c) ==
    /\ DOMAIN c \subseteq Fields
    /\ "role" \in DOMAIN c => c["role"] \in Role
    /\ "company" \in DOMAIN c => c["company"] \in Company \cup {None}
    /\ "branch" \in DOMAIN c => c["branch"] \in Branch \cup {None}
    /\ "active" \in DOMAIN c => c["active"] \in BOOLEAN
    /\ "version" \in DOMAIN c /\ c["version"] \in Versions

(* A login under way, and a request that will write.                       *)
LoginRow == [token : Token, version : Versions]
WriterOK(w) ==
    /\ DOMAIN w = {"version", "columns"}
    /\ w.version \in Versions /\ ColumnsOK(w.columns)
    /\ w.columns["version"] = w.version + 1

LoggingIn(d) == ~Free(d) /\ ~Writing(d)

DeskOK == \A d \in Desk : \/ desk[d] = None \/ desk[d] \in LoginRow
                         \/ WriterOK(desk[d])

AccountOK == /\ account \in AccountType
             /\ issued \in [Token -> Versions \cup {None}]
             /\ desk = [d \in Desk |-> desk[d]]
             /\ withdrawn \subseteq Token /\ overlapped \in BOOLEAN

(* A role that needs a branch has one.                                     *)
Placed(u) == ~(u.role \in BranchRequired /\ u.branch = None)

(* A token under way is not out yet, and is made by one login.             *)
LoginsApart ==
    /\ \A t \in withdrawn : issued[t] # None
    /\ \A d \in Desk : LoggingIn(d) =>
         /\ issued[desk[d].token] = None
         /\ \A e \in Desk : LoggingIn(e) /\ desk[e].token = desk[d].token => e = d

(* As long as no two requests have overlapped, the version in the row is   *)
(* the greatest there is, those of withdrawn tokens are smaller, and what  *)
(* a request was about to make of the row it will still make of it.        *)
VersionsGrow ==
    ~overlapped =>
      /\ Placed(account)
      /\ \A t \in Token : issued[t] # None => issued[t] <= account.version
      /\ \A t \in withdrawn : issued[t] < account.version
      /\ \A d \in Desk : ~Free(d) => desk[d].version <= account.version
      /\ \A d \in Desk : Writing(d) /\ desk[d].version = account.version
                           => Placed(Updated(desk[d].columns))

VenturesIInv == AccountOK /\ DeskOK /\ LoginsApart /\ VersionsGrow

(* An update leaves an account.                                          *)
LEMMA UpdatedType ==
    ASSUME account \in AccountType, NEW c, ColumnsOK(c)
    PROVE  Updated(c) \in AccountType /\ Updated(c).version = c["version"]
BY DEF Updated, ColumnsOK, AccountType

(* A desk is free, logging in, or writing.                               *)
LEMMA DeskKinds ==
    ASSUME DeskOK, NEW d \in Desk
    PROVE  /\ LoggingIn(d) => desk[d] \in LoginRow /\ ~WriterOK(desk[d])
           /\ Writing(d) => WriterOK(desk[d]) /\ desk[d] \notin LoginRow
           /\ ~Free(d) => desk[d].version \in Versions
<1>1. \A r \in LoginRow : DOMAIN r = {"token", "version"} /\ r.version \in Versions
  BY DEF LoginRow
<1>2. ASSUME desk[d] \in LoginRow
      PROVE  ~("columns" \in DOMAIN desk[d]) /\ ~WriterOK(desk[d])
  BY <1>1, <1>2 DEF WriterOK
<1>3. ASSUME WriterOK(desk[d])
      PROVE  "columns" \in DOMAIN desk[d] /\ desk[d].version \in Versions
  BY <1>3 DEF WriterOK
<1> QED
  BY <1>1, <1>2, <1>3 DEF DeskOK, LoggingIn, Free, Writing

(* What a request that changes the row to u will write.                    *)
LEMMA ColumnsOf ==
    ASSUME account \in AccountType, NEW u \in AccountType,
           account.version <= MaxRevisions, u.version = account.version + 1
    PROVE  /\ ColumnsOK(Columns(u))
           /\ Columns(u)["version"] = account.version + 1
           /\ Updated(Columns(u)) = u
<1> DEFINE C == {c \in Fields : u[c] # account[c]}
<1>1. DOMAIN u = Fields /\ DOMAIN account = Fields
  BY DEF AccountType, Fields
<1>2. Columns(u) = [c \in C |-> u[c]]
  BY <1>1 DEF Columns
<1>3. DOMAIN Columns(u) = C /\ \A c \in C : Columns(u)[c] = u[c]
  BY <1>2
<1>4. account.version \in Nat /\ "version" \in C
  BY VenturesAssumption DEF AccountType, Versions, Fields
<1>5. /\ u["role"] \in Role /\ u["company"] \in Company \cup {None}
      /\ u["branch"] \in Branch \cup {None} /\ u["active"] \in BOOLEAN
      /\ u["version"] \in Versions
  BY DEF AccountType
<1>6. ColumnsOK(Columns(u))
  BY <1>3, <1>4, <1>5 DEF ColumnsOK, Fields
<1>7. \A c \in Fields :
        (IF c \in DOMAIN Columns(u) THEN Columns(u)[c] ELSE account[c]) = u[c]
  BY <1>3
<1>8. Updated(Columns(u)) = [role |-> u["role"], company |-> u["company"],
                            branch |-> u["branch"], active |-> u["active"],
                            version |-> u["version"]]
  BY <1>7 DEF Updated, Fields
<1>9. u = [role |-> u["role"], company |-> u["company"],
           branch |-> u["branch"], active |-> u["active"],
           version |-> u["version"]]
  BY DEF AccountType
<1> QED
  BY <1>3, <1>4, <1>6, <1>8, <1>9

(* The invariant holds at first.                                         *)
LEMMA VenturesStart == VenturesInit => VenturesIInv
<1> SUFFICES ASSUME VenturesInit PROVE VenturesIInv
  OBVIOUS
<1>1. account \in AccountType /\ Placed(account)
  BY VenturesAssumption
     DEF VenturesInit, AccountType, Role, Versions, Placed, BranchRequired
<1>2. AccountOK
  BY <1>1 DEF VenturesInit, AccountOK
<1>3. DeskOK /\ LoginsApart
  BY DEF VenturesInit, DeskOK, LoginsApart, LoggingIn, Free
<1>4. VersionsGrow
  BY <1>1 DEF VenturesInit, VersionsGrow, Free, Writing
<1> QED
  BY <1>2, <1>3, <1>4 DEF VenturesIInv

(* BeginLogin keeps the invariant.                                       *)
LEMMA BeginLoginKeeps ==
    ASSUME VenturesIInv, NEW d \in Desk, NEW t \in Token, BeginLogin(d, t)
    PROVE  VenturesIInv'
<1> DEFINE r == [token |-> t, version |-> account.version]
<1>1. /\ desk' = [desk EXCEPT ![d] = r]
      /\ UNCHANGED <<account, issued, withdrawn, overlapped>>
      /\ issued[t] = None
      /\ \A e \in Desk : LoggingIn(e) => desk[e].token # t
  BY DEF BeginLogin, LoggingIn
<1>2. r \in LoginRow
  BY DEF VenturesIInv, AccountOK, LoginRow, AccountType
<1>3. DOMAIN r = {"token", "version"} /\ r.token = t /\ r.version = account.version
  OBVIOUS
<1> HIDE DEF r
<1>4. desk'[d] = r /\ \A e \in Desk \ {d} : desk'[e] = desk[e]
  BY <1>1 DEF VenturesIInv, AccountOK
<1>5. AccountOK' /\ DeskOK'
  BY <1>1, <1>2, <1>4 DEF VenturesIInv, AccountOK, DeskOK, WriterOK, ColumnsOK
<1>6. ~Writing(d)' /\ \A e \in Desk \ {d} : /\ Writing(e)' <=> Writing(e)
                                            /\ Free(e)' <=> Free(e)
                                            /\ LoggingIn(e)' <=> LoggingIn(e)
  BY <1>3, <1>4 DEF Writing, Free, LoggingIn
<1>7. LoginsApart'
  BY <1>1, <1>3, <1>4, <1>6 DEF VenturesIInv, LoginsApart
<1>8. VersionsGrow'
  <2>1. account.version <= account.version
    BY VenturesAssumption DEF VenturesIInv, AccountOK, AccountType, Versions
  <2>2. \A c : Updated(c)' = Updated(c)
    BY <1>1 DEF Updated
  <2>3. \A e \in Desk \ {d} : Writing(e)' => Updated(desk[e].columns)' = Updated(desk[e].columns)
    BY <1>1, <1>4 DEF Updated
  <2> QED
    BY <1>1, <1>3, <1>4, <1>6, <2>1, <2>3 DEF VenturesIInv, VersionsGrow, Placed
<1> QED
  BY <1>5, <1>7, <1>8 DEF VenturesIInv

(* A desk that is left changes nothing for the others.                     *)
LEMMA DeskLeft ==
    ASSUME VenturesIInv, NEW d \in Desk, desk' = [desk EXCEPT ![d] = None]
    PROVE  /\ desk' = [e \in Desk |-> desk'[e]] /\ DeskOK'
           /\ Free(d)' /\ ~Writing(d)' /\ ~LoggingIn(d)'
           /\ \A e \in Desk \ {d} : /\ desk'[e] = desk[e]
                                    /\ Writing(e)' <=> Writing(e)
                                    /\ Free(e)' <=> Free(e)
                                    /\ LoggingIn(e)' <=> LoggingIn(e)
<1>1. desk'[d] = None /\ \A e \in Desk \ {d} : desk'[e] = desk[e]
  BY DEF VenturesIInv, AccountOK
<1>2. DeskOK'
  BY <1>1 DEF VenturesIInv, DeskOK, WriterOK, ColumnsOK
<1>3. desk' = [e \in Desk |-> desk'[e]]
  BY DEF VenturesIInv, AccountOK
<1> QED
  BY <1>1, <1>2, <1>3 DEF Free, Writing, LoggingIn

(* Login keeps the invariant.                                            *)
LEMMA LoginKeeps ==
    ASSUME VenturesIInv, NEW d \in Desk, Login(d)
    PROVE  VenturesIInv'
<1> DEFINE t == desk[d].token
           v == desk[d].version
<1>1. /\ LoggingIn(d) /\ issued' = [issued EXCEPT ![t] = v]
      /\ desk' = [desk EXCEPT ![d] = None]
      /\ UNCHANGED <<account, withdrawn, overlapped>>
  BY DEF Login, LoggingIn
<1>2. desk[d] \in LoginRow /\ t \in Token /\ v \in Versions /\ issued[t] = None
      /\ t \notin withdrawn
  BY <1>1, DeskKinds DEF VenturesIInv, LoginRow, LoginsApart
<1>3. \A e \in Desk : LoggingIn(e) /\ e # d => desk[e].token # t
  BY <1>1 DEF VenturesIInv, LoginsApart
<1>4. ~overlapped => v <= account.version
  BY <1>1 DEF VenturesIInv, VersionsGrow, LoggingIn
<1> HIDE DEF t, v
<1>5. issued' \in [Token -> Versions \cup {None}] /\ issued'[t] = v
      /\ \A s \in Token \ {t} : issued'[s] = issued[s]
  BY <1>1, <1>2 DEF VenturesIInv, AccountOK
<1>6. AccountOK' /\ DeskOK'
  BY <1>1, <1>5, DeskLeft DEF VenturesIInv, AccountOK
<1>7. LoginsApart'
  <2>1. ASSUME NEW s \in withdrawn PROVE issued'[s] # None
    BY <1>2, <1>5, <2>1 DEF VenturesIInv, LoginsApart, AccountOK
  <2>2. ASSUME NEW e \in Desk, LoggingIn(e)'
        PROVE  /\ issued'[desk'[e].token] = None
               /\ \A f \in Desk : LoggingIn(f)' /\ desk'[f].token = desk'[e].token => f = e
    <3>1. e # d /\ LoggingIn(e) /\ desk'[e] = desk[e]
      BY <1>1, <2>2, DeskLeft
    <3>2. desk[e].token \in Token /\ desk[e].token # t
      BY <1>3, <3>1, DeskKinds DEF VenturesIInv, LoginRow
    <3>3. issued'[desk'[e].token] = None
      BY <1>5, <3>1, <3>2 DEF VenturesIInv, LoginsApart
    <3>4. ASSUME NEW f \in Desk, LoggingIn(f)', desk'[f].token = desk'[e].token
          PROVE  f = e
      <4>1. f # d /\ LoggingIn(f) /\ desk'[f] = desk[f]
        BY <1>1, <3>4, DeskLeft
      <4> QED
        BY <3>1, <3>4, <4>1 DEF VenturesIInv, LoginsApart
    <3> QED
      BY <3>3, <3>4
  <2> QED
    BY <1>1, <2>1, <2>2 DEF LoginsApart
<1>8. VersionsGrow'
  <2> SUFFICES ASSUME ~overlapped PROVE VersionsGrow'
    BY <1>1 DEF VersionsGrow
  <2>1. \A e \in Desk : Writing(e)' =>
          Writing(e) /\ desk'[e] = desk[e]
          /\ Updated(desk[e].columns)' = Updated(desk[e].columns)
    BY <1>1, DeskLeft DEF Updated
  <2>2. \A e \in Desk : ~Free(e)' => ~Free(e) /\ desk'[e] = desk[e]
    BY <1>1, DeskLeft
  <2>3. \A s \in Token : issued'[s] # None => issued'[s] <= account.version
    BY <1>4, <1>5 DEF VenturesIInv, VersionsGrow
  <2>4. \A s \in withdrawn : issued'[s] < account.version
    BY <1>2, <1>5 DEF VenturesIInv, VersionsGrow, AccountOK
  <2>5. \A e \in Desk : ~Free(e)' => desk'[e].version <= account.version
    BY <2>2 DEF VenturesIInv, VersionsGrow
  <2>6. \A e \in Desk : Writing(e)' /\ desk'[e].version = account.version
          => Placed(Updated(desk[e].columns))'
    <3> SUFFICES ASSUME NEW e \in Desk, Writing(e)', desk'[e].version = account.version
                 PROVE  Placed(Updated(desk[e].columns))'
      OBVIOUS
    <3>1. Updated(desk[e].columns)' = Updated(desk[e].columns) /\ Placed(Updated(desk[e].columns))
      BY <2>1 DEF VenturesIInv, VersionsGrow
    <3> QED
      BY <3>1, <2>1
  <2> QED
    BY <1>1, <2>3, <2>4, <2>5, <2>6 DEF VenturesIInv, VersionsGrow, Placed
<1> QED
  BY <1>6, <1>7, <1>8 DEF VenturesIInv

(* A request that will change the row to u.                                *)
LEMMA BeginWriteKeeps ==
    ASSUME VenturesIInv, NEW d \in Desk, NEW u \in AccountType,
           Free(d), account.version <= MaxRevisions,
           u.version = account.version + 1, ~overlapped => Placed(u),
           desk' = [desk EXCEPT ![d] = [version |-> account.version,
                                        columns |-> Columns(u)]],
           UNCHANGED <<account, issued, withdrawn, overlapped>>
    PROVE  VenturesIInv'
<1> DEFINE r == [version |-> account.version, columns |-> Columns(u)]
<1>1. account \in AccountType /\ account.version \in Versions
  BY DEF VenturesIInv, AccountOK, AccountType
<1>2. /\ ColumnsOK(Columns(u)) /\ Columns(u)["version"] = account.version + 1
      /\ Updated(Columns(u)) = u
  BY <1>1, ColumnsOf
<1>3. DOMAIN r = {"version", "columns"} /\ r.version = account.version
      /\ r.columns = Columns(u)
  OBVIOUS
<1>4. desk' = [desk EXCEPT ![d] = r]
  OBVIOUS
<1> HIDE DEF r
<1>5. desk'[d] = r /\ (\A e \in Desk \ {d} : desk'[e] = desk[e])
      /\ desk' = [e \in Desk |-> desk'[e]]
  BY <1>4 DEF VenturesIInv, AccountOK
<1>6. WriterOK(r)
  BY <1>1, <1>2, <1>3 DEF WriterOK
<1>7. AccountOK' /\ DeskOK'
  <2>1. ASSUME NEW e \in Desk PROVE desk'[e] = None \/ desk'[e] \in LoginRow \/ WriterOK(desk'[e])
    <3>1. CASE e = d
      BY <1>5, <1>6, <3>1
    <3>2. CASE e # d
      BY <1>5, <3>2 DEF VenturesIInv, DeskOK
    <3> QED
      BY <3>1, <3>2
  <2>2. DeskOK'
    BY <2>1 DEF DeskOK, WriterOK, ColumnsOK
  <2> QED
    BY <1>5, <2>2 DEF VenturesIInv, AccountOK
<1>8. ~LoggingIn(d)' /\ \A e \in Desk \ {d} : /\ Writing(e)' <=> Writing(e)
                                              /\ Free(e)' <=> Free(e)
                                              /\ LoggingIn(e)' <=> LoggingIn(e)
  BY <1>3, <1>5 DEF Writing, Free, LoggingIn
<1>9. LoginsApart'
  BY <1>5, <1>8 DEF VenturesIInv, LoginsApart
<1>10. VersionsGrow'
  <2> SUFFICES ASSUME ~overlapped PROVE VersionsGrow'
    BY DEF VersionsGrow
  <2>1. \A c : Updated(c)' = Updated(c)
    BY DEF Updated
  <2>2. account.version <= account.version
    BY <1>1, VenturesAssumption DEF Versions
  <2>3. ASSUME NEW e \in Desk, Writing(e)', desk'[e].version = account.version
        PROVE  Placed(Updated(desk[e].columns))'
    <3>1. CASE e = d
      <4>1. Updated(desk[e].columns)' = Updated(Columns(u))
        BY <1>3, <1>5, <3>1 DEF Updated
      <4> QED
        BY <1>2, <4>1
    <3>2. CASE e # d
      <4>1. Updated(desk[e].columns)' = Updated(desk[e].columns)
        BY <1>5, <3>2 DEF Updated
      <4>2. Writing(e) /\ desk[e].version = account.version
        BY <1>5, <1>8, <2>3, <3>2
      <4> QED
        BY <4>1, <4>2 DEF VenturesIInv, VersionsGrow
    <3> QED
      BY <3>1, <3>2
  <2>4. ASSUME NEW e \in Desk, ~Free(e)'
        PROVE  desk'[e].version <= account.version
    BY <1>3, <1>5, <1>8, <2>2, <2>4 DEF VenturesIInv, VersionsGrow
  <2> QED
    BY <2>3, <2>4 DEF VenturesIInv, VersionsGrow, Placed
<1> QED
  BY <1>7, <1>9, <1>10 DEF VenturesIInv

(* Commit keeps the invariant.                                           *)
LEMMA CommitKeeps ==
    ASSUME VenturesIInv, NEW d \in Desk, CommitAccount(d)
    PROVE  VenturesIInv'
<1> DEFINE u == Updated(desk[d].columns)
<1>1. /\ Writing(d) /\ desk' = [desk EXCEPT ![d] = None] /\ issued' = issued
  BY DEF CommitAccount
<1>2. WriterOK(desk[d]) /\ account \in AccountType
  BY <1>1, DeskKinds DEF VenturesIInv, AccountOK
<1>3. /\ u \in AccountType /\ u.version = desk[d].version + 1
      /\ desk[d].version \in Versions
  BY <1>2, UpdatedType DEF WriterOK
<1>4. LoginsApart'
  <2>1. \A t \in withdrawn' : issued[t] # None
    BY DEF VenturesIInv, LoginsApart, CommitAccount
  <2>2. \A e \in Desk : LoggingIn(e)' => LoggingIn(e) /\ desk'[e] = desk[e]
    BY <1>1, DeskLeft
  <2> QED
    BY <1>1, <2>1, <2>2 DEF VenturesIInv, LoginsApart
<1>5. CASE UNCHANGED <<account, overlapped, withdrawn>>
  <2>1. AccountOK' /\ DeskOK'
    BY <1>1, <1>5, DeskLeft DEF VenturesIInv, AccountOK
  <2>2. VersionsGrow'
    <3> SUFFICES ASSUME ~overlapped PROVE VersionsGrow'
      BY <1>5 DEF VersionsGrow
    <3>1. ASSUME NEW e \in Desk, Writing(e)', desk'[e].version = account.version
          PROVE  Placed(Updated(desk[e].columns))'
      <4>1. Writing(e) /\ desk'[e] = desk[e]
        BY <1>1, <3>1, DeskLeft
      <4>2. Updated(desk[e].columns)' = Updated(desk[e].columns)
        BY <1>5, <4>1 DEF Updated
      <4> QED
        BY <3>1, <4>1, <4>2 DEF VenturesIInv, VersionsGrow
    <3>2. ASSUME NEW e \in Desk, ~Free(e)'
          PROVE  desk'[e].version <= account.version
      <4>1. ~Free(e) /\ desk'[e] = desk[e]
        BY <1>1, <3>2, DeskLeft
      <4> QED
        BY <4>1 DEF VenturesIInv, VersionsGrow
    <3> QED
      BY <1>1, <1>5, <3>1, <3>2 DEF VenturesIInv, VersionsGrow, Placed
  <2> QED
    BY <1>4, <2>1, <2>2 DEF VenturesIInv
<1>6. CASE /\ account' = u
           /\ overlapped' = (overlapped \/ account.version # desk[d].version)
           /\ withdrawn' = {t \in Token : issued[t] # None}
  <2> HIDE DEF u
  <2>1. overlapped' \in BOOLEAN
    BY <1>6 DEF VenturesIInv, AccountOK
  <2>2. AccountOK' /\ DeskOK'
    BY <1>1, <1>3, <1>6, <2>1, DeskLeft DEF VenturesIInv, AccountOK
  <2>3. VersionsGrow'
    <3> SUFFICES ASSUME ~overlapped' PROVE VersionsGrow'
      BY DEF VersionsGrow
    <3>1. ~overlapped /\ account.version = desk[d].version
      BY <1>6
    <3>2. Placed(u)
      BY <1>1, <3>1 DEF VenturesIInv, VersionsGrow, u
    <3>3. account.version \in Nat /\ account'.version = account.version + 1
      BY <1>3, <1>6, <3>1, VenturesAssumption DEF Versions
    <3>4. \A t \in Token : issued[t] # None => issued[t] \in Nat /\ issued[t] <= account.version
      BY <3>1, VenturesAssumption DEF VenturesIInv, AccountOK, VersionsGrow, Versions
    <3>5. ASSUME NEW e \in Desk, ~Free(e)'
          PROVE  desk'[e].version \in Nat /\ desk'[e].version <= account.version
      <4>1. ~Free(e) /\ desk'[e] = desk[e]
        BY <1>1, <3>5, DeskLeft
      <4>2. desk[e].version \in Versions
        BY <4>1, DeskKinds DEF VenturesIInv
      <4> QED
        BY <3>1, <4>1, <4>2, VenturesAssumption DEF VenturesIInv, VersionsGrow, Versions
    <3>6. \A e \in Desk : Writing(e)' => ~Free(e)'
      BY DEF Writing, Free
    <3>7. Placed(account')
      BY <1>6, <3>2
    <3>8. \A t \in Token : issued'[t] # None => issued'[t] <= account'.version
      BY <1>1, <3>3, <3>4
    <3>9. \A t \in withdrawn' : issued'[t] < account'.version
      BY <1>1, <1>6, <3>3, <3>4
    <3>10. \A e \in Desk : ~Free(e)' => desk'[e].version < account'.version
      BY <3>3, <3>5
    <3>11. \A e \in Desk : ~Free(e)' => desk'[e].version # account'.version
                                        /\ desk'[e].version <= account'.version
      BY <3>3, <3>5
    <3> QED
      BY <3>6, <3>7, <3>8, <3>9, <3>11 DEF VersionsGrow, Placed
  <2> QED
    BY <1>4, <2>2, <2>3 DEF VenturesIInv
<1> QED
  BY <1>5, <1>6 DEF CommitAccount

(* Every step keeps the invariant, action by action.                     *)
LEMMA VenturesStep ==
    ASSUME VenturesIInv, [VenturesNext]_ventureVars
    PROVE  VenturesIInv'
<1>1. account \in AccountType /\ account.version \in Nat
  BY VenturesAssumption DEF VenturesIInv, AccountOK, AccountType, Versions
<1>2. ASSUME NEW d \in Desk, NEW t \in Token, BeginLogout(d, t)
      PROVE  VenturesIInv'
  <2> DEFINE u == [account EXCEPT !.version = Revised(@)]
  <2>1. account.version <= MaxRevisions /\ account.version + 1 \in Versions
    BY <1>1, <1>2, VenturesAssumption DEF BeginLogout, Versions
  <2>2. u \in AccountType /\ u.version = account.version + 1
        /\ u.role = account.role /\ u.branch = account.branch
    BY <1>1, <2>1 DEF AccountType, Revised
  <2>3. ~overlapped => Placed(u)
    BY <2>2 DEF VenturesIInv, VersionsGrow, Placed
  <2> QED
    BY <1>2, <2>1, <2>2, <2>3, BeginWriteKeeps DEF BeginLogout
<1>3. ASSUME NEW d \in Desk, NEW role \in Role, NEW c \in Company \cup {None},
             NEW b \in Branch \cup {None}, NEW on \in BOOLEAN,
             BeginAssignment(d, role, c, b, on)
      PROVE  VenturesIInv'
  <2> DEFINE u == [role |-> role, company |-> c, branch |-> b,
                   active |-> on, version |-> Revised(account.version)]
  <2>1. account.version <= MaxRevisions /\ account.version + 1 \in Versions
    BY <1>1, <1>3, VenturesAssumption DEF BeginAssignment, Versions
  <2>2. u \in AccountType /\ u.version = account.version + 1
    BY <2>1 DEF AccountType, Revised
  <2>3. Placed(u)
    BY <1>3 DEF BeginAssignment, ValidAssignment, Placed, BranchRequired
  <2> QED
    BY <1>3, <2>1, <2>2, <2>3, BeginWriteKeeps DEF BeginAssignment
<1>4. CASE UNCHANGED ventureVars
  <2>1. AccountOK' /\ DeskOK' /\ LoginsApart'
    BY <1>4 DEF VenturesIInv, AccountOK, DeskOK, LoginsApart, WriterOK, ColumnsOK,
                LoggingIn, Free, Writing, ventureVars
  <2>2. VersionsGrow'
    BY <1>4 DEF VenturesIInv, VersionsGrow, Placed, Updated, Free, Writing, ventureVars
  <2> QED
    BY <2>1, <2>2 DEF VenturesIInv
<1> QED
  BY <1>2, <1>3, <1>4, BeginLoginKeeps, LoginKeeps, CommitKeeps DEF VenturesNext

(* The invariant gives the account's properties.                         *)
LEMMA VenturesSafe == VenturesIInv => AccountHolds
<1> SUFFICES ASSUME VenturesIInv PROVE AccountHolds
  OBVIOUS
<1>1. account \in AccountType
  BY DEF VenturesIInv, AccountOK
<1>2. VenturesTypeOK
  <2>1. ASSUME NEW d \in Desk
        PROVE  \/ desk[d] = None
               \/ desk[d] \in [token : Token, version : Versions]
               \/ /\ desk[d].version \in Versions
                  /\ Updated(desk[d].columns) \in AccountType
    BY <1>1, UpdatedType DEF VenturesIInv, DeskOK, WriterOK, LoginRow
  <2> QED
    BY <2>1 DEF VenturesIInv, AccountOK, VersionsGrow, Placed, VenturesTypeOK
<1>3. WithdrawnStaysOut
  <2> SUFFICES ASSUME ~overlapped, NEW t \in withdrawn PROVE issued[t] # account.version
    BY DEF WithdrawnStaysOut, Live
  <2>1. issued[t] < account.version /\ issued[t] \in Nat /\ account.version \in Nat
    BY <1>1, VenturesAssumption
       DEF VenturesIInv, AccountOK, AccountType, LoginsApart, VersionsGrow, Versions
  <2> QED
    BY <2>1
<1>4. StaffKeepsToABranch
  BY DEF StaffKeepsToABranch, BranchesOf, BranchRequired
<1>5. WritableIsReadable
  BY DEF WritableIsReadable, Writable, Readable
<1> QED
  BY <1>2, <1>3, <1>4, <1>5 DEF AccountHolds

(* No token outlives its withdrawal and a role that needs a branch has   *)
(* one, for any number of desks, unless two requests overlapped (login,  *)
(* update_user, transfer_user).                                          *)
THEOREM AccountAlwaysHolds == VenturesSpec => []AccountHolds
BY VenturesStart, VenturesStep, VenturesSafe, PTL DEF VenturesSpec

-----------------------------------------------------------------------------
(*************************************************************************)
(* The menu card.  Until two edits collide a version has one content, so *)
(* an edit that still finds the version it read knows what it overwrites *)
(* and leaves the item in the place it has checked.                      *)
(*************************************************************************)

(* What an edit writes in column c of an item i.                           *)
After(i, columns, c) == IF c \in DOMAIN columns THEN columns[c] ELSE i[c]

(* The columns an edit writes have the columns' types, and it always       *)
(* writes the version after the one it read.                               *)
EditColumnsType(ed) ==
    /\ ed.version \in 1..(MaxCardVersion - 1)
    /\ DOMAIN ed.columns \subseteq {"branch", "category", "available", "version"}
    /\ "branch" \in DOMAIN ed.columns => ed.columns["branch"] \in Span
    /\ "category" \in DOMAIN ed.columns => ed.columns["category"] \in Category
    /\ "available" \in DOMAIN ed.columns => ed.columns["available"] \in BOOLEAN
    /\ "version" \in DOMAIN ed.columns
    /\ ed.columns["version"] = ed.version + 1

(* A place was checked against its category as it is now, or the category  *)
(* has been edited since.                                                  *)
PlaceKnown(p, cat, m) ==
    /\ p \in PlaceType
    /\ p.moves <= m[p.category]
    /\ p.moves = m[p.category] =>
         (cat[p.category] # Everywhere => p.branch = cat[p.category])

(* An edit that still finds the version it read leaves the item where it   *)
(* has checked, or, a switch, where it is.                                 *)
EditPlaces(ed, i, col) ==
    ~col /\ ed.version = i.version =>
      /\ ed.place # NoForm => /\ After(i, ed.columns, "branch") = ed.place.branch
                              /\ After(i, ed.columns, "category") = ed.place.category
      /\ ed.place = NoForm => /\ After(i, ed.columns, "branch") = i.branch
                              /\ After(i, ed.columns, "category") = i.category

(* One that puts the item back was sent from a screen that showed it sold  *)
(* out.                                                                    *)
EditKnows(ed, f) ==
    "available" \in DOMAIN ed.columns /\ ed.columns["available"]
      => f # NoForm /\ ~f.available

CardEdits(edits, forms, cat, i, m, col) ==
    \A e \in Editor : edits[e] # NoForm =>
      /\ EditColumnsType(edits[e])
      /\ edits[e].place # NoForm => PlaceKnown(edits[e].place, cat, m)
      /\ EditPlaces(edits[e], i, col)
      /\ ~col => edits[e].version <= i.version /\ EditKnows(edits[e], forms[e])

(* Until two edits collide, a version has one content.                     *)
CardForms(forms, i, col) ==
    ~col => \A e \in Editor : forms[e] # NoForm =>
              /\ forms[e].version <= i.version
              /\ forms[e].version = i.version => forms[e] = i

CardIInv ==
    /\ category \in [Category -> Span] /\ item \in ItemType
    /\ form \in [Editor -> ItemType \cup {NoForm}]
    /\ edit = [e \in Editor |-> edit[e]]
    /\ moves \in [Category -> 0..MaxMoves] /\ collided \in BOOLEAN
    /\ CardEdits(edit, form, category, item, moves, collided)
    /\ CardForms(form, item, collided)
    /\ PlaceKnown(vetted, category, moves)
    /\ PlacedAsChecked

(* The item a commit leaves, column by column.                             *)
LEMMA ChangedColumns ==
    ASSUME item \in ItemType, NEW ed, EditColumnsType(ed)
    PROVE  /\ Changed(ed.columns) \in ItemType
           /\ Changed(ed.columns).version = ed.version + 1
           /\ Changed(ed.columns).branch = After(item, ed.columns, "branch")
           /\ Changed(ed.columns).category = After(item, ed.columns, "category")
           /\ Changed(ed.columns).available = After(item, ed.columns, "available")
<1>1. ed.version + 1 \in 1..MaxCardVersion
  BY CardAssumption DEF EditColumnsType
<1> QED
  BY <1>1 DEF Changed, EditColumnsType, ItemType, After

(* The invariant gives the card's properties.                            *)
LEMMA CardImplied == CardIInv => CardTypeOK /\ PlacedAsChecked /\ StrandedByCategoryOnly
<1> SUFFICES ASSUME CardIInv PROVE CardTypeOK /\ StrandedByCategoryOnly
  BY DEF CardIInv
<1>1. ASSUME NEW e \in Editor, edit[e] # NoForm
      PROVE  /\ edit[e].version \in 1..MaxCardVersion
             /\ Changed(edit[e].columns) \in ItemType
             /\ edit[e].place \in PlaceType \cup {NoForm}
  <2>1. EditColumnsType(edit[e]) /\ item \in ItemType
    BY <1>1 DEF CardIInv, CardEdits
  <2>2. Changed(edit[e].columns) \in ItemType
    BY <2>1, ChangedColumns
  <2>3. edit[e].version \in 1..MaxCardVersion
    BY <2>1, CardAssumption DEF EditColumnsType
  <2>4. edit[e].place \in PlaceType \cup {NoForm}
    BY <1>1 DEF CardIInv, CardEdits, PlaceKnown
  <2> QED
    BY <2>2, <2>3, <2>4
<1>2. CardTypeOK
  BY <1>1 DEF CardIInv, CardTypeOK, PlaceKnown
<1>3. StrandedByCategoryOnly
  <2> SUFFICES ASSUME item.category = vetted.category, item.branch = vetted.branch,
                      ~(vetted.moves < moves[item.category])
               PROVE  category[item.category] \in {Everywhere, item.branch}
    BY DEF StrandedByCategoryOnly
  <2>1. vetted.moves \in Nat /\ vetted.category \in Category
    BY CardAssumption DEF CardIInv, PlaceKnown, PlaceType
  <2>2. moves[vetted.category] \in Nat
    BY <2>1, CardAssumption DEF CardIInv
  <2>3. vetted.moves = moves[vetted.category]
    BY <2>1, <2>2 DEF CardIInv, PlaceKnown
  <2> QED
    BY <2>3 DEF CardIInv, PlaceKnown
<1> QED
  BY <1>2, <1>3

(* The invariant holds at first.                                         *)
LEMMA CardStart == CardInit => CardIInv
<1> SUFFICES ASSUME CardInit PROVE CardIInv
  OBVIOUS
<1>1. item \in ItemType
  BY CardAssumption DEF CardInit, ItemType, Span
<1>2. CardEdits(edit, form, category, item, moves, collided)
  BY DEF CardInit, CardEdits
<1>3. CardForms(form, item, collided)
  BY DEF CardInit, CardForms
<1>4. category \in [Category -> Span]
  BY DEF CardInit, Span
<1>5. 0 \in 0..MaxMoves
  BY CardAssumption
<1>6. moves \in [Category -> 0..MaxMoves]
  BY <1>5 DEF CardInit
<1>7. PlaceKnown(vetted, category, moves)
  <2>1. /\ vetted = [branch |-> Everywhere, category |-> FirstCategory, moves |-> 0]
        /\ category[FirstCategory] = Everywhere /\ moves[FirstCategory] = 0
    BY CardAssumption DEF CardInit
  <2>2. vetted \in PlaceType
    BY <1>5, <2>1, CardAssumption DEF PlaceType, Span
  <2> QED
    BY <2>1, <2>2 DEF PlaceKnown
<1>8. PlacedAsChecked
  BY DEF CardInit, PlacedAsChecked
<1>9. /\ form \in [Editor -> ItemType \cup {NoForm}]
      /\ edit = [e \in Editor |-> edit[e]]
  BY DEF CardInit
<1>10. collided \in BOOLEAN
  BY Zenon DEF CardInit
<1> QED
  BY <1>1, <1>2, <1>3, <1>4, <1>6, <1>7, <1>8, <1>9, <1>10 DEF CardIInv

(* LoadForm keeps the invariant.                                         *)
LEMMA LoadFormKeeps ==
    ASSUME CardIInv, NEW e \in Editor, LoadForm(e)
    PROVE  CardIInv'
<1> USE DEF CardIInv, LoadForm
<1>1. CardEdits(edit, form, category, item, moves, collided)'
  BY DEF CardEdits
<1>2. CardForms(form, item, collided)'
  BY DEF CardForms, ItemType
<1>3. PlacedAsChecked'
  BY DEF PlacedAsChecked
<1> QED
  BY <1>1, <1>2, <1>3

(* A new edit is what it must be if it has checked the place it leaves     *)
(* the item in, or leaves it where it is.                                  *)
LEMMA EditBegun ==
    ASSUME CardIInv, NEW e \in Editor, NEW ed, NEW place,
           NEW new \in ItemType,
           ed = [version |-> item.version, place |-> place, columns |-> CardColumns(new)],
           new.version = item.version + 1, item.version < MaxCardVersion,
           place # NoForm => /\ PlaceKnown(place, category, moves)
                             /\ new.branch = place.branch /\ new.category = place.category,
           place = NoForm => new.branch = item.branch /\ new.category = item.category,
           form[e] # NoForm, form[e].version = item.version,
           edit' = [edit EXCEPT ![e] = ed],
           UNCHANGED <<category, item, form, moves, vetted, collided>>
    PROVE  CardIInv'
<1> USE DEF CardIInv
<1> DEFINE cols == ed.columns
<1>1. /\ DOMAIN cols = {c \in {"branch", "category", "available", "version"} : new[c] # item[c]}
      /\ \A c \in DOMAIN cols : cols[c] = new[c]
      /\ ed.version = item.version /\ ed.place = place
  BY DEF CardColumns, ItemType
<1>2. item.version \in Nat /\ item.version >= 1 /\ new["version"] # item["version"]
  BY DEF ItemType
<1> HIDE DEF cols
<1>3. EditColumnsType(ed)
  <2>1. ed.version \in 1..(MaxCardVersion - 1)
    BY <1>1, <1>2, CardAssumption
  <2> QED
    BY <1>1, <1>2, <2>1 DEF EditColumnsType, ItemType, cols
<1>4. EditPlaces(ed, item, collided)
  <2>1. /\ After(item, cols, "branch") = new.branch
        /\ After(item, cols, "category") = new.category
    BY <1>1 DEF After
  <2> QED
    BY <1>1, <2>1 DEF EditPlaces, cols
<1>5. ~collided => EditKnows(ed, form[e])
  <2> SUFFICES ASSUME ~collided PROVE EditKnows(ed, form[e])
    OBVIOUS
  <2>1. form[e] = item
    BY DEF CardForms
  <2>2. "available" \in DOMAIN cols /\ cols["available"] => ~item.available
    BY <1>1 DEF ItemType
  <2> QED
    BY <2>1, <2>2 DEF EditKnows, cols
<1>6. CardEdits(edit, form, category, item, moves, collided)'
  <2>1. ASSUME NEW d \in Editor, d # e PROVE edit'[d] = edit[d]
    BY <2>1
  <2>2. edit'[e] = ed /\ edit' = [d \in Editor |-> edit'[d]]
    OBVIOUS
  <2> QED
    BY <1>1, <1>2, <1>3, <1>4, <1>5, <2>1, <2>2 DEF CardEdits
<1>7. PlacedAsChecked'
  BY DEF PlacedAsChecked
<1> QED
  BY <1>6, <1>7

(* BeginUpdate keeps the invariant.                                      *)
LEMMA BeginUpdateKeeps ==
    ASSUME CardIInv, NEW e \in Editor, NEW b \in Span, NEW c \in Category,
           NEW a \in BOOLEAN, BeginUpdate(e, b, c, a)
    PROVE  CardIInv'
<1> DEFINE new == [branch |-> b, category |-> c, available |-> a,
                   version |-> item.version + 1]
           place == [branch |-> b, category |-> c, moves |-> moves[c]]
           ed == [version |-> item.version, place |-> place,
                  columns |-> CardColumns(new)]
<1>1. item.version + 1 \in 1..MaxCardVersion
  BY CardAssumption DEF CardIInv, ItemType, BeginUpdate
<1>2. /\ new \in ItemType /\ new.version = item.version + 1
      /\ new.branch = place.branch /\ new.category = place.category
  BY <1>1 DEF ItemType
<1>3. edit' = [edit EXCEPT ![e] = ed]
  BY DEF BeginUpdate
<1>4. /\ form[e] # NoForm /\ form[e].version = item.version
      /\ item.version < MaxCardVersion
      /\ UNCHANGED <<category, item, form, moves, vetted, collided>>
  BY DEF BeginUpdate, FormCurrent
<1>5. PlaceKnown(place, category, moves)
  <2>1. moves[c] \in 0..MaxMoves
    BY DEF CardIInv
  <2>2. place \in PlaceType
    BY <2>1 DEF PlaceType
  <2>3. category[c] # Everywhere => b = category[c]
    BY DEF BeginUpdate, Fits
  <2> QED
    BY <2>1, <2>2, <2>3 DEF PlaceKnown
<1>6. place # NoForm
  <2>1. place \in PlaceType
    BY <1>5 DEF PlaceKnown
  <2> QED
    BY <2>1, NoFormAssumption
<1> HIDE DEF new, place
<1>7. ed = [version |-> item.version, place |-> place, columns |-> CardColumns(new)]
  OBVIOUS
<1> HIDE DEF ed
<1> QED
  BY <1>2, <1>3, <1>4, <1>5, <1>6, <1>7, EditBegun

(* BeginSwitch keeps the invariant.                                      *)
LEMMA BeginSwitchKeeps ==
    ASSUME CardIInv, NEW e \in Editor, NEW a \in BOOLEAN, BeginSwitch(e, a)
    PROVE  CardIInv'
<1> DEFINE new == [item EXCEPT !.available = a, !.version = item.version + 1]
           ed == [version |-> item.version, place |-> NoForm,
                  columns |-> CardColumns(new)]
<1>1. item.version + 1 \in 1..MaxCardVersion
  BY CardAssumption DEF CardIInv, ItemType, BeginSwitch
<1>2. /\ new \in ItemType /\ new.version = item.version + 1
      /\ new.branch = item.branch /\ new.category = item.category
  BY <1>1 DEF ItemType, CardIInv
<1>3. edit' = [edit EXCEPT ![e] = ed]
  BY DEF BeginSwitch
<1>4. /\ form[e] # NoForm /\ form[e].version = item.version
      /\ item.version < MaxCardVersion
      /\ UNCHANGED <<category, item, form, moves, vetted, collided>>
  BY DEF BeginSwitch, FormCurrent
<1> HIDE DEF new
<1>5. ed = [version |-> item.version, place |-> NoForm, columns |-> CardColumns(new)]
  OBVIOUS
<1> HIDE DEF ed
<1> QED
  BY <1>2, <1>3, <1>4, <1>5, EditBegun

(* CommitItem keeps the invariant.                                       *)
LEMMA CommitItemKeeps ==
    ASSUME CardIInv, NEW e \in Editor, CommitItem(e)
    PROVE  CardIInv'
<1> USE DEF CardIInv
<1> DEFINE ed == edit[e]
           fresh == ed.version = item.version
<1>1. /\ ed # NoForm
      /\ item' = Changed(ed.columns)
      /\ collided' = (collided \/ ~fresh)
      /\ vetted' = IF ed.place = NoForm THEN vetted ELSE ed.place
      /\ edit' = [edit EXCEPT ![e] = NoForm] /\ form' = [form EXCEPT ![e] = NoForm]
      /\ category' = category /\ moves' = moves
  BY DEF CommitItem
<1>2. /\ EditColumnsType(ed) /\ EditPlaces(ed, item, collided)
      /\ ed.place # NoForm => PlaceKnown(ed.place, category, moves)
  BY <1>1 DEF CardEdits
<1>3. /\ item' \in ItemType /\ item'.version = ed.version + 1
      /\ item'.branch = After(item, ed.columns, "branch")
      /\ item'.category = After(item, ed.columns, "category")
  BY <1>1, <1>2, ChangedColumns
<1>4. ed.version \in Nat /\ item.version \in Nat
  BY <1>2, CardAssumption DEF EditColumnsType, ItemType
<1>5. PlaceKnown(vetted', category', moves') /\ collided' \in BOOLEAN
  BY <1>1, <1>2
<1>6. PlacedAsChecked'
  <2> SUFFICES ASSUME ~collided'
               PROVE  item'.branch = vetted'.branch /\ item'.category = vetted'.category
    BY DEF PlacedAsChecked
  <2>1. ~collided /\ fresh /\ item.branch = vetted.branch /\ item.category = vetted.category
    BY <1>1 DEF PlacedAsChecked
  <2> QED
    BY <1>1, <1>2, <1>3, <2>1 DEF EditPlaces
<1>7. ~collided' => ~collided /\ item'.version = item.version + 1
  BY <1>1, <1>3
<1>8. CardForms(form, item, collided)'
  <2> SUFFICES ASSUME ~collided', NEW d \in Editor, form'[d] # NoForm
               PROVE  form'[d].version <= item'.version /\ form'[d].version # item'.version
    BY DEF CardForms
  <2>1. form'[d] = form[d] /\ form[d] # NoForm
    BY <1>1
  <2>2. form[d].version <= item.version /\ form[d].version \in Nat
    BY <1>7, <2>1 DEF CardForms, ItemType
  <2> QED
    BY <1>4, <1>7, <2>1, <2>2
<1>9. CardEdits(edit, form, category, item, moves, collided)'
  <2> SUFFICES ASSUME NEW d \in Editor, edit'[d] # NoForm
               PROVE  /\ EditColumnsType(edit'[d])
                      /\ edit'[d].place # NoForm => PlaceKnown(edit'[d].place, category, moves)
                      /\ EditPlaces(edit'[d], item', collided')
                      /\ ~collided' => /\ edit'[d].version <= item'.version
                                       /\ EditKnows(edit'[d], form'[d])
    BY <1>1 DEF CardEdits
  <2>1. edit'[d] = edit[d] /\ edit[d] # NoForm /\ form'[d] = form[d]
    BY <1>1
  <2>2. /\ EditColumnsType(edit[d])
        /\ edit[d].place # NoForm => PlaceKnown(edit[d].place, category, moves)
        /\ ~collided => edit[d].version <= item.version /\ EditKnows(edit[d], form[d])
    BY <2>1 DEF CardEdits
  <2>3. edit[d].version \in Nat
    BY <2>2, CardAssumption DEF EditColumnsType
  <2>4. ~collided' => edit[d].version <= item'.version /\ edit[d].version # item'.version
    BY <1>4, <1>7, <2>2, <2>3
  <2> QED
    BY <1>7, <2>1, <2>2, <2>4 DEF EditPlaces
<1> QED
  BY <1>1, <1>3, <1>5, <1>6, <1>8, <1>9

(* UpdateMenuCategory keeps the invariant.                               *)
LEMMA UpdateMenuCategoryKeeps ==
    ASSUME CardIInv, NEW c \in Category, NEW b \in Span, UpdateMenuCategory(c, b)
    PROVE  CardIInv'
<1> USE DEF CardIInv, UpdateMenuCategory
<1>1. /\ moves' \in [Category -> 0..MaxMoves] /\ category' \in [Category -> Span]
      /\ \A x \in Category : x # c => moves'[x] = moves[x] /\ category'[x] = category[x]
      /\ moves'[c] = moves[c] + 1 /\ moves[c] \in Nat
  BY CardAssumption
<1>2. ASSUME NEW p, PlaceKnown(p, category, moves)
      PROVE  PlaceKnown(p, category', moves')
  <2>1. p.category \in Category /\ p.moves \in Nat /\ p \in PlaceType
    BY <1>2, CardAssumption DEF PlaceKnown, PlaceType
  <2>2. CASE p.category = c
    BY <1>1, <1>2, <2>1, <2>2 DEF PlaceKnown
  <2>3. CASE p.category # c
    BY <1>1, <1>2, <2>1, <2>3 DEF PlaceKnown
  <2> QED
    BY <2>2, <2>3
<1>3. CardEdits(edit, form, category, item, moves, collided)'
  <2> SUFFICES ASSUME NEW d \in Editor, edit[d] # NoForm, edit[d].place # NoForm
               PROVE  PlaceKnown(edit[d].place, category', moves')
    BY DEF CardEdits
  <2>1. PlaceKnown(edit[d].place, category, moves)
    BY DEF CardEdits
  <2> QED
    BY <1>2, <2>1
<1>4. PlacedAsChecked'
  BY DEF PlacedAsChecked
<1>5. PlaceKnown(vetted, category', moves')
  BY <1>2
<1> QED
  BY <1>1, <1>3, <1>4, <1>5

(* Every step keeps the invariant, action by action.                     *)
LEMMA CardStep == CardIInv /\ [CardNext]_cardVars => CardIInv'
<1> SUFFICES ASSUME CardIInv, [CardNext]_cardVars PROVE CardIInv'
  OBVIOUS
<1>1. CASE CardNext
  BY <1>1, LoadFormKeeps, BeginUpdateKeeps, BeginSwitchKeeps, CommitItemKeeps,
     UpdateMenuCategoryKeeps DEF CardNext
<1>2. CASE UNCHANGED cardVars
  BY <1>2 DEF cardVars, CardIInv, PlacedAsChecked
<1> QED
  BY <1>1, <1>2

(* Only the commit of an edit that knows puts a sold-out item back.        *)
LEMMA SoldOutStep ==
    ASSUME CardIInv, CardNext, ~item.available, item'.available, ~collided
    PROVE  \E e \in Editor : edit[e] # NoForm /\ edit'[e] = NoForm
                              /\ form[e] # NoForm /\ ~form[e].available
<1>1. PICK e \in Editor : CommitItem(e)
  BY DEF CardNext, LoadForm, BeginUpdate, BeginSwitch, UpdateMenuCategory
<1>2. /\ edit[e] # NoForm /\ EditColumnsType(edit[e]) /\ EditKnows(edit[e], form[e])
      /\ item \in ItemType
  BY <1>1 DEF CommitItem, CardIInv, CardEdits
<1>3. After(item, edit[e].columns, "available")
  BY <1>1, <1>2, ChangedColumns DEF CommitItem
<1>4. edit'[e] = NoForm
  BY <1>1 DEF CommitItem, CardIInv
<1> QED
  BY <1>2, <1>3, <1>4 DEF After, EditKnows

(* The menu card holds for any number of editors and categories: an item *)
(* stays where its last form was checked, in a category of its branch,   *)
(* and a sold-out mark is not undone by someone who has not seen it,     *)
(* unless two edits collided or a category moved (update_menu_item,      *)
(* update_menu_category).                                                *)
THEOREM CardAlwaysHolds == CardSpec => CardHolds
<1>1. CardIInv /\ [CardNext]_cardVars =>
        [~item.available /\ item'.available /\ ~collided
         => \E e \in Editor : edit[e] # NoForm /\ edit'[e] = NoForm
                              /\ form[e] # NoForm /\ ~form[e].available]_cardVars
  BY SoldOutStep
<1> QED
  BY <1>1, CardStart, CardStep, CardImplied, PTL DEF CardSpec, CardHolds, SoldOutStays

-----------------------------------------------------------------------------
(*************************************************************************)
(* Cloud orders.  Unless publications raced, the one under way has seen  *)
(* every active one.  Each attempt past its reads carries the price of   *)
(* the publication that its key has scanned, which is settled, and every *)
(* command of the queue that is an order has that order behind it.       *)
(*************************************************************************)

TryType == [at : {"new", "read", "answered"}, price : Price \cup {Nothing},
        answer : Attempt \cup {Nothing, "conflict", "not found"}]

(* Unless publications raced: one is under way at most, it has seen every  *)
(* active one, and with none under way a single one is active.             *)
OneAtATime ==
    ~raced =>
      /\ \A p, q \in InState("staging") : p = q
      /\ \A p \in InState("staging"), q \in Active : q \in snapshot[p].sees
      /\ InState("staging") = {} => \A p, q \in Active : p = q

(* What a guest has scanned had been published, so its price is settled.   *)
ScannedSent ==
    \A k \in Key : scanned[k] # Nothing => snapshot[scanned[k]].state # "none"

(* An attempt past its reads, or answered with its own order, carries the  *)
(* price of the publication scanned with its key.                          *)
PriceRead ==
    \A a \in Attempt :
      a \in orders \/ tries[a].at = "read" =>
        /\ scanned[KeyOf[a]] # Nothing
        /\ tries[a].price = snapshot[scanned[KeyOf[a]]].price

(* An order is the answer of its attempt, a command for an order has an    *)
(* order, and the hub knows no command that is not in the queue.           *)
CommandsReal ==
    /\ queue \in Seq(Command)
    /\ \A o \in orders : tries[o].at = "answered"
    /\ Range(queue) \cap Attempt \subseteq orders
    /\ \A c \in Command : inbox[c] # "absent" => c \in Range(queue)

TradeHolds == ScannedSent /\ PriceRead /\ CommandsReal /\ AnswersMatch /\ PriceAgreed

CloudIInv == TypeOK /\ OneAtATime /\ TradeHolds

(* A set with no two members has one at most.                            *)
LEMMA AtMostOne ==
    ASSUME NEW S, \A p, q \in S : p = q
    PROVE  Cardinality(S) <= 1
<1>1. CASE S = {}
  BY <1>1, FS_EmptySet
<1>2. CASE S # {}
  <2>1. PICK p : p \in S
    BY <1>2
  <2>2. S = {p}
    BY <2>1
  <2>3. Cardinality({p}) = 1
    BY FS_Singleton
  <2> QED
    BY <2>2, <2>3
<1> QED
  BY <1>1, <1>2

(* The invariant gives the properties.                                   *)
LEMMA CloudImplied == CloudIInv => AsAgreed
<1> SUFFICES ASSUME CloudIInv PROVE AsAgreed
  OBVIOUS
<1>1. OneMenu
  BY AtMostOne DEF CloudIInv, OneAtATime, OneMenu
<1> QED
  BY <1>1 DEF CloudIInv, TradeHolds, AsAgreed

(* What the assumption says of the names.                                *)
LEMMA NamesApart ==
    /\ "conflict" \notin Attempt /\ "not found" \notin Attempt /\ Nothing \notin Attempt
    /\ Attempt \cap Reference = {} /\ Nothing \notin Publication
    /\ \A a \in Attempt : KeyOf[a] \in Key
BY CloudAssumption DEF Key

(* The invariant holds at first.                                         *)
LEMMA CloudStart == Init => CloudIInv
<1> SUFFICES ASSUME Init PROVE CloudIInv
  OBVIOUS
<1>1. TypeOK
  <2>1. snapshot \in [Publication -> Snapshot]
    BY DEF Init, Snapshot
  <2>2. tries \in [Attempt -> TryType]
    BY DEF Init, TryType
  <2>3. Range(queue) = {}
    BY DEF Init, Range
  <2> QED
    BY <2>1, <2>2, <2>3 DEF Init, TypeOK, TryType
<1>2. OneAtATime
  BY DEF Init, OneAtATime, InState, Active
<1>3. TradeHolds
  <2>1. Range(queue) = {} /\ queue \in Seq(Command)
    BY DEF Init, Range
  <2>2. ScannedSent /\ PriceRead /\ PriceAgreed
    BY NamesApart DEF Init, ScannedSent, PriceRead, PriceAgreed
  <2>3. AnswersMatch
    BY NamesApart DEF Init, AnswersMatch
  <2>4. CommandsReal
    BY <2>1 DEF Init, CommandsReal
  <2> QED
    BY <2>2, <2>3, <2>4 DEF TradeHolds
<1> QED
  BY <1>1, <1>2, <1>3 DEF CloudIInv

(* A publication moves on and keeps its price: nothing else is disturbed.  *)
LEMMA TradeKeeps ==
    ASSUME CloudIInv, snapshot' \in [Publication -> Snapshot],
           \A p \in Publication : snapshot[p].state # "none" =>
             /\ snapshot[p].state' # "none" /\ snapshot[p].price' = snapshot[p].price,
           UNCHANGED <<hubVars, scanned, tries, orders, queue, acked>>, raced' \in BOOLEAN
    PROVE  TypeOK' /\ TradeHolds'
<1> USE DEF CloudIInv, TradeHolds
<1>1. TypeOK'
  BY DEF TypeOK, hubVars
<1>2. \A k \in Key : scanned[k] \in Publication \cup {Nothing}
  BY DEF TypeOK
<1>3. ScannedSent'
  BY <1>2 DEF ScannedSent
<1>4. \A k \in Key : scanned[k] # Nothing =>
        snapshot[scanned[k]].price' = snapshot[scanned[k]].price
  BY <1>2 DEF ScannedSent
<1>5. PriceRead'
  BY <1>4, NamesApart DEF PriceRead
<1>6. CommandsReal' /\ AnswersMatch'
  BY DEF CommandsReal, AnswersMatch, hubVars
<1>7. PriceAgreed'
  BY <1>4, NamesApart DEF PriceAgreed, PriceRead, hubVars
<1> QED
  BY <1>1, <1>3, <1>5, <1>6, <1>7

(* Build keeps the invariant.                                            *)
LEMMA BuildKeeps ==
    ASSUME CloudIInv, NEW p \in Publication, BuildPublication(p)
    PROVE  CloudIInv'
<1> DEFINE s == [state |-> "sent", price |-> hub, sees |-> {}]
<1>1. /\ snapshot' = [snapshot EXCEPT ![p] = s] /\ snapshot[p].state = "none"
      /\ UNCHANGED <<hubVars, raced, scanned, tries, orders, queue, acked>>
  BY DEF BuildPublication
<1>2. s \in Snapshot /\ s.state = "sent"
  BY DEF CloudIInv, TypeOK, Snapshot
<1> HIDE DEF s
<1>3. snapshot \in [Publication -> Snapshot] /\ raced \in BOOLEAN
  BY DEF CloudIInv, TypeOK
<1>4. /\ snapshot' \in [Publication -> Snapshot] /\ snapshot[p]' = s
      /\ \A q \in Publication : q # p => snapshot[q]' = snapshot[q]
  BY <1>1, <1>2, <1>3
<1>5. TypeOK' /\ TradeHolds'
  BY <1>1, <1>3, <1>4, TradeKeeps
<1>6. InState("staging")' = InState("staging") /\ Active' = Active
  BY <1>1, <1>2, <1>4 DEF InState, Active
<1>7. p \notin InState("staging")
  BY <1>1 DEF InState
<1>8. OneAtATime'
  BY <1>1, <1>4, <1>6, <1>7 DEF CloudIInv, OneAtATime, InState
<1> QED
  BY <1>5, <1>8 DEF CloudIInv

(* BeginPublish keeps the invariant.                                     *)
LEMMA BeginPublishKeeps ==
    ASSUME CloudIInv, NEW p \in Publication, BeginPublish(p)
    PROVE  CloudIInv'
<1> DEFINE s == [snapshot[p] EXCEPT !.state = "staging", !.sees = Seen(p)]
<1>1. snapshot \in [Publication -> Snapshot] /\ raced \in BOOLEAN
  BY DEF CloudIInv, TypeOK
<1>2. /\ snapshot' = [snapshot EXCEPT ![p] = s] /\ snapshot[p].state = "sent"
      /\ raced' = (InState("staging") # {})
      /\ UNCHANGED <<hubVars, scanned, tries, orders, queue, acked>>
  BY <1>1 DEF BeginPublish
<1>3. s \in Snapshot /\ s.state = "staging" /\ s.sees = Active /\ s.price = snapshot[p].price
  <2> DEFINE r == snapshot[p]
  <2>1. r \in Snapshot /\ Seen(p) = Active /\ Active \in SUBSET Publication
    BY <1>1 DEF Seen, Active, InState
  <2> HIDE DEF r
  <2>2. /\ [r EXCEPT !.state = "staging", !.sees = Seen(p)] \in Snapshot
        /\ [r EXCEPT !.state = "staging", !.sees = Seen(p)].state = "staging"
        /\ [r EXCEPT !.state = "staging", !.sees = Seen(p)].sees = Active
        /\ [r EXCEPT !.state = "staging", !.sees = Seen(p)].price = r.price
    BY <2>1 DEF Snapshot
  <2> QED
    BY <2>2 DEF r
<1> HIDE DEF s
<1>4. /\ snapshot' \in [Publication -> Snapshot] /\ snapshot[p]' = s
      /\ \A q \in Publication : q # p => snapshot[q]' = snapshot[q]
  BY <1>1, <1>2, <1>3
<1>5. raced' \in BOOLEAN
  BY <1>2
<1>6. TypeOK' /\ TradeHolds'
  BY <1>2, <1>3, <1>4, <1>5, TradeKeeps
<1>7. InState("staging")' = InState("staging") \cup {p} /\ Active' = Active
  BY <1>2, <1>3, <1>4 DEF InState, Active
<1>8. OneAtATime'
  BY <1>2, <1>3, <1>4, <1>7 DEF OneAtATime
<1> QED
  BY <1>6, <1>8 DEF CloudIInv

(* CommitPublish keeps the invariant.                                    *)
LEMMA CommitPublishKeeps ==
    ASSUME CloudIInv, NEW p \in Publication, CommitPublish(p)
    PROVE  CloudIInv'
<1> DEFINE s == [snapshot[p] EXCEPT !.state = "active", !.sees = {}]
           t(q) == [snapshot[q] EXCEPT !.state = "superseded"]
<1>1. snapshot \in [Publication -> Snapshot] /\ raced \in BOOLEAN
  BY DEF CloudIInv, TypeOK
<1>2. /\ snapshot' = [q \in Publication |->
            IF q = p THEN s
            ELSE IF q \in snapshot[p].sees THEN t(q) ELSE snapshot[q]]
      /\ snapshot[p].state = "staging"
      /\ UNCHANGED <<hubVars, raced, scanned, tries, orders, queue, acked>>
  BY DEF CommitPublish
<1>3. s \in Snapshot /\ s.state = "active" /\ s.price = snapshot[p].price
  <2> DEFINE r == snapshot[p]
  <2>1. r \in Snapshot /\ {} \in SUBSET Publication
    BY <1>1
  <2> HIDE DEF r
  <2>2. /\ [r EXCEPT !.state = "active", !.sees = {}] \in Snapshot
        /\ [r EXCEPT !.state = "active", !.sees = {}].state = "active"
        /\ [r EXCEPT !.state = "active", !.sees = {}].price = r.price
    BY <2>1 DEF Snapshot
  <2> QED
    BY <2>2 DEF r
<1>4. \A q \in Publication : /\ t(q) \in Snapshot /\ t(q).state = "superseded"
                             /\ t(q).price = snapshot[q].price
  BY <1>1 DEF Snapshot
<1> HIDE DEF s, t
<1>5. /\ snapshot' \in [Publication -> Snapshot] /\ snapshot[p]' = s
      /\ \A q \in Publication \ {p} :
           snapshot[q]' = IF q \in snapshot[p].sees THEN t(q) ELSE snapshot[q]
  BY <1>1, <1>2, <1>3, <1>4
<1>6. \A q \in Publication : snapshot[q].state # "none" =>
        snapshot[q].state' # "none" /\ snapshot[q].price' = snapshot[q].price
  BY <1>3, <1>4, <1>5
<1>7. TypeOK' /\ TradeHolds'
  BY <1>1, <1>2, <1>5, <1>6, TradeKeeps
<1>8. OneAtATime'
  <2> SUFFICES ASSUME ~raced
               PROVE  InState("staging")' = {} /\ Active' \subseteq {p}
    BY <1>2 DEF OneAtATime
  <2>1. p \in InState("staging")
    BY <1>2 DEF InState
  <2>2. InState("staging") \subseteq {p} /\ Active \subseteq snapshot[p].sees
    BY <2>1 DEF CloudIInv, OneAtATime
  <2>3. \A q \in Publication \ {p} : snapshot[q].state' \notin {"staging", "active"}
    BY <1>4, <1>5, <2>2 DEF InState, Active
  <2> QED
    BY <1>3, <1>5, <2>3 DEF InState, Active
<1> QED
  BY <1>7, <1>8 DEF CloudIInv

(* Scan keeps the invariant.                                             *)
LEMMA ScanKeeps ==
    ASSUME CloudIInv, NEW k \in Key, NEW p \in Publication, Scan(k, p)
    PROVE  CloudIInv'
<1> USE DEF CloudIInv, TradeHolds
<1>1. /\ scanned' = [scanned EXCEPT ![k] = p] /\ scanned[k] = Nothing
      /\ snapshot[p].state = "active"
      /\ UNCHANGED <<hubVars, snapshot, raced, tries, orders, queue, acked>>
  BY DEF Scan, Active, InState
<1>2. scanned \in [Key -> Publication \cup {Nothing}]
  BY DEF TypeOK
<1>3. /\ scanned' \in [Key -> Publication \cup {Nothing}] /\ scanned[k]' = p
      /\ \A j \in Key : scanned[j] # Nothing => scanned[j]' = scanned[j]
      /\ \A j \in Key : j # k => scanned[j]' = scanned[j]
  BY <1>1, <1>2
<1>4. TypeOK'
  BY <1>1, <1>3 DEF TypeOK, hubVars
<1>5. OneAtATime'
  BY <1>1 DEF OneAtATime, Active, InState
<1>6. ScannedSent'
  BY <1>1, <1>3 DEF ScannedSent
<1>7. PriceRead'
  BY <1>1, <1>3, NamesApart DEF PriceRead
<1>8. CommandsReal' /\ AnswersMatch'
  BY <1>1 DEF CommandsReal, AnswersMatch, hubVars
<1>9. PriceAgreed'
  BY <1>1, <1>3, NamesApart DEF PriceAgreed, PriceRead, hubVars
<1> QED
  BY <1>4, <1>5, <1>6, <1>7, <1>8, <1>9

(* An answer, of an attempt that made no order so far.                     *)
LEMMA AnswerShape ==
    ASSUME TypeOK, NEW a \in Attempt, NEW answer, Answered(a, answer),
           answer \in Attempt \cup {Nothing, "conflict", "not found"}
    PROVE  /\ tries' \in [Attempt -> TryType]
           /\ tries[a].at' = "answered" /\ tries[a].answer' = answer
           /\ tries[a].price' = tries[a].price
           /\ \A b \in Attempt : b # a => tries[b]' = tries[b]
<1> DEFINE t == [tries[a] EXCEPT !.at = "answered", !.answer = answer]
<1>1. tries \in [Attempt -> TryType]
  BY DEF TypeOK, TryType
<1>2. tries' = [tries EXCEPT ![a] = t]
  BY <1>1 DEF Answered
<1>3. /\ t \in TryType /\ t.at = "answered" /\ t.answer = answer
      /\ t.price = tries[a].price
  BY <1>1 DEF TryType
<1> HIDE DEF t
<1> QED
  BY <1>1, <1>2, <1>3

(* An attempt is answered with what others left: nothing new is stored.    *)
LEMMA AnsweredKeeps ==
    ASSUME CloudIInv, NEW a \in Attempt, NEW answer, Answered(a, answer), a \notin orders,
           \/ answer \in {"conflict", "not found"}
           \/ answer \in orders /\ KeyOf[answer] = KeyOf[a]
              /\ ContentOf[answer] = ContentOf[a],
           UNCHANGED <<hubVars, snapshot, raced, scanned, orders, queue, acked>>
    PROVE  CloudIInv'
<1> USE DEF CloudIInv, TradeHolds
<1>1. answer \in Attempt \cup {Nothing, "conflict", "not found"} /\ orders \subseteq Attempt
  BY DEF TypeOK
<1>2. /\ tries' \in [Attempt -> TryType]
      /\ tries[a].at' = "answered" /\ tries[a].answer' = answer
      /\ \A b \in Attempt : b # a => tries[b]' = tries[b]
  BY <1>1, AnswerShape
<1>3. TypeOK'
  BY <1>2 DEF TypeOK, TryType, hubVars
<1>4. OneAtATime' /\ ScannedSent' /\ PriceAgreed'
  BY DEF OneAtATime, Active, InState, ScannedSent, PriceAgreed, hubVars
<1>5. PriceRead'
  BY <1>2 DEF PriceRead
<1>6. CommandsReal'
  BY <1>1, <1>2 DEF CommandsReal, hubVars
<1>7. AnswersMatch'
  <2>1. \A o1, o2 \in orders : KeyOf[o1] = KeyOf[o2] => o1 = o2
    BY DEF AnswersMatch
  <2>2. ASSUME NEW b \in Attempt, tries[b].answer' \in Attempt
        PROVE  LET o == tries[b].answer' IN
               o \in orders /\ KeyOf[o] = KeyOf[b] /\ ContentOf[o] = ContentOf[b]
    <3>1. CASE b = a
      BY <1>2, <2>2, <3>1, NamesApart
    <3>2. CASE b # a
      BY <1>2, <2>2, <3>2 DEF AnswersMatch
    <3> QED
      BY <3>1, <3>2
  <2> QED
    BY <2>1, <2>2 DEF AnswersMatch
<1> QED
  BY <1>3, <1>4, <1>5, <1>6, <1>7

(* ReadForOrder keeps the invariant.                                     *)
LEMMA ReadForOrderKeeps ==
    ASSUME CloudIInv, NEW a \in Attempt, ReadForOrder(a)
    PROVE  CloudIInv'
<1> DEFINE p == scanned[KeyOf[a]]
           t == [tries[a] EXCEPT !.at = "read", !.price = snapshot[p].price]
<1>1. /\ tries[a].at = "new" /\ p # Nothing
      /\ UNCHANGED <<hubVars, snapshot, raced, scanned, orders, queue, acked>>
  BY DEF ReadForOrder
<1>2. a \notin orders
  BY <1>1 DEF CloudIInv, TradeHolds, CommandsReal
<1>3. CASE Answered(a, "not found")
  BY <1>1, <1>2, <1>3, AnsweredKeeps
<1>4. CASE \E o \in Prior(a) : Answered(a, Replayed(a, o))
  <2>1. PICK o \in orders : KeyOf[o] = KeyOf[a] /\ Answered(a, Replayed(a, o))
    BY <1>4 DEF Prior
  <2>2. \/ Replayed(a, o) \in {"conflict", "not found"}
        \/ /\ Replayed(a, o) \in orders /\ KeyOf[Replayed(a, o)] = KeyOf[a]
           /\ ContentOf[Replayed(a, o)] = ContentOf[a]
    BY <2>1 DEF Replayed
  <2> QED
    BY <1>1, <1>2, <2>1, <2>2, AnsweredKeeps
<1>5. CASE tries' = [tries EXCEPT ![a].at = "read", ![a].price = snapshot[p].price]
  <2>1. tries \in [Attempt -> TryType] /\ p \in Publication
    BY <1>1, NamesApart DEF CloudIInv, TypeOK, TryType
  <2>2. tries' = [tries EXCEPT ![a] = t]
    BY <1>5, <2>1
  <2>3. /\ t \in TryType /\ t.at = "read" /\ t.price = snapshot[p].price
        /\ t.answer = tries[a].answer
    BY <2>1 DEF CloudIInv, TypeOK, TryType, Snapshot
  <2> HIDE DEF t
  <2>4. /\ tries' \in [Attempt -> TryType] /\ tries[a]' = t
        /\ \A b \in Attempt : b # a => tries[b]' = tries[b]
    BY <2>1, <2>2, <2>3
  <2> USE DEF CloudIInv, TradeHolds
  <2>5. TypeOK'
    BY <1>1, <2>4 DEF TypeOK, TryType, hubVars
  <2>6. OneAtATime' /\ ScannedSent' /\ PriceAgreed'
    BY <1>1 DEF OneAtATime, Active, InState, ScannedSent, PriceAgreed, hubVars
  <2>7. PriceRead'
    BY <1>1, <2>3, <2>4 DEF PriceRead
  <2>8. orders \subseteq Attempt
    BY DEF TypeOK
  <2>9. CommandsReal'
    BY <1>1, <1>2, <2>4, <2>8 DEF CommandsReal, hubVars
  <2>10. \A b \in Attempt : tries[b].answer' = tries[b].answer
    BY <2>3, <2>4
  <2>11. AnswersMatch'
    BY <1>1, <2>10 DEF AnswersMatch
  <2> QED
    BY <2>5, <2>6, <2>7, <2>9, <2>11
<1> QED
  BY <1>3, <1>4, <1>5 DEF ReadForOrder

(* A command is appended to the queue.                                     *)
LEMMA Appended ==
    ASSUME queue \in Seq(Command), NEW c \in Command, queue' = Append(queue, c)
    PROVE  queue' \in Seq(Command) /\ Range(queue)' = Range(queue) \cup {c}
<1>1. /\ queue' \in Seq(Command) /\ Len(queue') = Len(queue) + 1
      /\ \A i \in 1..Len(queue) : queue'[i] = queue[i]
      /\ queue'[Len(queue) + 1] = c /\ Len(queue) \in Nat
  OBVIOUS
<1>2. DOMAIN queue' = 1..(Len(queue) + 1) /\ DOMAIN queue = 1..Len(queue)
  BY <1>1
<1>3. ASSUME NEW x \in Range(queue)' PROVE x \in Range(queue) \cup {c}
  <2>1. PICK i \in 1..(Len(queue) + 1) : queue'[i] = x
    BY <1>2 DEF Range
  <2>2. i \in 1..Len(queue) \/ i = Len(queue) + 1
    BY <1>1
  <2> QED
    BY <1>1, <1>2, <2>1, <2>2 DEF Range
<1>4. ASSUME NEW x \in Range(queue) \cup {c} PROVE x \in Range(queue)'
  <2>1. CASE x = c
    <3>1. Len(queue) + 1 \in DOMAIN queue'
      BY <1>1, <1>2
    <3> QED
      BY <1>1, <2>1, <3>1 DEF Range
  <2>2. CASE x \in Range(queue)
    <3>1. PICK i \in 1..Len(queue) : queue[i] = x
      BY <1>2, <2>2 DEF Range
    <3>2. i \in DOMAIN queue'
      BY <1>1, <1>2
    <3> QED
      BY <1>1, <3>1, <3>2 DEF Range
  <2> QED
    BY <2>1, <2>2
<1> QED
  BY <1>1, <1>3, <1>4

(* InsertOrder keeps the invariant.                                      *)
LEMMA InsertOrderKeeps ==
    ASSUME CloudIInv, NEW a \in Attempt, InsertOrder(a)
    PROVE  CloudIInv'
<1>1. /\ tries[a].at = "read"
      /\ UNCHANGED <<hubVars, snapshot, raced, scanned, acked>>
  BY DEF InsertOrder
<1>2. a \notin orders
  BY <1>1 DEF CloudIInv, TradeHolds, CommandsReal
<1>3. CASE (\E o \in Rivals(a) : Answered(a, Replayed(a, o))) /\ UNCHANGED <<orders, queue>>
  <2>1. PICK o \in orders : KeyOf[o] = KeyOf[a] /\ Answered(a, Replayed(a, o))
    BY <1>3 DEF Rivals, Prior
  <2>2. \/ Replayed(a, o) \in {"conflict", "not found"}
        \/ /\ Replayed(a, o) \in orders /\ KeyOf[Replayed(a, o)] = KeyOf[a]
           /\ ContentOf[Replayed(a, o)] = ContentOf[a]
    BY <2>1 DEF Replayed
  <2> QED
    BY <1>1, <1>2, <1>3, <2>1, <2>2, AnsweredKeeps
<1>4. CASE /\ Rivals(a) = {} /\ orders' = orders \cup {a} /\ queue' = Append(queue, a)
           /\ Answered(a, a)
  <2> USE DEF CloudIInv, TradeHolds
  <2>1. \A o \in orders : KeyOf[o] # KeyOf[a]
    BY <1>4 DEF Rivals, Prior
  <2>2. /\ tries' \in [Attempt -> TryType]
        /\ tries[a].at' = "answered" /\ tries[a].answer' = a
        /\ tries[a].price' = tries[a].price
        /\ \A b \in Attempt : b # a => tries[b]' = tries[b]
    BY <1>4, AnswerShape
  <2>3. queue' \in Seq(Command) /\ Range(queue)' = Range(queue) \cup {a}
    BY <1>4, Appended DEF CommandsReal, Command
  <2>4. orders \subseteq Attempt /\ acked \subseteq Range(queue) /\ Range(queue) \subseteq Command
    BY DEF TypeOK
  <2>5. TypeOK'
    BY <1>1, <1>4, <2>2, <2>3, <2>4 DEF TypeOK, TryType, hubVars, Command
  <2>6. OneAtATime' /\ ScannedSent'
    BY <1>1 DEF OneAtATime, Active, InState, ScannedSent
  <2>7. PriceRead'
    BY <1>1, <1>4, <2>2 DEF PriceRead
  <2>8. CommandsReal'
    BY <1>1, <1>4, <2>2, <2>3, <2>4 DEF CommandsReal, hubVars
  <2>9. AnswersMatch'
    BY <1>4, <2>1, <2>2, <2>4 DEF AnswersMatch
  <2>10. PriceAgreed'
    BY <1>1, <1>4 DEF PriceAgreed, hubVars
  <2> QED
    BY <2>5, <2>6, <2>7, <2>8, <2>9, <2>10
<1> QED
  BY <1>3, <1>4 DEF InsertOrder

(* CreateReference keeps the invariant.                                  *)
LEMMA CreateReferenceKeeps ==
    ASSUME CloudIInv, NEW r \in Reference, CreateReference(r)
    PROVE  CloudIInv'
<1> USE DEF CloudIInv, TradeHolds
<1>1. /\ queue' = Append(queue, r)
      /\ UNCHANGED <<hubVars, snapshot, raced, scanned, tries, orders, acked>>
  BY DEF CreateReference
<1>2. queue' \in Seq(Command) /\ Range(queue)' = Range(queue) \cup {r}
  BY <1>1, Appended DEF CommandsReal, Command
<1>3. r \notin Attempt
  BY NamesApart
<1>4. TypeOK'
  BY <1>1, <1>2 DEF TypeOK, hubVars, Command
<1>5. OneAtATime' /\ ScannedSent' /\ PriceRead' /\ AnswersMatch' /\ PriceAgreed'
  BY <1>1 DEF OneAtATime, Active, InState, ScannedSent, PriceRead, AnswersMatch,
     PriceAgreed, hubVars
<1>6. CommandsReal'
  BY <1>1, <1>2, <1>3 DEF CommandsReal, hubVars
<1> QED
  BY <1>4, <1>5, <1>6

(* Steps of the hub that book nothing.                                     *)
LEMMA HubKeeps ==
    ASSUME CloudIInv,
           \/ PullCommands \/ \E r \in Reference : ImportReference(r)
           \/ \E c \in Command : RetryImport(c)
           \/ \E h \in Price \cup {Nothing} : ChangeHub(h)
           \/ \E a \in Attempt : Acknowledge(a)
    PROVE  CloudIInv'
<1> USE DEF CloudIInv, TradeHolds
<1>1. UNCHANGED <<booked, snapshot, raced, scanned, tries, orders, queue>>
  BY DEF PullCommands, ImportReference, RetryImport, ChangeHub, Acknowledge,
     hubVars, cloudVars
<1>2. /\ OneAtATime' /\ ScannedSent' /\ PriceRead' /\ AnswersMatch' /\ PriceAgreed'
      /\ orders' \subseteq Attempt
  BY <1>1 DEF OneAtATime, Active, InState, ScannedSent, PriceRead, AnswersMatch,
     PriceAgreed, TypeOK
<1>3. Range(queue)' = Range(queue) /\ Range(queue) \subseteq Command
  BY <1>1 DEF TypeOK
<1>4. CASE PullCommands
  <2>1. Batch \subseteq Range(queue)
    BY DEF Batch, Outstanding, Range
  <2>2. /\ inbox' = [c \in Command |-> IF c \in {d \in Batch : inbox[d] = "absent"}
                                       THEN "pending" ELSE inbox[c]]
        /\ UNCHANGED <<hub, acked>>
    BY <1>4 DEF PullCommands, cloudVars
  <2>3. /\ inbox' \in [Command -> {"absent", "pending", "processed", "dead_letter"}]
        /\ \A c \in Command : inbox'[c] = inbox[c] \/ c \in Batch
    BY <2>2 DEF TypeOK
  <2>4. TypeOK'
    BY <1>1, <1>3, <2>2, <2>3 DEF TypeOK
  <2>5. CommandsReal'
    BY <1>1, <1>3, <2>1, <2>3 DEF CommandsReal
  <2> QED
    BY <1>2, <2>4, <2>5
<1>5. ASSUME NEW c \in Command, NEW state \in {"pending", "processed"},
             inbox[c] # "absent", inbox' = [inbox EXCEPT ![c] = state], UNCHANGED <<hub, acked>>
      PROVE  CloudIInv'
  <2>1. /\ inbox' \in [Command -> {"absent", "pending", "processed", "dead_letter"}]
        /\ \A d \in Command : inbox'[d] # "absent" => inbox[d] # "absent"
    BY <1>5 DEF TypeOK
  <2>2. TypeOK'
    BY <1>1, <1>3, <1>5, <2>1 DEF TypeOK
  <2>3. CommandsReal'
    BY <1>1, <1>3, <2>1 DEF CommandsReal
  <2> QED
    BY <1>2, <2>2, <2>3
<1>6. ASSUME NEW r \in Reference, ImportReference(r) PROVE CloudIInv'
  BY <1>5, <1>6 DEF ImportReference, Command, cloudVars
<1>7. ASSUME NEW c \in Command, RetryImport(c) PROVE CloudIInv'
  BY <1>5, <1>7 DEF RetryImport, cloudVars
<1>8. ASSUME NEW h \in Price \cup {Nothing}, ChangeHub(h) PROVE CloudIInv'
  <2>1. TypeOK' /\ CommandsReal'
    BY <1>1, <1>3, <1>8 DEF ChangeHub, cloudVars, TypeOK, CommandsReal
  <2> QED
    BY <1>2, <2>1
<1>9. ASSUME NEW a \in Attempt, Acknowledge(a) PROVE CloudIInv'
  <2>1. a \in Range(queue)
    BY <1>9 DEF Acknowledge, CommandsReal, Command
  <2>2. TypeOK' /\ CommandsReal'
    BY <1>1, <1>3, <1>9, <2>1 DEF Acknowledge, hubVars, TypeOK, CommandsReal
  <2> QED
    BY <1>2, <2>2
<1> QED
  BY <1>4, <1>6, <1>7, <1>8, <1>9

(* An import books the price of the hub, which is the one the order has.   *)
LEMMA ImportOrderKeeps ==
    ASSUME CloudIInv, NEW o, ImportOrder(o)
    PROVE  CloudIInv'
<1> USE DEF CloudIInv, TradeHolds
<1>1. /\ o \in Attempt /\ inbox[o] = "pending" /\ o \in Command
      /\ UNCHANGED <<hub, snapshot, raced, scanned, tries, orders, queue, acked>>
  BY DEF ImportOrder, cloudVars, Command
<1>2. /\ OneAtATime' /\ ScannedSent' /\ PriceRead' /\ AnswersMatch'
  BY <1>1 DEF OneAtATime, Active, InState, ScannedSent, PriceRead, AnswersMatch
<1>3. /\ inbox' \in [Command -> {"absent", "pending", "processed", "dead_letter"}]
      /\ \A d \in Command : inbox'[d] # "absent" => inbox[d] # "absent"
  BY <1>1 DEF ImportOrder, TypeOK
<1>4. /\ booked' \in [Attempt -> Price \cup {Nothing}]
      /\ \A b \in Attempt : b # o => booked'[b] = booked[b]
      /\ booked'[o] = booked[o] \/ booked'[o] = tries[o].price
  BY <1>1 DEF ImportOrder, Acceptable, TypeOK
<1>5. o \in orders
  BY <1>1 DEF CommandsReal
<1>6. TypeOK'
  BY <1>1, <1>3, <1>4 DEF TypeOK
<1>7. CommandsReal'
  BY <1>1, <1>3 DEF CommandsReal
<1>8. PriceAgreed'
  BY <1>1, <1>4, <1>5 DEF PriceAgreed, PriceRead
<1> QED
  BY <1>2, <1>6, <1>7, <1>8

(* Every step keeps the invariant, action by action.                     *)
LEMMA CloudStep == CloudIInv /\ [Next]_vars => CloudIInv'
<1> SUFFICES ASSUME CloudIInv, [Next]_vars PROVE CloudIInv'
  OBVIOUS
<1>1. CASE Next
  BY <1>1, BuildKeeps, BeginPublishKeeps, CommitPublishKeeps, ScanKeeps, ReadForOrderKeeps,
     InsertOrderKeeps, CreateReferenceKeeps, HubKeeps, ImportOrderKeeps
     DEF Next, Import, ImportReference
<1>2. CASE UNCHANGED vars
  BY <1>2 DEF vars, CloudIInv, TradeHolds, TypeOK, OneAtATime, Active, InState, ScannedSent, PriceRead,
     CommandsReal, AnswersMatch, PriceAgreed
<1> QED
  BY <1>1, <1>2

(* One menu, one order per key and one price from the menu to the hub,   *)
(* for any number of publications, guests and attempts and for queues of *)
(* any length (publish_menu_snapshot, create_cloud_order,                *)
(* import_cloud_cafe_order).                                             *)
THEOREM AlwaysAsAgreed == Spec => []AsAgreed
<1>1. Spec => []CloudIInv
  BY CloudStart, CloudStep, PTL DEF Spec
<1> QED
  BY <1>1, CloudImplied, PTL

(* Orders are never deleted.                                               *)
LEMMA OrdersGrow == [Next]_vars => orders \subseteq orders'
BY DEF Next, vars, cloudVars, hubVars, BuildPublication, BeginPublish, CommitPublish,
       Scan, ReadForOrder, InsertOrder, Acknowledge, CreateReference, PullCommands,
       Import, ImportOrder, ImportReference, RetryImport, ChangeHub

(* The hub knows an order, or a batch of commands is stuck.                *)
OrderArrived(o) ==
    inbox[o] # "absent" \/ Cardinality(Unacknowledged) >= BatchSize

(* OrdersArrive says no less than that every order leads to its arrival,   *)
(* because an order, once made, stays (create_cloud_order, pull_commands). *)
THEOREM ArrivalIsLedTo ==
    Spec => (OrdersArrive <=> \A o \in Attempt : o \in orders ~> OrderArrived(o))
<1>1. ASSUME NEW o \in Attempt
      PROVE  Spec => (     (<>[](o \in orders) => []<>OrderArrived(o))
                      <=> (o \in orders ~> OrderArrived(o)))
  <2>1. [Next]_vars => (o \in orders => (o \in orders)')
    BY OrdersGrow
  <2> QED
    BY <2>1, PTL DEF Spec
<1> QED
  BY <1>1 DEF OrdersArrive, OrderArrived
=============================================================================
