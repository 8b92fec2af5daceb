--------------------------- MODULE InvoiceNumbers ---------------------------
(***************************************************************************)
(* The numbers of invoices (services/business_settings.py,                 *)
(* generate_next_invoice_number and the administration of the sequences;   *)
(* services/invoices.py, create_draft_invoice_record).                     *)
(*                                                                         *)
(* A number is taken from a sequence row that stays locked until the       *)
(* transaction of the draft ends.  An admin's form writes every column of  *)
(* a row without looking at the invoices.                                  *)
(***************************************************************************)
EXTENDS Integers, FiniteSets

CONSTANTS Invoice, Clerk,
          Sequence,      \* the rows of invoice_sequences of one company
          Branch, CompanyWide, \* branch_id, or none
          Label,         \* prefix, padding and suffix together
          NumberText,    \* the number a label makes of a counter
          FirstRow,      \* the sequences as they were set up
          NoDraft,       \* a clerk who drafts nothing; an invoice not drafted
          MaxNumber,     \* bound: counters a sequence reaches
          MaxEdits       \* bound: forms the admins save

InvoiceType == {"gst_invoice", "non_gst_invoice"}

SequenceRow == [label : Label, type : InvoiceType,
                branch : Branch \cup {CompanyWide},
                next : 1..(MaxNumber + 1), active : BOOLEAN]

Texts == [l \in Label |-> {NumberText[l][n] : n \in 1..MaxNumber}]

Numbers == UNION {Texts[l] : l \in Label}

Draft == [invoice : Invoice, sequence : Sequence, seen : SUBSET Sequence,
          label : Label, next : 1..MaxNumber]

ASSUME NumbersAssumption ==
    /\ MaxNumber \in Nat \ {0} /\ MaxEdits \in Nat
    /\ FirstRow \in [Sequence -> SequenceRow]
    /\ \A l \in Label : \A m, n \in 1..MaxNumber :
         NumberText[l][m] = NumberText[l][n] => m = n
    /\ NoDraft \notin Numbers \cup Draft

VARIABLES
    sequence, \* invoice_sequences
    number,   \* invoices.invoice_number
    drafting, \* the drafts under way: the rows each has locked, and what it
              \* has read in the one it counts with
    edited,   \* history: sequences whose counter or label a form has changed
    worn,     \* history: the labels each sequence has had
    edits     \* the forms saved

numberVars == <<sequence, number, drafting, edited, worn, edits>>

NumbersTypeOK ==
    /\ sequence \in [Sequence -> SequenceRow]
    /\ number \in [Invoice -> Numbers \cup {NoDraft}]
    /\ drafting \in [Clerk -> Draft \cup {NoDraft}]
    /\ edited \subseteq Sequence
    /\ worn \in [Sequence -> SUBSET Label]
    /\ edits \in 0..MaxEdits

NumbersInit ==
    /\ sequence = FirstRow
    /\ number = [i \in Invoice |-> NoDraft]
    /\ drafting = [c \in Clerk |-> NoDraft]
    /\ edited = {}
    /\ worn = [s \in Sequence |-> {FirstRow[s].label}]
    /\ edits = 0

Used == {number[i] : i \in Invoice} \ {NoDraft}

(* The rows generate_next_invoice_number asks for.                         *)
Candidates(type, branch) ==
    {s \in Sequence : /\ sequence[s].active /\ sequence[s].type = type
                      /\ sequence[s].branch \in {branch, CompanyWide}}

(* It takes the branch's own before a company-wide one.                    *)
Picked(s, seen, branch) ==
    /\ s \in seen
    /\ sequence[s].branch = branch
         \/ \A t \in seen : sequence[t].branch # branch

(* A slip: the rows are not locked.                                        *)
RowFreeSlip(s) == TRUE

(* No draft under way holds the row.                                       *)
RowFree(s) == \A c \in Clerk : drafting[c] # NoDraft => s \notin drafting[c].seen

(* uq_invoices_company_invoice_number.                                     *)
Unused(n) == n \notin Used

NumberOf(d) == NumberText[d.label][d.next]

(* A slip: the counter is saved on its own, before the draft.              *)
CounterAfterSlip(s, n) == [sequence EXCEPT ![s].next = n + 2]

(* next_number += 1, on the value that was read.                           *)
CounterAfter(s, n) == [sequence EXCEPT ![s].next = n + 1]

-----------------------------------------------------------------------------
(* generate_next_invoice_number locks the rows it sees and reads one of    *)
(* them.  A row that an edit makes eligible while the statement waits for  *)
(* a lock is not among them.                                               *)
TakeNumber(c, i, type, branch, seen) ==
    /\ drafting[c] = NoDraft /\ number[i] = NoDraft
    /\ \A d \in Clerk : drafting[d] # NoDraft => drafting[d].invoice # i
    /\ seen \subseteq Candidates(type, branch)
    /\ \A s \in seen : RowFree(s)
    /\ \E s \in seen :
         /\ Picked(s, seen, branch)
         /\ sequence[s].next <= MaxNumber
         /\ drafting' = [drafting EXCEPT ![c] =
                [invoice |-> i, sequence |-> s, seen |-> seen,
                 label |-> sequence[s].label, next |-> sequence[s].next]]
    /\ UNCHANGED <<sequence, number, edited, worn, edits>>

(* create_draft_invoice_record commits number, counter and invoice; if the *)
(* number is taken it fails instead.                                       *)
CreateDraft(c) ==
    /\ drafting[c] # NoDraft
    /\ Unused(NumberOf(drafting[c]))
    /\ number' = [number EXCEPT ![drafting[c].invoice] = NumberOf(drafting[c])]
    /\ sequence' = CounterAfter(drafting[c].sequence, drafting[c].next)
    /\ drafting' = [drafting EXCEPT ![c] = NoDraft]
    /\ UNCHANGED <<edited, worn, edits>>

(* The draft fails: counter and invoice are rolled back.                   *)
RollBackDraft(c) ==
    /\ drafting[c] # NoDraft
    /\ drafting' = [drafting EXCEPT ![c] = NoDraft]
    /\ UNCHANGED <<sequence, number, edited, worn, edits>>

(* update_invoice_sequence writes the columns of its form that differ from *)
(* what it has read; the write waits for the row.  Any row may come of it, *)
(* for the form and the reading may both be old.                           *)
UpdateInvoiceSequence(s, row) ==
    /\ edits < MaxEdits
    /\ RowFree(s)
    /\ sequence' = [sequence EXCEPT ![s] = row]
    /\ edited' = IF row.next = sequence[s].next /\ row.label = sequence[s].label
                 THEN edited ELSE edited \cup {s}
    /\ worn' = [worn EXCEPT ![s] = worn[s] \cup {row.label}]
    /\ edits' = edits + 1
    /\ UNCHANGED <<number, drafting>>

NumbersNext ==
    \/ \E c \in Clerk, i \in Invoice, type \in InvoiceType, branch \in Branch,
          seen \in SUBSET Sequence : TakeNumber(c, i, type, branch, seen)
    \/ \E c \in Clerk : CreateDraft(c) \/ RollBackDraft(c)
    \/ \E s \in Sequence, row \in SequenceRow : UpdateInvoiceSequence(s, row)

NumbersSpec == NumbersInit /\ [][NumbersNext]_numberVars

-----------------------------------------------------------------------------
(* Numbers with the label of s come from s alone, and only by counting: no *)
(* form has changed its counter or label, and no other sequence has had a  *)
(* label that makes one of its numbers.  Its type, branch and flag may     *)
(* have been edited.                                                       *)
CountsAlone(s) ==
    /\ s \notin edited
    /\ \A t \in Sequence \ {s} : \A l \in worn[t] :
         Texts[l] \cap Texts[sequence[s].label] = {}

(* The numbers such a sequence has given run from its first to the one     *)
(* before the next, without gap: drafts that fail, clerks who draft at     *)
(* once, a branch that falls back to the company's sequence and a sequence *)
(* moved to another branch or type or switched off leave no hole.          *)
NumbersConsecutive ==
    \A s \in Sequence : CountsAlone(s) =>
        Used \cap Texts[sequence[s].label]
          = {NumberText[sequence[s].label][n] :
               n \in FirstRow[s].next..(sequence[s].next - 1)}

(* The unique index never refuses a draft of such a sequence: the number a *)
(* clerk holds stays free until the commit.  (A counter that was set back  *)
(* onto a used number fails every draft from then on, for the increment is *)
(* rolled back with the draft.)                                            *)
NumberStaysFree ==
    \A c \in Clerk : drafting[c] # NoDraft =>
        (CountsAlone(drafting[c].sequence) => Unused(NumberOf(drafting[c])))

(* Numbers are consecutive and never refused, in every sequence that has *)
(* its label to itself and whose counter and label no form has changed.  *)
NumbersHold == NumbersTypeOK /\ NumbersConsecutive /\ NumberStaysFree
=============================================================================
