----------------------------- MODULE CloudOrders -----------------------------
(***************************************************************************)
(* Cloud orders of one cafe branch, from the menu it publishes to the      *)
(* order the Local Hub imports: publication of menu snapshots              *)
(* (cafe_cloud_publication.py, cloud_coordination.py), idempotent creation *)
(* of orders and the queue of commands (hc3_cloud_orders.py, routes        *)
(* hc3_cloud.py), and the import (sync/cafe_orders.py).                    *)
(*                                                                         *)
(* Each request is one transaction in READ COMMITTED: it reads first and   *)
(* inserts later, and unique constraints decide between rivals.  The menu  *)
(* has one item; of an order its price and its content are kept.           *)
(***************************************************************************)
EXTENDS Integers, Sequences, FiniteSets, Functions

CONSTANTS Publication,  \* snapshots, by the version their builder gives them
          Attempt,      \* requests to create an order; a created order is
                        \* named after the attempt that inserted it
          KeyOf,        \* Idempotency-Key of each attempt
          ContentOf,    \* what it orders
          Reference,    \* continuity references
          Price, Nothing,
          BatchSize     \* sync_batch_size, the limit of a pull

ASSUME CloudAssumption ==
    /\ Publication \subseteq Nat
    /\ Attempt \cap (Reference \cup {Nothing, "conflict", "not found"}) = {}
    /\ Attempt \subseteq DOMAIN KeyOf /\ Attempt \subseteq DOMAIN ContentOf
    /\ BatchSize \in Nat \ {0}
    /\ Nothing \notin Price /\ Nothing \notin Publication

Key == {KeyOf[a] : a \in Attempt}
Command == Attempt \cup Reference

VARIABLES
    hub,       \* the hub's price, Nothing while it takes no orders: the QR
               \* code is revoked, the session closing, the item off the menu
    snapshot,  \* state of each publication in the cloud, and its price
    raced,     \* history: publications overlapped, and none began alone since
    scanned,   \* the publication the guest with each key has scanned
    tries,     \* the attempts: what they have read and how they were answered
    orders,    \* cloud_orders, with cloud_idempotency_keys
    queue,     \* sync_commands in recorded order
    acked,     \* those that are acknowledged
    inbox,     \* the hub's inbox
    booked     \* the price of each imported order

vars == <<hub, snapshot, raced, scanned, tries, orders, queue, acked, inbox,
          booked>>
cloudVars == <<snapshot, raced, scanned, tries, orders, queue, acked>>
hubVars == <<hub, inbox, booked>>

(* A row of published_menu_versions, from the time its payload is sent, with*)
(* what the publishing transaction has seen.                               *)
Snapshot ==
    [state : {"none", "sent", "staging", "active", "superseded"},
     price : Price \cup {Nothing},
     sees : SUBSET Publication]

TypeOK ==
    /\ hub \in Price \cup {Nothing}
    /\ snapshot \in [Publication -> Snapshot]
    /\ raced \in BOOLEAN
    /\ scanned \in [Key -> Publication \cup {Nothing}]
    /\ tries \in [Attempt -> [at : {"new", "read", "answered"},
                              price : Price \cup {Nothing},
                              answer : Attempt \cup {Nothing, "conflict",
                                                     "not found"}]]
    /\ orders \subseteq Attempt
    /\ Range(queue) \subseteq Command /\ acked \subseteq Range(queue)
    /\ inbox \in [Command -> {"absent", "pending", "processed",
                              "dead_letter"}]
    /\ booked \in [Attempt -> Price \cup {Nothing}]

Init ==
    /\ hub \in Price
    /\ snapshot = [p \in Publication |-> [state |-> "none", price |-> Nothing,
                                          sees |-> {}]]
    /\ raced = FALSE
    /\ scanned = [k \in Key |-> Nothing]
    /\ tries = [a \in Attempt |-> [at |-> "new", price |-> Nothing,
                                   answer |-> Nothing]]
    /\ orders = {}
    /\ queue = <<>> /\ acked = {}
    /\ inbox = [c \in Command |-> "absent"]
    /\ booked = [a \in Attempt |-> Nothing]

InState(state) == {p \in Publication : snapshot[p].state = state}
Active == InState("active")

-----------------------------------------------------------------------------
(* Publication.                                                            *)

(* build_cafe_publication reads the menu; push_menu_publication may deliver*)
(* it much later, or never.  Versions are supplied in order, and a menu    *)
(* with nothing to order is of no interest here.                           *)
BuildPublication(p) ==
    /\ snapshot[p].state = "none" /\ hub # Nothing
    /\ \A q \in Publication : q < p => snapshot[q].state # "none"
    /\ snapshot' = [snapshot EXCEPT ![p] = [state |-> "sent",
                                            price |-> hub,
                                            sees |-> {}]]
    /\ UNCHANGED <<hubVars, raced, scanned, tries, orders, queue, acked>>

(* A slip: the comparison of versions is the wrong way round.              *)
SeenSlip(p) == {q \in Active : q > p}

(* The versions the UPDATE of publish_menu_snapshot finds active.          *)
Seen(p) == Active

(* publish_menu_snapshot up to that UPDATE.                                *)
BeginPublish(p) ==
    /\ snapshot[p].state = "sent"
    /\ snapshot' = [snapshot EXCEPT ![p].state = "staging", ![p].sees = Seen(p)]
    /\ raced' = (InState("staging") # {})
    /\ UNCHANGED <<hubVars, scanned, tries, orders, queue, acked>>

(* Its commit.  A rival that committed meanwhile is not among the rows the *)
(* UPDATE found.                                                           *)
CommitPublish(p) ==
    /\ snapshot[p].state = "staging"
    /\ snapshot' = [q \in Publication |->
         IF q = p
         THEN [snapshot[p] EXCEPT !.state = "active", !.sees = {}]
         ELSE IF q \in snapshot[p].sees
              THEN [snapshot[q] EXCEPT !.state = "superseded"]
              ELSE snapshot[q]]
    /\ UNCHANGED <<hubVars, raced, scanned, tries, orders, queue, acked>>

(* A guest scans the code and is shown a publication that is active.       *)
Scan(k, p) ==
    /\ scanned[k] = Nothing /\ p \in Active
    /\ scanned' = [scanned EXCEPT ![k] = p]
    /\ UNCHANGED <<hubVars, snapshot, raced, tries, orders, queue, acked>>

-----------------------------------------------------------------------------
(* create_cloud_order.                                                     *)

(* The order that holds the key of an attempt.                             *)
Prior(a) == {o \in orders : KeyOf[o] = KeyOf[a]}

(* A slip: the answer is the content itself.                               *)
ReplayedAsContent(a, o) == ContentOf[a]

(* A replay if the content is the same, a conflict otherwise.              *)
Replayed(a, o) == IF ContentOf[a] = ContentOf[o] THEN o ELSE "conflict"

Answered(a, answer) ==
    tries' = [tries EXCEPT ![a].at = "answered", ![a].answer = answer]

(* The reads: the publication must still be active, and only then is the   *)
(* key looked up.                                                          *)
ReadForOrder(a) ==
    /\ tries[a].at = "new" /\ scanned[KeyOf[a]] # Nothing
    /\ LET p == scanned[KeyOf[a]]
       IN \/ /\ p \notin Active
             /\ Answered(a, "not found")
          \/ /\ p \in Active
             /\ \E o \in Prior(a) : Answered(a, Replayed(a, o))
          \/ /\ p \in Active /\ Prior(a) = {}
             /\ tries' = [tries EXCEPT ![a].at = "read",
                                       ![a].price = snapshot[p].price]
    /\ UNCHANGED <<hubVars, snapshot, raced, scanned, orders, queue, acked>>

(* A slip: no unique constraint on the key.                                *)
RivalsSlip(a) == {}

(* The rows the unique constraint on the key finds.                        *)
Rivals(a) == Prior(a)

(* The inserts: a rival with the same key may have committed first.        *)
InsertOrder(a) ==
    /\ tries[a].at = "read"
    /\ \/ /\ Rivals(a) = {}
          /\ orders' = orders \cup {a}
          /\ queue' = Append(queue, a)
          /\ Answered(a, a)
       \/ /\ \E o \in Rivals(a) : Answered(a, Replayed(a, o))
          /\ UNCHANGED <<orders, queue>>
    /\ UNCHANGED <<hubVars, snapshot, raced, scanned, acked>>

(* create_continuity_reference leaves a command that nobody acknowledges.  *)
CreateReference(r) ==
    /\ r \notin Range(queue)
    /\ queue' = Append(queue, r)
    /\ UNCHANGED <<hubVars, snapshot, raced, scanned, tries, orders, acked>>

-----------------------------------------------------------------------------
(* The hub.                                                                *)

(* A slip: acknowledged commands are handed out again.                     *)
OutstandingSlip == DOMAIN queue

(* Where the commands with status pending stand, in recorded order.        *)
Outstanding == {i \in DOMAIN queue : queue[i] \notin acked}

(* The first of them, as many as a pull hands out.                         *)
Batch ==
    LET waiting == Outstanding
    IN {queue[i] : i \in {j \in waiting :
          Cardinality({k \in waiting : k < j}) < BatchSize}}

(* pull_commands and stage_inbox_event: known events change nothing.       *)
PullCommands ==
    LET fresh == {c \in Batch : inbox[c] = "absent"}
    IN /\ fresh # {}
       /\ inbox' = [c \in Command |-> IF c \in fresh THEN "pending"
                                      ELSE inbox[c]]
       /\ UNCHANGED <<hub, booked, cloudVars>>

(* A slip: the customer's price is taken as it comes.                      *)
AcceptableSlip(o) == hub # Nothing

(* import_cloud_cafe_order compares the snapshot with its own price.       *)
Acceptable(o) == hub = tries[o].price

ImportOrder(o) ==
    /\ o \in Attempt /\ inbox[o] = "pending"
    /\ \/ /\ Acceptable(o)
          /\ inbox' = [inbox EXCEPT ![o] = "processed"]
          /\ booked' = [booked EXCEPT ![o] = hub]
       \/ /\ ~Acceptable(o)
          /\ inbox' = [inbox EXCEPT ![o] = "dead_letter"]
          /\ UNCHANGED booked
    /\ UNCHANGED <<hub, cloudVars>>

(* The handler of a reference (see WriterLease for those it refuses).      *)
ImportReference(r) ==
    /\ r \in Reference /\ inbox[r] = "pending"
    /\ inbox' = [inbox EXCEPT ![r] = "processed"]
    /\ UNCHANGED <<hub, booked, cloudVars>>

(* The report of the import reaches the cloud: apply_local_sync_event.     *)
Acknowledge(o) ==
    /\ o \in Attempt \ acked /\ inbox[o] = "processed"
    /\ acked' = acked \cup {o}
    /\ UNCHANGED <<hubVars, snapshot, raced, scanned, tries, orders, queue>>

(* An operator retries a refused import.                                   *)
RetryImport(c) ==
    /\ inbox[c] = "dead_letter"
    /\ inbox' = [inbox EXCEPT ![c] = "pending"]
    /\ UNCHANGED <<hub, booked, cloudVars>>

(* The menu changes, or the hub stops or resumes taking orders.            *)
ChangeHub(h) ==
    /\ h # hub /\ hub' = h
    /\ UNCHANGED <<inbox, booked, cloudVars>>

-----------------------------------------------------------------------------
Import(c) == ImportOrder(c) \/ ImportReference(c)

Next ==
    \/ \E p \in Publication :
         BuildPublication(p) \/ BeginPublish(p) \/ CommitPublish(p)
    \/ \E k \in Key, p \in Publication : Scan(k, p)
    \/ \E a \in Attempt : ReadForOrder(a) \/ InsertOrder(a) \/ Acknowledge(a)
    \/ \E r \in Reference : CreateReference(r)
    \/ PullCommands
    \/ \E c \in Command : Import(c) \/ RetryImport(c)
    \/ \E h \in Price \cup {Nothing} : ChangeHub(h)

Spec == Init /\ [][Next]_vars

(* The worker keeps pulling, importing and reporting.  Guests, staff and   *)
(* operators owe nothing.                                                  *)
FairSpec ==
    /\ Spec
    /\ WF_vars(PullCommands)
    /\ \A c \in Command : WF_vars(Import(c))
    /\ \A a \in Attempt : WF_vars(Acknowledge(a))

-----------------------------------------------------------------------------
(* Properties.                                                             *)

(* One menu at a time: when no publication is under way, two are active    *)
(* only if they raced each other, and the next one that begins alone       *)
(* leaves a single one again (publish_menu_snapshot).                      *)
OneMenu ==
    InState("staging") = {} /\ ~raced => Cardinality(Active) <= 1

(* One order per key, and an attempt that is answered with an order gets   *)
(* the one with its own key and content, whatever attempts overlapped      *)
(* (create_cloud_order).                                                   *)
AnswersMatch ==
    /\ \A o1, o2 \in orders : KeyOf[o1] = KeyOf[o2] => o1 = o2
    /\ \A a \in Attempt :
         tries[a].answer \in Attempt =>
           /\ tries[a].answer \in orders
           /\ KeyOf[tries[a].answer] = KeyOf[a]
           /\ ContentOf[tries[a].answer] = ContentOf[a]

(* A price is agreed three times over: an order is imported at the price   *)
(* the hub charges, which is the one in the publication the guest had      *)
(* scanned, however often menu and publications changed in between         *)
(* (import_cloud_cafe_order).                                              *)
PriceAgreed ==
    \A o \in Attempt :
      booked[o] # Nothing => /\ o \in orders
                          /\ booked[o] = snapshot[scanned[KeyOf[o]]].price

(* Commands that stay pending in the cloud although the hub is done with   *)
(* them: references, and imports that were refused.                        *)
Unacknowledged == {c \in Range(queue) \ acked :
                     c \in Reference \/ inbox[c] = "dead_letter"}

(* Every order reaches the hub, as long as fewer than a batch of commands  *)
(* stay unacknowledged: a full batch of those would be pulled for ever     *)
(* (pull_commands).  An order is there for good, so this says that it      *)
(* leads to its arrival (ArrivalIsLedTo in DoorsProofs), in a form that    *)
(* TLC checks on the states alone.                                         *)
OrdersArrive ==
    \A o \in Attempt :
      <>[](o \in orders)
        => []<>(inbox[o] # "absent" \/ Cardinality(Unacknowledged) >= BatchSize)

(* PRD_HYBRID_CLOUD_CONTINUITY_ADDENDUM.md:103: duplicate taps or browser  *)
(* retries return the same order reference for the same idempotency key.   *)
(* The code does not once the table's publication has changed: 404.        *)
RetriesReturnOrder ==
    \A a, o \in Attempt :
      /\ o \in orders /\ KeyOf[a] = KeyOf[o] /\ ContentOf[a] = ContentOf[o]
      /\ tries[a].at = "answered"
      => tries[a].answer = o

(* What a guest and the shop agree on, whatever requests overlap: one menu*)
(* at a time, one order per key, and one price from the menu to the hub. *)
AsAgreed == TypeOK /\ OneMenu /\ AnswersMatch /\ PriceAgreed
=============================================================================
