---------------------------- MODULE TaxOperation ----------------------------
(***************************************************************************)
(* The tax operation of one venture: registration, activation of GST and   *)
(* the type an invoice must have (services/tax_operation.py, and           *)
(* upsert_business_profile of services/business_settings.py).              *)
(*                                                                         *)
(* Settings are read without a lock and saved later, column by column: an  *)
(* UPDATE holds the columns whose value differs from what was read.        *)
(*                                                                         *)
(* What the prerequisites of an activation ask of names, states, GSTIN     *)
(* format, sequences and templates is taken as given.                      *)
(***************************************************************************)
EXTENDS Integers, FiniteSets

CONSTANTS Admin,         \* saves of the settings that may be under way
          Registration,  \* gst_registrations of the venture
          Primary,       \* the one with is_primary
          NoSave,        \* an admin who is not saving
          Undated,       \* no effective date
          LastDay        \* bound: days that pass

ASSUME TaxAssumption ==
    /\ Primary \in Registration
    /\ LastDay \in Nat \ {0} /\ Undated \notin Nat

Day == 1..LastDay

VARIABLES
    today,
    profile,  \* business_profiles: tax_registration_status, default_tax_mode,
              \* gst_effective_from; and the registrations that are active
              \* (the others are reference_only)
    saving,   \* what the saves under way have read, and what they write
    crossed   \* history: a save met settings it had not read

taxVars == <<today, profile, saving, crossed>>

TaxMode == {"gst", "non_gst"}
ProfileType == [status : {"registered", "unregistered"}, mode : TaxMode,
                effective : Day \cup {Undated}, active : SUBSET Registration]

TaxTypeOK ==
    /\ today \in Day
    /\ profile \in ProfileType
    /\ saving \in [Admin -> [read : ProfileType, want : ProfileType]
                               \cup {NoSave}]
    /\ crossed \in BOOLEAN

TaxInit ==
    /\ today = 1
    /\ profile = [status |-> "unregistered", mode |-> "non_gst",
                  effective |-> Undated, active |-> {}]
    /\ saving = [a \in Admin |-> NoSave]
    /\ crossed = FALSE

(* The admin has read the profile and the registrations.                   *)
BeginSave(a, want) ==
    /\ saving[a] = NoSave
    /\ saving' = [saving EXCEPT ![a] = [read |-> profile, want |-> want]]
    /\ UNCHANGED <<today, profile, crossed>>

(* The flush: columns that were not changed keep what is in the database.  *)
Merge(read, want) ==
    [status |-> IF want.status = read.status THEN profile.status
                ELSE want.status,
     mode |-> IF want.mode = read.mode THEN profile.mode ELSE want.mode,
     effective |-> IF want.effective = read.effective THEN profile.effective
                   ELSE want.effective,
     active |-> (profile.active \ (read.active \ want.active))
                  \cup (want.active \ read.active)]

(* A slip: the effective date survives the end of the registration.        *)
UnregisteredSlip(p) ==
    [status |-> "unregistered", mode |-> p.mode, effective |-> p.effective,
     active |-> {}]

(* update_tax_operation_settings for an unregistered venture.              *)
Unregistered(p) ==
    [status |-> "unregistered", mode |-> "non_gst", effective |-> Undated,
     active |-> {}]

(* _activation_prerequisites.                                              *)
Prerequisites ==
    /\ profile.status = "registered"
    /\ Primary \in profile.active

(* enforce_invoice_tax_policy: the type an invoice of that day must have.  *)
GstActiveFor(day) ==
    /\ profile.mode = "gst" /\ profile.status = "registered"
    /\ profile.effective # Undated
    /\ day >= profile.effective

-----------------------------------------------------------------------------
(* Midnight.                                                               *)
NextDay ==
    /\ today < LastDay
    /\ today' = today + 1
    /\ UNCHANGED <<profile, saving, crossed>>

(* update_tax_operation_settings reads the profile and the registrations   *)
(* and changes them; without a selected registration it leaves those be.   *)
BeginUnregister(a) == BeginSave(a, Unregistered(profile))

BeginRegister(a, active) ==
    /\ active = profile.active \/ \E g \in Registration : active = {g}
    /\ BeginSave(a, [status |-> "registered", mode |-> profile.mode,
                     effective |-> profile.effective, active |-> active])

(* activate_gst_operation checks the prerequisites and the date; mode and  *)
(* date are all it writes.                                                 *)
BeginActivate(a, day) ==
    /\ Prerequisites /\ day >= today
    /\ BeginSave(a, [status |-> profile.status, mode |-> "gst",
                     effective |-> day, active |-> profile.active])

(* Either is saved.                                                        *)
Save(a) ==
    /\ saving[a] # NoSave
    /\ profile' = Merge(saving[a].read, saving[a].want)
    /\ crossed' = (crossed \/ profile # saving[a].read)
    /\ saving' = [saving EXCEPT ![a] = NoSave]
    /\ UNCHANGED today

(* A save that breaks off.                                                 *)
GiveUpSave(a) ==
    /\ saving[a] # NoSave
    /\ saving' = [saving EXCEPT ![a] = NoSave]
    /\ UNCHANGED <<today, profile, crossed>>

(* upsert_business_profile writes default_tax_mode, whatever the tax       *)
(* operation says.                                                         *)
UpsertBusinessProfile(mode) ==
    /\ profile' = [profile EXCEPT !.mode = mode]
    /\ UNCHANGED <<today, saving, crossed>>

TaxNext ==
    \/ NextDay
    \/ \E a \in Admin : BeginUnregister(a) \/ Save(a) \/ GiveUpSave(a)
    \/ \E a \in Admin, active \in SUBSET Registration :
         BeginRegister(a, active)
    \/ \E a \in Admin, day \in Day : BeginActivate(a, day)
    \/ \E mode \in TaxMode : UpsertBusinessProfile(mode)

TaxSpec == TaxInit /\ [][TaxNext]_taxVars

-----------------------------------------------------------------------------
(* GST is charged only with an active registration: when the policy makes  *)
(* any day a GST day, some registration is active, unless two saves of the *)
(* settings have crossed.  A venture that is registered again does not     *)
(* inherit the old activation, whoever rewrites default_tax_mode.          *)
GstNeedsRegistration ==
    (\E day \in Day : GstActiveFor(day)) /\ ~crossed => profile.active # {}

(* The tax settings of a venture hold together: no GST day without a     *)
(* registration, but for saves that have crossed.                        *)
TaxHolds == TaxTypeOK /\ GstNeedsRegistration
=============================================================================
