--------------------------- MODULE SignedRequests ---------------------------
(***************************************************************************)
(* The cloud's check of a device's signed requests (api/routes/cloud_-     *)
(* gateway.py, _active_device and _verify_signed_request): the device is   *)
(* active, the timestamp lies within the permitted skew, and the nonce has *)
(* not been seen.  Nonces are kept for twice the skew and every request    *)
(* deletes those that have expired.                                        *)
(*                                                                         *)
(* A call may reach the cloud more than once.  A copy takes the time, and  *)
(* some moments later, but no more than Delay, deletes and inserts; from   *)
(* there to the commit it holds the nonce.                                 *)
(***************************************************************************)
EXTENDS Integers

CONSTANTS Call,     \* signed requests, each with a nonce of its own
          Copy,     \* deliveries under way at once
          Skew,     \* max_skew_seconds
          Delay,    \* a copy that has the time uses it within Delay
          LastTime, \* bound: the clock stops
          Idle      \* a delivery that is not under way; a nonce not stored

ASSUME SignedAssumption ==
    /\ Skew \in Nat /\ Delay \in Nat /\ LastTime \in Nat
    /\ Idle \notin Nat

VARIABLES
    time,    \* the cloud's clock
    active,  \* device_registrations: status and revoked_at
    signed,  \* signature_timestamp of each call, by the device's clock
    kept,    \* continuity_request_nonces: expires_at of each call's nonce
    copy,    \* the deliveries: the call and the `now` each has taken
    executed \* history: how often each call was carried out (up to twice),
             \* and how far ahead of the cloud it was signed the first time

signedVars == <<time, active, signed, kept, copy, executed>>

Times == 0..(LastTime + 2 * Skew)

SignedTypeOK ==
    /\ time \in 0..LastTime
    /\ active \in BOOLEAN
    /\ signed \in [Call -> 0..(LastTime + Skew)]
    /\ kept \in [Call -> Times \cup {Idle}]
    /\ copy \in [Copy -> [call : Call, now : 0..LastTime] \cup {Idle}]
    /\ executed \in [Call -> [times : 0..2, ahead : -Skew..Skew]]

SignedInit ==
    /\ time = 0 /\ active = TRUE
    /\ signed \in [Call -> 0..(LastTime + Skew)]
    /\ kept = [c \in Call |-> Idle]
    /\ copy = [d \in Copy |-> Idle]
    /\ executed = [c \in Call |-> [times |-> 0, ahead |-> 0]]

(* A slip: nonces are kept for the skew only.                              *)
ExpiresAtSlip(now) == now + Skew

ExpiresAt(now) == now + 2 * Skew

(* The nonces left after a request has deleted the expired ones.           *)
KeptAt(now) ==
    [c \in Call |-> IF kept[c] # Idle /\ kept[c] < now THEN Idle ELSE kept[c]]

(* A slip: only old timestamps are refused.                                *)
InTimeSlip(c, now) == now - signed[c] <= Skew

InTime(c, now) == now - signed[c] \in -Skew..Skew

TimePasses ==
    /\ time < LastTime
    /\ \A d \in Copy : copy[d] # Idle => copy[d].now + Delay > time
    /\ time' = time + 1
    /\ UNCHANGED <<active, signed, kept, copy, executed>>

RevokeDevice == /\ active /\ active' = FALSE
                /\ UNCHANGED <<time, signed, kept, copy, executed>>

(* A delivery finds the device active and the timestamp in time.           *)
BeginVerify(d, c) ==
    /\ copy[d] = Idle /\ active /\ InTime(c, time)
    /\ copy' = [copy EXCEPT ![d] = [call |-> c, now |-> time]]
    /\ UNCHANGED <<time, active, signed, kept, executed>>

(* It deletes the expired nonces and inserts its own, or is refused and    *)
(* deletes nothing; then the operation is carried out and committed.       *)
VerifySigned(d) ==
    /\ copy[d] # Idle
    /\ LET c == copy[d].call
           now == copy[d].now
       IN IF KeptAt(now)[c] = Idle
          THEN /\ kept' = [KeptAt(now) EXCEPT ![c] = ExpiresAt(now)]
               /\ executed' = [executed EXCEPT ![c] =
                      IF @.times = 0 THEN [times |-> 1, ahead |-> signed[c] - now]
                      ELSE [times |-> 2, ahead |-> @.ahead]]
          ELSE UNCHANGED <<kept, executed>>
    /\ copy' = [copy EXCEPT ![d] = Idle]
    /\ UNCHANGED <<time, active, signed>>

(* The operation behind the check fails: the nonce is rolled back with it. *)
RollBackVerified(d) ==
    /\ copy[d] # Idle
    /\ copy' = [copy EXCEPT ![d] = Idle]
    /\ UNCHANGED <<time, active, signed, kept, executed>>

SignedNext ==
    \/ TimePasses \/ RevokeDevice
    \/ \E d \in Copy : \/ \E c \in Call : BeginVerify(d, c)
                       \/ VerifySigned(d) \/ RollBackVerified(d)

SignedSpec == SignedInit /\ [][SignedNext]_signedVars

-----------------------------------------------------------------------------
(* A call is carried out once, however often it arrives, although nonces   *)
(* are forgotten: its timestamp goes stale first.  The one margin is the   *)
(* time a copy spends between reading the clock and inserting, for a call  *)
(* signed by a clock that is ahead by almost the whole skew.               *)
CarriedOutOnce ==
    \A c \in Call : executed[c].times = 2 => executed[c].ahead > Skew - Delay

(* A device's calls are carried out once, by nonces of the times they had.*)
SignedHolds == SignedTypeOK /\ CarriedOutOnce
=============================================================================
