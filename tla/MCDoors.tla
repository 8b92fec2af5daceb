------------------------------ MODULE MCDoors -------------------------------
(***************************************************************************)
(* What lets a request in: the codes of a table, the rate limit, the       *)
(* signatures of the devices and the accounts of the staff; and the menu   *)
(* card behind the first of these doors.  They share no state, so each is  *)
(* explored while the others rest where they started.                      *)
(***************************************************************************)
EXTENDS TableCodes, RateWindow, SignedRequests, Ventures, MenuCard, TLC

CONSTANTS north, south, bay, c1, c2, hot

MCCompanyOf == north :> c1 @@ south :> c1 @@ bay :> c2

AllVars == <<codeVars, rateVars, signedVars, ventureVars, cardVars>>

DoorsInit == CodesInit /\ RateInit /\ SignedInit /\ VenturesInit /\ CardInit

(* The calls carry their timestamps from the start; the others take one.   *)
SignedRest == SignedInit /\ \A c \in Call : signed[c] = 0

RestExceptSigned == CodesInit /\ RateInit /\ VenturesInit /\ CardInit

DoorsNext ==
    \/ /\ SignedRest /\ RateInit /\ VenturesInit /\ CardInit
       /\ CodesNext
       /\ UNCHANGED <<rateVars, signedVars, ventureVars, cardVars>>
    \/ /\ SignedRest /\ CodesInit /\ VenturesInit /\ CardInit
       /\ RateNext
       /\ UNCHANGED <<codeVars, signedVars, ventureVars, cardVars>>
    \/ /\ SignedRest /\ CodesInit /\ RateInit /\ CardInit
       /\ VenturesNext
       /\ UNCHANGED <<codeVars, rateVars, signedVars, cardVars>>
    \/ /\ SignedRest /\ CodesInit /\ RateInit /\ VenturesInit
       /\ CardNext
       /\ UNCHANGED <<codeVars, rateVars, signedVars, ventureVars>>
    \/ /\ RestExceptSigned
       /\ SignedNext
       /\ UNCHANGED <<codeVars, rateVars, ventureVars, cardVars>>

(* Requests of one kind are interchangeable.  (Only some kinds are listed: *)
(* each doubles the cost of a state.)                                      *)
MCSymmetry == Permutations(Waiter) \cup Permutations(Desk)
                \cup Permutations(Editor)

DoorsSpec == DoorsInit /\ [][DoorsNext]_AllVars
=============================================================================
