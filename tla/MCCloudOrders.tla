---------------------------- MODULE MCCloudOrders ----------------------------
(* Two attempts with one key and one content, a third with the same key    *)
(* and another content, and a fourth of another guest.                     *)
EXTENDS CloudOrders, TLC

CONSTANTS a1, a2, a3, b1

MCKeyOf == a1 :> "k" @@ a2 :> "k" @@ a3 :> "k" @@ b1 :> "l"
MCContentOf == a1 :> "x" @@ a2 :> "x" @@ a3 :> "y" @@ b1 :> "x"
=============================================================================
