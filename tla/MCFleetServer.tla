--------------------------- MODULE MCFleetServer ---------------------------
(***************************************************************************)
(* FleetStore and FleetHandlers for TLC.  They share no state: a behaviour *)
(* runs one of them, and of FleetHandlers the keys with everything that    *)
(* can go wrong with them or the claims of workers that have registered.   *)
(***************************************************************************)
EXTENDS FleetStore, FleetHandlers

VARIABLE part

mcVars == <<storeVars, handlerVars, part>>

MCInit == part \in {"store", "keys", "claims"} /\ StoreInit /\ HandlersInit

MCNext ==
  /\ UNCHANGED part
  /\ \/ part = "store" /\ StoreNext /\ UNCHANGED handlerVars
     \/ part = "keys" /\ KeysNext /\ UNCHANGED storeVars
     \/ part = "claims" /\ (RegisterNext \/ ClaimsNext) /\ UNCHANGED storeVars

MCSpec == MCInit /\ [][MCNext]_mcVars /\ StoreFairness
=============================================================================
