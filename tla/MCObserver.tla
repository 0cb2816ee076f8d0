----------------------------- MODULE MCObserver -----------------------------
(***************************************************************************)
(* Small instances of Observer for TLC.                                    *)
(***************************************************************************)
EXTENDS ObserverProps

BothPolicies == {"newest", "oldest"}
=============================================================================
