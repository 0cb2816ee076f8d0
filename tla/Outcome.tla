------------------------------ MODULE Outcome -------------------------------
(***************************************************************************)
(* What one execution promises its caller: at most one policy verdict is   *)
(* given, it is never changed, and the result that closes the execution    *)
(* reports that verdict if there is one and no timeout if there is none.   *)
(***************************************************************************)
VARIABLES phase, kind, status

vars == <<phase, kind, status>>

TimeKinds == {"hard", "unit", "stall", "idle"}

Init == phase = "open" /\ kind = "none" /\ status = "unset"

Expire ==
  /\ phase = "open"
  /\ phase' = "expired"
  /\ kind' \in TimeKinds
  /\ UNCHANGED status

CloseOpen ==
  /\ phase = "open"
  /\ phase' = "closed"
  /\ \/ /\ status' \in {"succeeded", "failed", "canceled", "internal_error"}
        /\ kind' = "none"
     \/ status' = "failed" /\ kind' = "probe"

CloseExpired ==
  /\ phase = "expired"
  /\ phase' = "closed"
  /\ status' = "timeout"
  /\ UNCHANGED kind

Next == Expire \/ CloseOpen \/ CloseExpired

Spec == Init /\ [][Next]_vars
=============================================================================
