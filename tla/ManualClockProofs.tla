------------------------- MODULE ManualClockProofs --------------------------
(***************************************************************************)
(* Proofs about ManualClock, for any limits, steps and bound.              *)
(***************************************************************************)
EXTENDS ManualClock, TLAPS

USE LimitsAssumption, StepsAssumption, MaxTimeAssumption

LEMMA TypeInductive == TypeOK /\ [Next]_vars => TypeOK'
<1> SUFFICES ASSUME TypeOK, [Next]_vars PROVE TypeOK'
  OBVIOUS
<1> USE DEF TypeOK, clockVars, configVars, runVars
<1>1. ASSUME NEW d \in Steps, AdvanceTime(d) PROVE TypeOK'
  BY <1>1 DEF AdvanceTime
<1>2. CASE AdvanceNotify
  BY <1>2 DEF AdvanceNotify
<1>3. ASSUME NEW r \in Runs, Signal(r) PROVE TypeOK'
  BY <1>3 DEF Signal
<1>4. ASSUME NEW r \in Runs, TryTimeout(r) PROVE TypeOK'
  BY <1>4 DEF TryTimeout
<1>5. ASSUME NEW r \in Runs, Wake(r) PROVE TypeOK'
  BY <1>5 DEF Wake
<1>6. ASSUME NEW r \in Runs, MonitorExit(r) PROVE TypeOK'
  BY <1>6 DEF MonitorExit
<1>7. ASSUME NEW r \in Runs, Cancel(r) PROVE TypeOK'
  BY <1>7 DEF Cancel
<1>8. CASE UNCHANGED vars
  BY <1>8 DEF vars
<1> QED
  BY <1>1, <1>2, <1>3, <1>4, <1>5, <1>6, <1>7, <1>8 DEF Next, Quiet

(* The variables keep their types, however many executions share the       *)
(* clock.                                                                  *)
THEOREM TypeCorrect == Spec => []TypeOK
<1>1. Init => TypeOK
  BY DEF Init, TypeOK
<1> QED
  BY <1>1, TypeInductive, PTL DEF Spec

LEMMA NotEarlyInductive ==
  TypeOK /\ NotEarly /\ [Next]_vars => NotEarly'
<1> SUFFICES ASSUME TypeOK, NotEarly, [Next]_vars PROVE NotEarly'
  OBVIOUS
<1> USE DEF TypeOK, NotEarly, Overdue, clockVars, configVars, runVars
<1>1. ASSUME NEW d \in Steps, AdvanceTime(d) PROVE NotEarly'
  <2> SUFFICES ASSUME NEW r \in Runs, timedOut'[r] PROVE Overdue(r)'
    OBVIOUS
  <2>1. timedOut[r]
    BY <1>1, Zenon DEF AdvanceTime
  <2>2. now - since[r] >= limit[r] /\ now' = now + d
    BY <2>1, <1>1 DEF AdvanceTime
  <2>3. since' = since /\ limit' = limit
    BY <1>1 DEF AdvanceTime
  <2>4. d \in Nat /\ limit[r] \in Nat /\ since[r] \in Nat
    OBVIOUS
  <2> QED
    BY <2>2, <2>3, <2>4
<1>2. CASE AdvanceNotify
  BY <1>2 DEF AdvanceNotify
<1>3. ASSUME NEW r \in Runs, Signal(r) PROVE NotEarly'
  BY <1>3 DEF Signal
<1>4. ASSUME NEW r \in Runs, TryTimeout(r) PROVE NotEarly'
  BY <1>4 DEF TryTimeout
<1>5. ASSUME NEW r \in Runs, Wake(r) PROVE NotEarly'
  BY <1>5 DEF Wake
<1>6. ASSUME NEW r \in Runs, MonitorExit(r) PROVE NotEarly'
  BY <1>6 DEF MonitorExit
<1>7. ASSUME NEW r \in Runs, Cancel(r) PROVE NotEarly'
  BY <1>7 DEF Cancel
<1>8. CASE UNCHANGED vars
  BY <1>8 DEF vars
<1> QED
  BY <1>1, <1>2, <1>3, <1>4, <1>5, <1>6, <1>7, <1>8 DEF Next, Quiet

(* No execution is given a verdict before its limit, and a verdict is not  *)
(* overtaken by a signal, however many executions share the clock.         *)
THEOREM NeverEarly == Spec => []NotEarly
<1>1. Init => NotEarly
  BY DEF Init, NotEarly
<1> QED
  BY <1>1, TypeCorrect, NotEarlyInductive, PTL DEF Spec
-----------------------------------------------------------------------------
LEMMA WakeupInductive ==
  TypeOK /\ NoLostWakeup /\ [Next]_vars => NoLostWakeup'
<1> SUFFICES ASSUME TypeOK, NoLostWakeup, [Next]_vars PROVE NoLostWakeup'
  OBVIOUS
<1> USE DEF TypeOK, NoLostWakeup, Overdue, TakenFrom, clockVars, configVars,
            runVars
<1>1. ASSUME NEW d \in Steps, AdvanceTime(d) PROVE NoLostWakeup'
  BY <1>1 DEF AdvanceTime
<1>2. CASE AdvanceNotify
  BY <1>2 DEF AdvanceNotify
<1>3. ASSUME NEW r \in Runs, Signal(r) PROVE NoLostWakeup'
  <2>1. ~Overdue(r)'
    <3>1. since'[r] = now /\ now' = now /\ limit'[r] = limit[r]
      BY <1>3 DEF Signal
    <3>2. limit[r] \in Nat /\ limit[r] # 0
      BY limit \in [Runs -> Limits]
    <3> QED
      BY <3>1, <3>2
  <2>2. ASSUME NEW s \in Runs, s # r PROVE since'[s] = since[s]
    BY <1>3, <2>2 DEF Signal
  <2>3. UNCHANGED <<now, notified, advancing, limit, monitor, takenAt>>
    BY <1>3 DEF Signal
  <2> QED
    BY <2>1, <2>2, <2>3
<1>4. ASSUME NEW r \in Runs, TryTimeout(r) PROVE NoLostWakeup'
  BY <1>4 DEF TryTimeout
<1>5. ASSUME NEW r \in Runs, Wake(r) PROVE NoLostWakeup'
  \* The others are excused by the notification r has just taken.
  <2>1. takenAt'[r] = now /\ now' = now /\ monitor'[r] # "select"
    BY <1>5 DEF Wake
  <2> QED
    BY <2>1
<1>6. ASSUME NEW r \in Runs, MonitorExit(r) PROVE NoLostWakeup'
  BY <1>6 DEF MonitorExit
<1>7. ASSUME NEW r \in Runs, Cancel(r) PROVE NoLostWakeup'
  BY <1>7 DEF Cancel
<1>8. CASE UNCHANGED vars
  BY <1>8 DEF vars
<1> QED
  BY <1>1, <1>2, <1>3, <1>4, <1>5, <1>6, <1>7, <1>8 DEF Next, Quiet

(* A monitor never sleeps past its limit with no notification on the way,  *)
(* however the calls of Advance overlap, unless another execution on the   *)
(* same clock took the notification since the clock was moved.             *)
THEOREM WakeupsNotLost == Spec => []NoLostWakeup
<1>1. Init => NoLostWakeup
  BY DEF Init, NoLostWakeup
<1> QED
  BY <1>1, TypeCorrect, WakeupInductive, PTL DEF Spec
-----------------------------------------------------------------------------
(* The guards of the three steps that lead to a verdict, with what makes   *)
(* each of them possible.  The prover does not look into ENABLED, so the   *)
(* liveness theorem takes this as its hypothesis; it holds by the          *)
(* definitions of the steps.                                               *)
AllCanStep ==
  /\ \A r \in Runs :
       /\ monitor[r] = "check" => ENABLED <<TryTimeout(r)>>_vars
       /\ monitor[r] = "select" /\ notified => ENABLED <<Wake(r)>>_vars
  /\ advancing > 0 => ENABLED <<AdvanceNotify>>_vars

(* A monitor exits only with its context done.                             *)
ExitInv == \A r \in Runs : monitor[r] = "exited" => ctxDone[r]

LEMMA ExitInductive == TypeOK /\ ExitInv /\ [Next]_vars => ExitInv'
<1> SUFFICES ASSUME TypeOK, ExitInv, [Next]_vars PROVE ExitInv'
  OBVIOUS
<1> USE DEF TypeOK, ExitInv, clockVars, configVars, runVars
<1>1. CASE UNCHANGED vars \/ AdvanceNotify \/ \E d \in Steps : AdvanceTime(d)
  BY <1>1, Zenon DEF vars, AdvanceNotify, AdvanceTime
<1>2. ASSUME NEW r \in Runs, Signal(r) PROVE ExitInv'
  BY <1>2, Zenon DEF Signal
<1>3. ASSUME NEW r \in Runs, TryTimeout(r) PROVE ExitInv'
  BY <1>3 DEF TryTimeout
<1>4. ASSUME NEW r \in Runs, Wake(r) PROVE ExitInv'
  BY <1>4 DEF Wake
<1>5. ASSUME NEW r \in Runs, MonitorExit(r) PROVE ExitInv'
  BY <1>5 DEF MonitorExit
<1>6. ASSUME NEW r \in Runs, Cancel(r) PROVE ExitInv'
  BY <1>6 DEF Cancel
<1> QED
  BY <1>1, <1>2, <1>3, <1>4, <1>5, <1>6 DEF Next, Quiet

LEMMA RunNoticed ==
  ASSUME NEW r \in Runs
  PROVE  FairSpec /\ []AllCanStep => Noticed(r)
<1> DEFINE Inv == TypeOK /\ NoLostWakeup /\ ExitInv
           Late == Overdue(r) /\ ~ctxDone[r] /\ ~TakenFrom(r)
           Settled == ctxDone[r] \/ ~Overdue(r) \/ TakenFrom(r)
           Check == Late /\ monitor[r] = "check"
           Woken == Late /\ monitor[r] = "select" /\ notified
           Asleep == Late /\ monitor[r] = "select" /\ ~notified
<1> USE DEF clockVars, configVars, runVars
<1>1. Spec => []Inv
  <2>1. Init => ExitInv
    BY DEF Init, ExitInv
  <2> QED
    BY <2>1, TypeCorrect, WakeupsNotLost, ExitInductive, PTL DEF Spec
<1>2. Inv /\ Late => Check \/ Woken \/ Asleep
  BY DEF TypeOK, ExitInv
<1>3. Late' \/ Settled'
  OBVIOUS
<1>4. Inv /\ Check /\ TryTimeout(r) => Settled'
  <2> SUFFICES ASSUME Inv, Check, TryTimeout(r) PROVE Settled'
    OBVIOUS
  <2>1. ctxDone' = [ctxDone EXCEPT ![r] = TRUE]
    BY Zenon DEF TryTimeout
  <2>2. ctxDone'[r] = TRUE
    BY <2>1 DEF TypeOK
  <2> QED
    BY <2>2, Zenon
<1>5. ASSUME Inv, [Next]_vars, ~TryTimeout(r)
      PROVE  /\ monitor[r] = "check" => monitor'[r] = "check"
             /\ ~Wake(r) /\ ~MonitorExit(r) => monitor'[r] = monitor[r]
             /\ ~Wake(r) /\ notified = TRUE =>
                  notified' = TRUE \/ TakenFrom(r)'
             /\ notified' \in BOOLEAN
  <2>1. ASSUME NEW s \in Runs, s # r, Wake(s)
        PROVE  TakenFrom(r)' /\ monitor'[r] = monitor[r]
    BY <1>5, <2>1 DEF Wake, TypeOK, TakenFrom
  <2>2. CASE \E s \in Runs : s # r /\ Wake(s)
    BY <1>5, <2>1, <2>2 DEF TypeOK, Wake
  <2>3. CASE ~\E s \in Runs : s # r /\ Wake(s)
    BY <1>5, <2>3 DEF Next, AdvanceTime, AdvanceNotify, Signal, TryTimeout,
       Wake, MonitorExit, Cancel, Quiet, vars, TypeOK
  <2> QED
    BY <2>2, <2>3
<1>6. Inv /\ Check /\ [Next]_vars => Check' \/ Settled'
  BY <1>3, <1>4, <1>5
<1>7. Inv /\ Check /\ <<TryTimeout(r)>>_vars => Settled'
  BY <1>4
<1>8. Inv /\ Late /\ Wake(r) => Check' \/ Settled'
  BY <1>3 DEF Wake, TypeOK
<1>9. Late => ~MonitorExit(r)
  BY DEF MonitorExit
<1>10. monitor[r] = "select" => ~TryTimeout(r)
  BY DEF TryTimeout
<1>11. Inv /\ Woken /\ [Next]_vars => Woken' \/ Check' \/ Settled'
  BY <1>3, <1>5, <1>8, <1>9, <1>10 DEF TypeOK
<1>12. Inv /\ Woken /\ <<Wake(r)>>_vars => Check' \/ Settled'
  BY <1>8
<1>13. Inv /\ Asleep /\ [Next]_vars
         => Asleep' \/ Woken' \/ Check' \/ Settled'
  BY <1>3, <1>5, <1>8, <1>9, <1>10 DEF TypeOK
<1>14. Inv /\ Asleep /\ <<AdvanceNotify>>_vars => Woken' \/ Settled'
  BY <1>3 DEF AdvanceNotify
<1>15. Inv /\ AllCanStep =>
         /\ Check => ENABLED <<TryTimeout(r)>>_vars
         /\ Woken => ENABLED <<Wake(r)>>_vars
         /\ Asleep => ENABLED <<AdvanceNotify>>_vars
  BY DEF AllCanStep, NoLostWakeup
<1>16. FairSpec => MonitorFairness(r)
  <2>1. FairSpec => MonitorsFair
    BY PTL DEF FairSpec, Fairness
  <2>2. MonitorsFair => MonitorFairness(r)
    BY DEF MonitorsFair
  <2> QED
    BY <2>1, <2>2
<1>17. /\ Overdue(r) => Late \/ Settled
       /\ Settled => ctxDone[r] \/ ~Overdue(r) \/ TakenFrom(r)
  OBVIOUS
<1> HIDE DEF Inv, Late, Settled, Check, Woken, Asleep
<1> QED
  BY <1>1, <1>2, <1>6, <1>7, <1>11, <1>12, <1>13, <1>14, <1>15, <1>16, <1>17,
     PTL DEF FairSpec, Fairness, Spec, MonitorFairness, Noticed

(* The engine notices an exceeded limit once the clock was advanced to it: *)
(* whoever overlaps with whom, the last call of Advance leaves a           *)
(* notification that the monitor takes, or else the monitor of another     *)
(* execution on the same clock.                                            *)
THEOREM LimitsNoticed == FairSpec /\ []AllCanStep => OverdueNoticed
<1>1. ASSUME NEW r \in Runs
      PROVE  FairSpec /\ []AllCanStep => Noticed(r)
  BY RunNoticed
<1> QED
  BY <1>1 DEF OverdueNoticed
=============================================================================
