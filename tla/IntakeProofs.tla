---------------------------- MODULE IntakeProofs ----------------------------
(***************************************************************************)
(* Proofs about module Intake, for any set of unit numbers, pipes of any   *)
(* size, both platforms and any number of lines and ticks.                 *)
(***************************************************************************)
EXTENDS IntakeProps, TLAPS, SequenceTheorems

USE PlatformAssumption, IdAssumption, CapacityAssumption
USE DEF configVars, relayVars, readVars, lineVars, childVars

(* Each party on the way of a line is behind the one before it.            *)
LineInv ==
  /\ sent \in Seq(Lines)
  /\ {relayed, arrived, fetched, read} \subseteq Nat
  /\ read <= fetched /\ fetched <= arrived /\ arrived <= Len(sent)
  /\ relayed <= Len(sent)
  /\ platform = "windows" => arrived <= relayed
  /\ platform \in {"unix", "windows"}
  /\ platform = "unix" => relay = "none"

(* Unit n is the one begun last under the number id, and it is open, when  *)
(* the lines up to this one have been read.                                *)
Latest(id, n, last) ==
  /\ sent[n] = Begin(id)
  /\ \A k \in n + 1 .. last : sent[k] # Begin(id) /\ sent[k] # End(id)

(* The map of handles leads from each number to the latest open unit.      *)
HandleInv ==
  /\ handles \in [Ids -> Nat]
  /\ \A id \in Ids :
       /\ handles[id] <= read
       /\ \A n \in 1 .. read : handles[id] = n <=> Latest(id, n, read)

LEMMA LineKinds ==
  ASSUME NEW l \in Lines
  PROVE  \/ l.type \in {"signal", "bad", "long"}
         \/ l.type = "unit_begin" /\ l = Begin(l.id) /\ l.id \in Ids
         \/ l.type = "unit_end" /\ l = End(l.id) /\ l.id \in Ids
  BY DEF Lines, Plain, Begin, End

LEMMA LinesDiffer ==
  /\ \A i, j : (Begin(i) = Begin(j)) <=> (i = j)
  /\ \A i, j : (End(i) = End(j)) <=> (i = j)
  /\ \A i, j : Begin(i) # End(j)
  /\ \A i : Begin(i).id = i /\ Begin(i).type = "unit_begin"
  /\ \A i : End(i).id = i /\ End(i).type = "unit_end"
  BY DEF Begin, End

LEMMA SentLines ==
  ASSUME LineInv
  PROVE  /\ Len(sent) \in Nat
         /\ \A n \in 1 .. Len(sent) : sent[n] \in Lines
  BY LenProperties, ElementOfSeq DEF LineInv
-----------------------------------------------------------------------------
LEMMA InitLines == Init => LineInv
<1>1. <<>> \in Seq(Lines) /\ Len(<<>>) = 0
  BY EmptySeq
<1> QED
  BY <1>1 DEF Init, LineInv

(* A line the child writes leaves the earlier ones as they are.            *)
LEMMA WriteAppends ==
  ASSUME LineInv, NEW line \in Lines, Write(line)
  PROVE  /\ LineInv' /\ UNCHANGED <<read, unitVars>>
         /\ \A n \in 1 .. read : sent'[n] = sent[n]
<1>1. sent' = Append(sent, line) /\ sent \in Seq(Lines)
      /\ UNCHANGED <<platform, relayed, relay, fetched, read, unitVars>>
      /\ arrived' = (IF platform = "unix" THEN arrived + 1 ELSE arrived)
  BY DEF Write, LineInv
<1>2. sent' \in Seq(Lines) /\ Len(sent') = Len(sent) + 1
      /\ \A n \in 1 .. Len(sent) : sent'[n] = sent[n]
  BY <1>1, AppendProperties
<1>3. LineInv'
  BY <1>1, <1>2, SentLines DEF LineInv
<1> QED
  BY <1>1, <1>2, <1>3, SentLines DEF LineInv

LEMMA LinesInductive == LineInv /\ [Next]_vars => LineInv'
<1> SUFFICES ASSUME LineInv, [Next]_vars PROVE LineInv'
  OBVIOUS
<1>1. CASE \E line \in Lines : Write(line)
  BY <1>1, WriteAppends
<1>2. CASE Relaying \/ AcceptFails
  BY <1>2, SentLines DEF Relaying, Accept, Relay, RelayEnds, AcceptFails,
                         LineInv
<1>3. CASE Reader
  <2>1. UNCHANGED <<platform, sent, relayed, relay, arrived>>
        /\ \/ fetched' \in fetched + 1 .. arrived /\ read' = read
           \/ read' = read + 1 /\ read < fetched /\ fetched' = fetched
           \/ UNCHANGED <<fetched, read>>
    BY <1>3 DEF Reader, Fetch, PassLine, LongLine, BeginUnit, EndUnit,
                ReadLine, ReaderEnds
  <2> QED
    BY <2>1, SentLines DEF LineInv
<1>4. CASE Launch \/ Cleanup \/ Join
  BY <1>4 DEF Launch, Cleanup, Join, LineInv
<1>5. CASE Tick \/ HoldOutput \/ ReleaseOutput \/ Probe \/ ProbeEnds
  BY <1>5 DEF Tick, HoldOutput, ReleaseOutput, Probe, CommandEnds,
              UseFailure, UseLine, NextRun, ProbeEnds, LineInv
<1>6. CASE Dial \/ HangUp \/ ChildEnds
  BY <1>6 DEF Dial, HangUp, ChildEnds, LineInv
<1>7. CASE UNCHANGED vars
  BY <1>7 DEF vars, LineInv
<1> QED
  BY <1>1, <1>2, <1>3, <1>4, <1>5, <1>6, <1>7 DEF Next, Child, Resting
-----------------------------------------------------------------------------
(* The units, their numbers and what was read.                             *)
UnitInv == LineInv /\ HandleInv /\ UnitsPaired

LEMMA InitUnits == Init => UnitInv
  BY InitLines DEF Init, UnitInv, HandleInv, UnitsPaired

(* Nothing that was read so far changes by what is sent later.             *)
LEMMA UnreadChangesNothing ==
  ASSUME UnitInv, LineInv', UNCHANGED <<read, unitVars>>,
         \A n \in 1 .. read : sent'[n] = sent[n]
  PROVE  UnitInv'
<1> USE DEF unitVars
<1>1. read \in Nat
  BY DEF UnitInv, LineInv
<1>2. \A id \in Ids, n \in 1 .. read :
        Latest(id, n, read)' <=> Latest(id, n, read)
  BY <1>1 DEF Latest
<1>3. HandleInv'
  BY <1>1, <1>2 DEF HandleInv, UnitInv
<1>4. \A n \in 1 .. read : \A m \in n + 1 .. read :
        EndsUnit(n, m)' <=> EndsUnit(n, m)
  BY <1>1 DEF EndsUnit
<1>5. UnitsPaired'
  BY <1>1, <1>4 DEF UnitsPaired, UnitInv
<1> QED
  BY <1>3, <1>5 DEF UnitInv

(* Unit n is open when the lines up to this one have been read.            *)
Open(n, last) ==
  /\ sent[n].type = "unit_begin"
  /\ ~ \E m \in n + 1 .. last : EndsUnit(n, m)

LEMMA PairedMeansOpen ==
  UnitsPaired <=> active = {n \in 1 .. read : Open(n, read)}
  BY DEF UnitsPaired, Open

(* What one more line does to the units begun before it, and to its own.   *)
LEMMA OpenNext ==
  ASSUME read \in Nat
  PROVE  /\ \A n \in 1 .. read :
              Open(n, read + 1) <=> Open(n, read) /\ ~EndsUnit(n, read + 1)
         /\ Open(read + 1, read + 1)
              <=> sent[read + 1].type = "unit_begin"
<1>1. ASSUME NEW n \in 1 .. read
      PROVE  Open(n, read + 1) <=> Open(n, read) /\ ~EndsUnit(n, read + 1)
  <2>1. n + 1 .. read + 1 = (n + 1 .. read) \union {read + 1}
    OBVIOUS
  <2> QED
    BY <2>1 DEF Open
<1>2. (read + 1) + 1 .. read + 1 = {}
  OBVIOUS
<1> QED
  BY <1>1, <1>2 DEF Open

(* Only the latest unit of a number can be ended.                          *)
LEMMA EndsLatest ==
  ASSUME UnitInv, NEW n \in 1 .. read, NEW id \in Ids,
         sent[read + 1] = End(id)
  PROVE  Open(n, read) /\ EndsUnit(n, read + 1) <=> Latest(id, n, read)
<1>1. /\ read \in Nat /\ Len(sent) \in Nat /\ read <= Len(sent)
      /\ sent[n] \in Lines
  BY SentLines DEF UnitInv, LineInv
<1>2. ASSUME Open(n, read), EndsUnit(n, read + 1)
      PROVE  Latest(id, n, read)
  <2>1. sent[n] = Begin(sent[n].id) /\ sent[n].id = id
    <3>1. sent[n] = Begin(sent[n].id)
      BY <1>1, <1>2, LineKinds DEF Open
    <3>2. End(sent[n].id) = End(id)
      BY <1>2 DEF EndsUnit
    <3> QED
      BY <3>1, <3>2, LinesDiffer
  <2>2. \A k \in n + 1 .. read : sent[k] # Begin(id)
    BY <1>1, <1>2, <2>1 DEF EndsUnit
  <2>3. ASSUME NEW k \in n + 1 .. read, sent[k] = End(id) PROVE FALSE
    <3>1. \A j \in n + 1 .. k - 1 : j \in n + 1 .. read
      BY <1>1, <2>3
    <3>2. EndsUnit(n, k)
      BY <2>1, <2>2, <2>3, <3>1 DEF EndsUnit
    <3> QED
      BY <1>2, <2>3, <3>2 DEF Open
  <2> QED
    BY <2>1, <2>2, <2>3 DEF Latest
<1>3. ASSUME Latest(id, n, read) PROVE Open(n, read) /\ EndsUnit(n, read + 1)
  <2>1. sent[n].id = id /\ sent[n].type = "unit_begin"
    BY <1>3, LinesDiffer DEF Latest
  <2>2. EndsUnit(n, read + 1)
    BY <1>1, <1>3, <2>1 DEF Latest, EndsUnit
  <2>3. \A m \in n + 1 .. read : ~EndsUnit(n, m)
    BY <1>3, <2>1 DEF Latest, EndsUnit
  <2> QED
    BY <2>1, <2>2, <2>3 DEF Open
<1> QED
  BY <1>2, <1>3

LEMMA LatestNext ==
  ASSUME read \in Nat, NEW id \in Ids
  PROVE  /\ \A n \in 1 .. read :
              Latest(id, n, read + 1) <=> /\ Latest(id, n, read)
                                          /\ sent[read + 1] # Begin(id)
                                          /\ sent[read + 1] # End(id)
         /\ Latest(id, read + 1, read + 1) <=> sent[read + 1] = Begin(id)
<1>1. ASSUME NEW n \in 1 .. read
      PROVE  Latest(id, n, read + 1) <=> /\ Latest(id, n, read)
                                         /\ sent[read + 1] # Begin(id)
                                         /\ sent[read + 1] # End(id)
  <2>1. n + 1 .. read + 1 = (n + 1 .. read) \union {read + 1}
    OBVIOUS
  <2> QED
    BY <2>1 DEF Latest
<1>2. (read + 1) + 1 .. read + 1 = {}
  OBVIOUS
<1> QED
  BY <1>1, <1>2 DEF Latest

LEMMA HandlesNext ==
  ASSUME read' = read + 1, sent' = sent, handles' \in [Ids -> Nat],
         \A id \in Ids :
           /\ handles'[id] <= read + 1
           /\ \A n \in 1 .. read + 1 :
                handles'[id] = n <=> Latest(id, n, read + 1)
  PROVE  HandleInv'
  BY DEF HandleInv, Latest

(* A line is read: the three things it can be.                             *)
LEMMA PlainKeepsUnits ==
  ASSUME UnitInv, LineInv', read' = read + 1,
         sent' = sent, UNCHANGED unitVars,
         sent[read'].type \notin {"unit_begin", "unit_end"}
  PROVE  UnitInv'
<1>1. read \in Nat
  BY DEF UnitInv, LineInv
<1>2. \A id : sent[read'] # Begin(id) /\ sent[read'] # End(id)
  BY LinesDiffer
<1>3. \A n \in 1 .. read' : n \in 1 .. read \/ n = read'
  BY <1>1
<1>4. HandleInv'
  <2>1. handles' = handles /\ handles \in [Ids -> Nat]
    BY DEF UnitInv, HandleInv, unitVars
  <2>2. ASSUME NEW id \in Ids
        PROVE  /\ handles[id] <= read + 1
               /\ \A n \in 1 .. read + 1 :
                    handles[id] = n <=> Latest(id, n, read + 1)
    <3>1. handles[id] <= read /\ handles[id] \in Nat
          /\ \A n \in 1 .. read : handles[id] = n <=> Latest(id, n, read)
      BY <2>1 DEF UnitInv, HandleInv
    <3> QED
      BY <1>1, <1>2, <1>3, <3>1, LatestNext
  <2> QED
    BY <2>1, <2>2, HandlesNext
<1>5. \A n \in 1 .. read : ~EndsUnit(n, read')
  BY <1>2 DEF EndsUnit
<1>6. \A n \in 1 .. read' : Open(n, read') <=> n \in 1 .. read /\ Open(n, read)
  BY <1>1, <1>3, <1>5, OpenNext
<1>7. active' = {n \in 1 .. read' : Open(n, read')}
  BY <1>1, <1>6, PairedMeansOpen DEF UnitInv, unitVars
<1>8. UnitsPaired'
  BY <1>7 DEF UnitsPaired, Open, EndsUnit
<1> QED
  BY <1>4, <1>8 DEF UnitInv

LEMMA BeginKeepsUnits ==
  ASSUME UnitInv, LineInv', read' = read + 1, sent' = sent, NEW i \in Ids,
         sent[read'] = Begin(i),
         active' = active \union {read'},
         handles' = [handles EXCEPT ![i] = read']
  PROVE  UnitInv'
<1>1. read \in Nat /\ read' \in Nat /\ handles \in [Ids -> Nat]
  BY DEF UnitInv, LineInv, HandleInv
<1>2. \A n \in 1 .. read' : n \in 1 .. read \/ n = read'
  BY <1>1
<1>3. HandleInv'
  <2>1. handles' \in [Ids -> Nat]
    BY <1>1
  <2>2. ASSUME NEW id \in Ids
        PROVE  /\ handles'[id] <= read + 1
               /\ \A n \in 1 .. read + 1 :
                    handles'[id] = n <=> Latest(id, n, read + 1)
    <3>1. handles[id] <= read /\ handles[id] \in Nat
          /\ \A n \in 1 .. read : handles[id] = n <=> Latest(id, n, read)
      BY <1>1 DEF UnitInv, HandleInv
    <3>2. /\ \A n \in 1 .. read :
               Latest(id, n, read + 1) <=> Latest(id, n, read) /\ id # i
          /\ Latest(id, read + 1, read + 1) <=> id = i
      BY <1>1, LatestNext, LinesDiffer
    <3>3. handles'[id] = IF id = i THEN read' ELSE handles[id]
      BY <1>1
    <3> QED
      BY <1>1, <1>2, <3>1, <3>2, <3>3
  <2> QED
    BY <2>1, <2>2, HandlesNext
<1>4. \A n \in 1 .. read : ~EndsUnit(n, read')
  BY LinesDiffer DEF EndsUnit
<1>5. sent[read'].type = "unit_begin"
  BY LinesDiffer
<1>6. \A n \in 1 .. read' :
        Open(n, read') <=> (n \in 1 .. read /\ Open(n, read)) \/ n = read'
  BY <1>1, <1>2, <1>4, <1>5, OpenNext
<1>7. active' = {n \in 1 .. read' : Open(n, read')}
  BY <1>1, <1>6, PairedMeansOpen DEF UnitInv
<1>8. UnitsPaired'
  BY <1>7 DEF UnitsPaired, Open, EndsUnit
<1> QED
  BY <1>3, <1>8 DEF UnitInv

LEMMA EndKeepsUnits ==
  ASSUME UnitInv, LineInv', read' = read + 1, sent' = sent, NEW i \in Ids,
         sent[read'] = End(i),
         active' = active \ {handles[i]},
         handles' = [handles EXCEPT ![i] = 0]
  PROVE  UnitInv'
<1>1. read \in Nat /\ read' \in Nat /\ handles \in [Ids -> Nat]
  BY DEF UnitInv, LineInv, HandleInv
<1>2. \A n \in 1 .. read' : n \in 1 .. read \/ n = read'
  BY <1>1
<1>3. HandleInv'
  <2>1. handles' \in [Ids -> Nat]
    BY <1>1
  <2>2. ASSUME NEW id \in Ids
        PROVE  /\ handles'[id] <= read + 1
               /\ \A n \in 1 .. read + 1 :
                    handles'[id] = n <=> Latest(id, n, read + 1)
    <3>1. handles[id] <= read /\ handles[id] \in Nat
          /\ \A n \in 1 .. read : handles[id] = n <=> Latest(id, n, read)
      BY <1>1 DEF UnitInv, HandleInv
    <3>2. /\ \A n \in 1 .. read :
               Latest(id, n, read + 1) <=> Latest(id, n, read) /\ id # i
          /\ ~Latest(id, read + 1, read + 1)
      BY <1>1, LatestNext, LinesDiffer
    <3>3. handles'[id] = IF id = i THEN 0 ELSE handles[id]
      BY <1>1
    <3> QED
      BY <1>1, <1>2, <3>1, <3>2, <3>3
  <2> QED
    BY <2>1, <2>2, HandlesNext
<1>4. \A n \in 1 .. read :
        Open(n, read) /\ EndsUnit(n, read') <=> n = handles[i]
  BY EndsLatest DEF UnitInv, HandleInv
<1>5. sent[read'].type # "unit_begin"
  BY LinesDiffer
<1>6. \A n \in 1 .. read' : Open(n, read')
        <=> n \in 1 .. read /\ Open(n, read) /\ n # handles[i]
  BY <1>1, <1>2, <1>4, <1>5, OpenNext
<1>7. active' = {n \in 1 .. read' : Open(n, read')}
  BY <1>1, <1>6, PairedMeansOpen DEF UnitInv
<1>8. UnitsPaired'
  BY <1>7 DEF UnitsPaired, Open, EndsUnit
<1> QED
  BY <1>3, <1>8 DEF UnitInv

LEMMA UnitsInductive == UnitInv /\ [Next]_vars => UnitInv'
<1> SUFFICES ASSUME UnitInv, [Next]_vars PROVE UnitInv'
  OBVIOUS
<1>1. LineInv' /\ read \in Nat /\ sent[read + 1] = NextLine
  BY LinesInductive DEF UnitInv, LineInv, NextLine
<1>2. CASE Reader
  <2>1. CASE PassLine \/ LongLine
    <3>1. read' = read + 1 /\ sent' = sent /\ UNCHANGED unitVars
          /\ sent[read'].type \in {"signal", "bad", "long"}
      BY <1>1, <2>1 DEF PassLine, LongLine, ReadLine
    <3> QED
      BY <1>1, <3>1, PlainKeepsUnits
  <2>2. CASE BeginUnit
    <3>1. /\ read' = read + 1 /\ sent' = sent /\ read < fetched
          /\ sent[read'].type = "unit_begin"
          /\ active' = active \union {read'}
          /\ handles' = [handles EXCEPT ![sent[read'].id] = read']
      BY <1>1, <2>2 DEF BeginUnit, ReadLine
    <3>2. sent[read'] \in Lines
      BY <1>1, <3>1, SentLines DEF UnitInv, LineInv
    <3>3. sent[read'] = Begin(sent[read'].id) /\ sent[read'].id \in Ids
      BY <3>1, <3>2, LineKinds
    <3> QED
      BY <1>1, <3>1, <3>3, BeginKeepsUnits
  <2>3. CASE EndUnit
    <3>1. /\ read' = read + 1 /\ sent' = sent /\ read < fetched
          /\ sent[read'].type = "unit_end"
          /\ active' = active \ {handles[sent[read'].id]}
          /\ handles' = [handles EXCEPT ![sent[read'].id] = 0]
      BY <1>1, <2>3 DEF EndUnit, ReadLine
    <3>2. sent[read'] \in Lines
      BY <1>1, <3>1, SentLines DEF UnitInv, LineInv
    <3>3. sent[read'] = End(sent[read'].id) /\ sent[read'].id \in Ids
      BY <3>1, <3>2, LineKinds
    <3> QED
      BY <1>1, <3>1, <3>3, EndKeepsUnits
  <2>4. CASE Fetch \/ ReaderEnds
    BY <1>1, <2>4, UnreadChangesNothing DEF Fetch, ReaderEnds
  <2> QED
    BY <1>2, <2>1, <2>2, <2>3, <2>4 DEF Reader
<1>3. CASE \E line \in Lines : Write(line)
  BY <1>1, <1>3, WriteAppends, UnreadChangesNothing DEF UnitInv
<1>4. ASSUME UNCHANGED <<sent, read, unitVars>> PROVE UnitInv'
  BY <1>1, <1>4, UnreadChangesNothing
<1>5. CASE Launch \/ Cleanup \/ Join \/ Dial \/ HangUp \/ ChildEnds
  BY <1>4, <1>5 DEF Launch, Cleanup, Join, Dial, HangUp, ChildEnds
<1>6. CASE Tick \/ HoldOutput \/ ReleaseOutput \/ Probe \/ ProbeEnds
  BY <1>4, <1>6 DEF Tick, HoldOutput, ReleaseOutput, Probe, CommandEnds,
     UseFailure, UseLine, NextRun, ProbeEnds
<1>7. CASE Relaying \/ AcceptFails
  BY <1>4, <1>7 DEF Relaying, Accept, Relay, RelayEnds, AcceptFails
<1>8. CASE UNCHANGED vars
  BY <1>4, <1>8 DEF vars
<1> QED
  BY <1>2, <1>3, <1>5, <1>6, <1>7, <1>8 DEF Next, Child, Resting

(* However the child reuses its numbers, and in whatever pieces its lines  *)
(* arrive: the engine's units are those that were begun and not ended.     *)
THEOREM UnitsArePaired == Spec => []UnitsPaired
<1>1. UnitInv => UnitsPaired
  BY DEF UnitInv
<1> QED
  BY <1>1, InitUnits, UnitsInductive, PTL DEF Spec
-----------------------------------------------------------------------------
(* After the failure that stops the probe no outcome is used any more: a   *)
(* run started by a tick that was ready at the stop is killed and ignored. *)
FatalInv ==
  /\ fatals \in Nat
  /\ fatals <= (IF reaction = "fail-probe" THEN 1 ELSE 0)
  /\ fatals > 0 => stopped /\ probe # "use"

LEMMA FatalInductive == FatalInv /\ [Next]_vars => FatalInv'
<1> SUFFICES ASSUME FatalInv, [Next]_vars PROVE FatalInv'
  OBVIOUS
<1> USE DEF FatalInv, probeVars
<1>1. CASE \E out \in Outputs : CommandEnds(out)
  BY <1>1 DEF CommandEnds
<1>2. CASE UseFailure
  BY <1>2 DEF UseFailure
<1>3. CASE UseLine
  BY <1>3 DEF UseLine
<1>4. CASE NextRun \/ ProbeEnds \/ Tick \/ HoldOutput \/ ReleaseOutput
  BY <1>4 DEF NextRun, ProbeEnds, Tick, HoldOutput, ReleaseOutput
<1>5. CASE Reader
  BY <1>5 DEF Reader, Fetch, PassLine, LongLine, BeginUnit, EndUnit,
              ReadLine, ReaderEnds
<1>6. CASE Launch \/ Cleanup \/ Join \/ Child
  BY <1>6 DEF Launch, Cleanup, Join, Child, Dial, HangUp, ChildEnds, Write
<1>7. CASE Relaying \/ AcceptFails
  BY <1>7 DEF Relaying, Accept, Relay, RelayEnds, AcceptFails
<1>8. CASE UNCHANGED vars
  BY <1>8 DEF vars
<1> QED
  BY <1>1, <1>2, <1>3, <1>4, <1>5, <1>6, <1>7, <1>8
  DEF Next, Probe, Resting

(* A probe fails its execution once at most, and only if it was told to.   *)
THEOREM FatalAtMostOnce == Spec => []FatalOnce
<1>1. Init => FatalInv
  BY DEF Init, FatalInv
<1>2. FatalInv => FatalOnce
  BY DEF FatalInv, FatalOnce
<1> QED
  BY <1>1, <1>2, FatalInductive, PTL DEF Spec
-----------------------------------------------------------------------------
(* What the probe has in its hands: a failure, or one line or two of which *)
(* the first is refused.                                                   *)
OneLine == output = Failure \/ \E l : output = <<l>>
TwoLines == \E l : output = <<Plain("bad"), l>>

OutputInv ==
  /\ probe \in {"none", "run", "use", "wait", "done"}
  /\ probe = "use" => OneLine \/ TwoLines

LEMMA UseTwo ==
  ASSUME TwoLines, UseFailure \/ UseLine
  PROVE  /\ probe' = "wait" \/ (probe' = "use" /\ OneLine')
         /\ UNCHANGED stopped
<1>1. PICK l : output = <<Plain("bad"), l>>
  BY DEF TwoLines
<1>2. output # Failure /\ Head(output).type = "bad" /\ Tail(output) = <<l>>
  BY <1>1 DEF Failure, Plain
<1>3. UseLine
  BY <1>2 DEF UseFailure
<1>4. output' = (IF limitValid THEN <<l>> ELSE <<>>) /\ UNCHANGED stopped
  BY <1>2, <1>3 DEF UseLine
<1> QED
  BY <1>3, <1>4 DEF UseLine, OneLine

LEMMA UseOne ==
  ASSUME OneLine, UseFailure \/ UseLine
  PROVE  probe' = "wait" /\ (stopped => stopped')
<1>1. CASE UseFailure
  BY <1>1 DEF UseFailure
<1>2. CASE UseLine
  <2>1. PICK l : output = <<l>>
    BY <1>2 DEF OneLine, UseLine
  <2>2. Tail(output) = <<>>
    BY <2>1
  <2>3. output' = <<>>
    BY <1>2, <2>2 DEF UseLine
  <2> QED
    BY <1>2, <2>3 DEF UseLine
<1> QED
  BY <1>1, <1>2

(* A step that is not one of the probe's own leaves it where it is.        *)
LEMMA ProbeMoves ==
  ASSUME [Next]_vars
  PROVE  \/ Probe \/ ProbeEnds
         \/ UNCHANGED <<probe, output>> /\ (stopped => stopped')
         \/ Launch
<1> USE DEF probeVars
<1>1. CASE Reader
  BY <1>1 DEF Reader, Fetch, PassLine, LongLine, BeginUnit, EndUnit,
              ReadLine, ReaderEnds
<1>2. CASE Cleanup \/ Join \/ Child
  BY <1>2 DEF Cleanup, Join, Child, Dial, HangUp, ChildEnds, Write
<1>3. CASE Relaying \/ AcceptFails
  BY <1>3 DEF Relaying, Accept, Relay, RelayEnds, AcceptFails
<1>4. CASE Tick \/ HoldOutput \/ ReleaseOutput
  BY <1>4 DEF Tick, HoldOutput, ReleaseOutput
<1>5. CASE UNCHANGED vars
  BY <1>5 DEF vars
<1> QED
  BY <1>1, <1>2, <1>3, <1>4, <1>5 DEF Next, Resting

(* Nothing stops the probe before Func has started it.                     *)
StartInv ==
  func = "started" => ~stopped /\ probe = "none"

LEMMA ProbeInductive ==
  OutputInv /\ StartInv /\ [Next]_vars => OutputInv' /\ StartInv'
<1> SUFFICES ASSUME OutputInv, StartInv, [Next]_vars
             PROVE  OutputInv' /\ StartInv'
  OBVIOUS
<1> USE DEF probeVars
<1>1. CASE Launch
  BY <1>1 DEF Launch, OutputInv, StartInv
<1>2. CASE \E out \in Outputs : CommandEnds(out)
  <2>1. PICK out \in Outputs : CommandEnds(out)
    BY <1>2
  <2>2. CASE stopped \/ out = <<>>
    BY <2>1, <2>2 DEF CommandEnds, OutputInv, StartInv
  <2>3. CASE ~stopped /\ out # <<>>
    <3>1. output' = out /\ UNCHANGED <<func, stopped>> /\ probe' = "use"
          /\ probe = "run"
      BY <2>1, <2>3 DEF CommandEnds
    <3>2. OneLine' \/ TwoLines'
      BY <2>3, <3>1 DEF Outputs, OneLine, TwoLines
    <3> QED
      BY <3>1, <3>2 DEF OutputInv, StartInv
  <2> QED
    BY <2>2, <2>3
<1>3. CASE UseFailure \/ UseLine
  <2>1. probe = "use" /\ UNCHANGED func
    BY <1>3 DEF UseFailure, UseLine
  <2>2. OneLine \/ TwoLines
    BY <2>1 DEF OutputInv
  <2>3. probe' = "wait" \/ (probe' = "use" /\ OneLine')
    BY <1>3, <2>2, UseOne, UseTwo
  <2> QED
    BY <2>1, <2>3 DEF OutputInv, StartInv
<1>4. CASE NextRun \/ ProbeEnds
  BY <1>4 DEF NextRun, ProbeEnds, OutputInv, StartInv
<1>5. CASE UNCHANGED <<probe, output>> /\ ~Launch /\ ~Probe /\ ~ProbeEnds
  <2>1. OutputInv'
    BY <1>5 DEF OutputInv, OneLine, TwoLines
  <2>2. func' = "started" => func = "started" /\ UNCHANGED stopped
    BY <1>5 DEF Next, Resting, Reader, Fetch, PassLine, LongLine, BeginUnit,
       EndUnit, ReadLine, ReaderEnds, Cleanup, Join, Child, Dial, HangUp,
       ChildEnds, Write, Relaying, Accept, Relay, RelayEnds, AcceptFails,
       Tick, HoldOutput, ReleaseOutput, vars
  <2> QED
    BY <1>5, <2>1, <2>2 DEF StartInv
<1> QED
  BY <1>1, <1>2, <1>3, <1>4, <1>5, ProbeMoves DEF Probe

LEMMA ProbeInvariance == Spec => [](OutputInv /\ StartInv)
<1>1. Init => OutputInv /\ StartInv
  BY DEF Init, OutputInv, StartInv
<1> QED
  BY <1>1, ProbeInductive, PTL DEF Spec

(* The guards of the probe's steps, of the read loop's, the relay's and    *)
(* Func's, with what makes each step possible.  The prover does not look   *)
(* into ENABLED, so the liveness theorems take this as a hypothesis; it    *)
(* holds by the definitions of the steps.                                  *)
ProbeCanStep ==
  /\ probe = "use" => ENABLED <<UseFailure \/ UseLine>>_vars
  /\ probe = "run" /\ stopped /\ ~held => ENABLED <<KilledEnds>>_vars
  /\ probe = "wait" /\ stopped => ENABLED <<ProbeEnds>>_vars

LinesCanStep ==
  /\ func = "started" => ENABLED <<Launch>>_vars
  /\ func = "select" /\ child # "running" => ENABLED <<Cleanup>>_vars
  /\ func = "join" /\ reader = "done" => ENABLED <<Join>>_vars
  /\ reader = "running" /\ func = "select" /\ fetched < arrived =>
       ENABLED <<Reader>>_vars
  /\ reader = "running" /\ func = "join" => ENABLED <<Reader>>_vars
  /\ relay = "accept" /\ conn # "none" => ENABLED <<Relaying>>_vars
  /\ relay = "copy" /\ relayed < Len(sent) /\ ~writeEnd =>
       ENABLED <<Relaying>>_vars

IntakeCanStep == ProbeCanStep /\ LinesCanStep

(* What is done with a stopped probe's output is done after two steps, its *)
(* command is killed when nobody holds the output, and every time its      *)
(* goroutine waits it may see that it is stopped.                          *)
THEOREM StoppedProbeEnds == FairSpec /\ []IntakeCanStep => ProbeStops
<1> DEFINE Inv == OutputInv /\ StartInv
           Two == stopped /\ probe = "use" /\ TwoLines
           One == stopped /\ probe = "use" /\ OneLine
           Run == stopped /\ probe = "run"
           Wait == stopped /\ probe = "wait"
           Ended == probe \in {"none", "done"}
           Use == UseFailure \/ UseLine
<1>1. Inv /\ stopped => Two \/ One \/ Run \/ Wait \/ Ended
  BY DEF OutputInv
<1>2. ASSUME stopped, [Next]_vars, Inv
      PROVE  \/ \E out \in Outputs : CommandEnds(out)
             \/ Use \/ NextRun \/ ProbeEnds
             \/ UNCHANGED <<probe, output>> /\ stopped'
  BY <1>2, ProbeMoves DEF Probe, Launch, StartInv
<1>3. Inv /\ Two /\ [Next]_vars => Two' \/ One' \/ Wait'
  <2> SUFFICES ASSUME Inv, Two, [Next]_vars PROVE Two' \/ One' \/ Wait'
    OBVIOUS
  <2>1. CASE Use
    BY <2>1, UseTwo
  <2>2. CASE UNCHANGED <<probe, output>> /\ stopped'
    BY <2>2 DEF TwoLines
  <2> QED
    BY <1>2, <2>1, <2>2 DEF CommandEnds, NextRun, ProbeEnds
<1>4. Two /\ <<Use>>_vars => One' \/ Wait'
  BY UseTwo
<1>5. Inv /\ One /\ [Next]_vars => One' \/ Wait'
  <2> SUFFICES ASSUME Inv, One, [Next]_vars PROVE One' \/ Wait'
    OBVIOUS
  <2>1. CASE Use
    BY <2>1, UseOne
  <2>2. CASE UNCHANGED <<probe, output>> /\ stopped'
    BY <2>2 DEF OneLine
  <2> QED
    BY <1>2, <2>1, <2>2 DEF CommandEnds, NextRun, ProbeEnds
<1>6. One /\ <<Use>>_vars => Wait'
  BY UseOne
<1>7. Inv /\ Run /\ [Next]_vars => Run' \/ Wait'
  <2> SUFFICES ASSUME Inv, Run, [Next]_vars PROVE Run' \/ Wait'
    OBVIOUS
  <2> QED
    BY <1>2 DEF CommandEnds, UseFailure, UseLine, NextRun, ProbeEnds
<1>8. Run /\ <<KilledEnds>>_vars => Wait'
  BY DEF KilledEnds, CommandEnds
<1>9. Inv /\ Wait /\ [Next]_vars => Wait' \/ Run' \/ Ended'
  <2> SUFFICES ASSUME Inv, Wait, [Next]_vars
               PROVE  Wait' \/ Run' \/ Ended'
    OBVIOUS
  <2> QED
    BY <1>2 DEF CommandEnds, UseFailure, UseLine, NextRun, ProbeEnds
<1>10. <<ProbeEnds>>_vars => Ended'
  BY DEF ProbeEnds
<1>11. IntakeCanStep =>
         /\ Two \/ One => ENABLED <<Use>>_vars
         /\ Run /\ ~held => ENABLED <<KilledEnds>>_vars
         /\ Wait => ENABLED <<ProbeEnds>>_vars
  BY DEF IntakeCanStep, ProbeCanStep
<1>12. ProbeStops <=> (<>[]~held => (stopped ~> Ended))
  BY DEF ProbeStops
<1> HIDE DEF Inv, Two, One, Run, Wait, Ended
<1>13. Spec => []Inv
  BY ProbeInvariance DEF Inv
<1>14. FairSpec /\ []IntakeCanStep => (Two ~> One \/ Wait) /\ (One ~> Wait)
  BY <1>3, <1>4, <1>5, <1>6, <1>11, <1>13, PTL DEF FairSpec, Spec, Fairness
<1>15. FairSpec /\ []IntakeCanStep /\ <>[]~held => (Run ~> Wait)
  BY <1>7, <1>8, <1>11, <1>13, PTL DEF FairSpec, Spec, Fairness
<1>16. FairSpec /\ []IntakeCanStep /\ <>[]~held => (Wait ~> Ended)
  BY <1>9, <1>10, <1>11, <1>13, <1>15, PTL DEF FairSpec, Spec, Fairness
<1> QED
  BY <1>1, <1>12, <1>13, <1>14, <1>15, <1>16, PTL DEF FairSpec
-----------------------------------------------------------------------------
(* How far Func and the read loop are, and why the loop is over while the  *)
(* child may still write.                                                  *)
LoopInv ==
  /\ func \in {"started", "select", "join", "returned"}
  /\ reader \in {"unborn", "running", "done"}
  /\ reader = "unborn" <=> func = "started"
  /\ writeEnd => func = "started"
  /\ platform = "unix" => arrived = Len(sent)
  /\ platform = "windows" => relay \in {"accept", "copy", "done"}
  /\ conn \in {"none", "open", "closed"}
  /\ relay = "done" => conn # "open"
  /\ relay = "copy" => conn # "none"
  /\ reader = "done" /\ func = "select" =>
       \/ ReadLong \/ ~limitValid
       \/ fetched = arrived /\ (platform = "unix" => conn = "closed")
  /\ func = "returned" => reader = "done"

LEMMA LongStays == LineInv /\ ReadLong /\ [Next]_vars => ReadLong'
<1> SUFFICES ASSUME LineInv, ReadLong, [Next]_vars PROVE ReadLong'
  OBVIOUS
<1>1. CASE \E line \in Lines : Write(line)
  BY <1>1, WriteAppends DEF ReadLong
<1>2. CASE Reader
  <2>1. sent' = sent /\ (read' = read \/ read' = read + 1) /\ read \in Nat
    BY <1>2 DEF Reader, Fetch, PassLine, LongLine, BeginUnit, EndUnit,
                ReadLine, ReaderEnds, LineInv
  <2> QED
    BY <2>1 DEF ReadLong
<1>3. CASE UNCHANGED <<sent, read>>
  BY <1>3 DEF ReadLong
<1>4. Relaying \/ AcceptFails \/ Dial \/ HangUp \/ ChildEnds
        \/ Launch \/ Cleanup \/ Join \/ UNCHANGED vars
      => UNCHANGED <<sent, read>>
  BY DEF Relaying, Accept, Relay, RelayEnds, AcceptFails, Dial, HangUp,
     ChildEnds, Launch, Cleanup, Join, vars
<1>5. Tick \/ HoldOutput \/ ReleaseOutput \/ Probe \/ ProbeEnds
      => UNCHANGED <<sent, read>>
  BY DEF Tick, HoldOutput, ReleaseOutput, Probe, CommandEnds, UseFailure,
     UseLine, NextRun, ProbeEnds
<1> QED
  BY <1>1, <1>2, <1>3, <1>4, <1>5 DEF Next, Child, Resting

(* Who moves Func, the read loop, the relay and the child.                 *)
LEMMA LoopMoves ==
  ASSUME [Next]_vars
  PROVE  /\ platform' = platform /\ limitValid' = limitValid
         /\ UNCHANGED func \/ Launch \/ Cleanup \/ Join
         /\ UNCHANGED <<reader, read, fetched>> \/ Reader \/ Launch
         /\ UNCHANGED relay \/ Relaying \/ AcceptFails
         /\ child # "running" => child' # "running"
<1>1. CASE Reader
  BY <1>1 DEF Reader, Fetch, PassLine, LongLine, BeginUnit, EndUnit,
              ReadLine, ReaderEnds
<1>2. CASE Launch \/ Cleanup \/ Join \/ Child
  BY <1>2 DEF Launch, Cleanup, Join, Child, Write, Dial, HangUp, ChildEnds
<1>3. CASE Relaying \/ AcceptFails
  BY <1>3 DEF Relaying, Accept, Relay, RelayEnds, AcceptFails
<1>4. CASE Tick \/ HoldOutput \/ ReleaseOutput \/ Probe \/ ProbeEnds
  BY <1>4 DEF Tick, HoldOutput, ReleaseOutput, Probe, CommandEnds,
              UseFailure, UseLine, NextRun, ProbeEnds
<1>5. CASE UNCHANGED vars
  BY <1>5 DEF vars
<1> QED
  BY <1>1, <1>2, <1>3, <1>4, <1>5 DEF Next, Resting

LEMMA LongSeen ==
  ASSUME LineInv, LongLine
  PROVE  ReadLong'
  BY DEF LongLine, ReadLine, NextLine, ReadLong, LineInv

LEMMA LoopInductive == LineInv /\ LoopInv /\ [Next]_vars => LoopInv'
<1> SUFFICES ASSUME LineInv, LoopInv, [Next]_vars PROVE LoopInv'
  OBVIOUS
<1> USE DEF LoopInv
<1>1. ReadLong => ReadLong'
  BY LongStays
<1>2. CASE \E line \in Lines : Write(line)
  <2>1. PICK line \in Lines : Write(line)
    BY <1>2
  <2>2. Len(sent') = Len(sent) + 1
    BY <2>1, AppendProperties DEF Write, LineInv
  <2> QED
    BY <1>1, <2>1, <2>2 DEF Write, LineInv
<1>3. CASE Relaying \/ AcceptFails
  BY <1>1, <1>3 DEF Relaying, Accept, Relay, RelayEnds, AcceptFails, LineInv
<1>4. CASE Fetch \/ PassLine \/ BeginUnit \/ EndUnit
  BY <1>4 DEF Fetch, PassLine, BeginUnit, EndUnit, ReadLine
<1>5. CASE LongLine
  BY <1>5, LongSeen DEF LongLine, ReadLine
<1>6. CASE ReaderEnds
  BY <1>6 DEF ReaderEnds
<1>7. CASE Launch \/ Cleanup \/ Join \/ Dial \/ HangUp \/ ChildEnds
  BY <1>1, <1>7 DEF Launch, Cleanup, Join, Dial, HangUp, ChildEnds, LineInv
<1>8. CASE Tick \/ HoldOutput \/ ReleaseOutput \/ Probe \/ ProbeEnds
  BY <1>1, <1>8 DEF Tick, HoldOutput, ReleaseOutput, Probe, CommandEnds,
              UseFailure, UseLine, NextRun, ProbeEnds
<1>9. CASE UNCHANGED vars
  BY <1>1, <1>9 DEF vars
<1> QED
  BY <1>2, <1>3, <1>4, <1>5, <1>6, <1>7, <1>8, <1>9
  DEF Next, Child, Reader, Resting

LEMMA LoopInvariance == Spec => [](LineInv /\ LoopInv)
<1>1. Init => LineInv /\ LoopInv
  BY InitLines DEF Init, LoopInv
<1> QED
  BY <1>1, LinesInductive, LoopInductive, PTL DEF Spec
-----------------------------------------------------------------------------
(* That the read loop gets through its buffer again and again is the one   *)
(* thing the next two theorems assume of it, LinesUsed: it follows from    *)
(* its fairness by counting the lines.                                     *)

(* Once the channel is closed the loop fetches no more: it ends when it    *)
(* is through its buffer, and only then.                                   *)
LEMMA ClosedLoop ==
  ASSUME LineInv, LoopInv, func = "join", [Next]_vars
  PROVE  /\ func' = "join" \/ Join
         /\ reader = "done" => reader' = "done"
         /\ reader = "running" /\ read = fetched =>
              UNCHANGED <<reader, read, fetched>> \/ ReaderEnds
<1>1. ~Launch /\ ~Cleanup
  BY DEF Launch, Cleanup
<1>2. Reader => reader = "running" /\ ~Fetch /\ UNCHANGED func
  BY DEF Reader, Fetch, PassLine, LongLine, BeginUnit, EndUnit, ReadLine,
         ReaderEnds
<1>3. Reader /\ read = fetched => ReaderEnds
  BY DEF Reader, Fetch, PassLine, LongLine, BeginUnit, EndUnit, ReadLine,
         LineInv
<1> QED
  BY <1>1, <1>2, <1>3, LoopMoves

(* Func gets to the join, where the closed channel ends the read loop, and *)
(* waits for nobody else: neither for a descendant that holds the channel  *)
(* nor for the probe.                                                      *)
THEOREM FuncAlwaysReturns ==
  FairSpec /\ []IntakeCanStep /\ LinesUsed => FuncReturns
<1> DEFINE Inv == LineInv /\ LoopInv
           Started == func = "started" /\ child # "running"
           Ended == func = "select" /\ child # "running"
           Closed == func = "join"
           Through == func = "join" /\ reader = "running" /\ read = fetched
           Joined == func = "join" /\ reader = "done"
           Returned == func = "returned"
           Left == child # "running"
<1>1. Inv /\ Left => Started \/ Ended \/ Closed \/ Returned
  BY DEF LoopInv
<1>2. Inv /\ Started /\ [Next]_vars => Started' \/ Ended'
  BY LoopMoves DEF Launch, Cleanup, Join
<1>3. Inv /\ Started /\ <<Launch>>_vars => Ended'
  BY DEF Launch
<1>4. Inv /\ Ended /\ [Next]_vars => Ended' \/ Closed'
  BY LoopMoves DEF Launch, Cleanup, Join
<1>5. Inv /\ Ended /\ <<Cleanup>>_vars => Closed'
  BY DEF Cleanup
<1>6. Inv /\ Closed /\ [Next]_vars => Closed' \/ Returned'
  BY ClosedLoop DEF Join
<1>7. Inv /\ Closed /\ BufferUsed => Through \/ Joined
  BY DEF LoopInv, BufferUsed
<1>8. Inv /\ Through /\ [Next]_vars => Through' \/ Joined' \/ Returned'
  BY ClosedLoop DEF Join, ReaderEnds
<1>9. Inv /\ Through /\ <<Reader>>_vars => Joined'
  BY DEF Reader, Fetch, PassLine, LongLine, BeginUnit, EndUnit, ReadLine,
         ReaderEnds, LineInv
<1>10. Inv /\ Joined /\ [Next]_vars => Joined' \/ Returned'
  BY ClosedLoop DEF Join
<1>11. <<Join>>_vars => Returned'
  BY DEF Join
<1>12. IntakeCanStep => /\ Started => ENABLED <<Launch>>_vars
                        /\ Ended => ENABLED <<Cleanup>>_vars
                        /\ Through => ENABLED <<Reader>>_vars
                        /\ Joined => ENABLED <<Join>>_vars
  BY DEF IntakeCanStep, LinesCanStep
<1>13. FuncReturns <=> (Left ~> Returned)
  BY DEF FuncReturns
<1>14. Spec => []Inv
  BY LoopInvariance DEF Inv
<1> HIDE DEF Inv, Started, Ended, Closed, Through, Joined, Returned, Left
<1>15. FairSpec /\ []IntakeCanStep => (Started ~> Ended)
  BY <1>2, <1>3, <1>12, <1>14, PTL DEF FairSpec, Spec, Fairness
<1>16. FairSpec /\ []IntakeCanStep => (Ended ~> Closed)
  BY <1>4, <1>5, <1>12, <1>14, PTL DEF FairSpec, Spec, Fairness
<1>17. FairSpec /\ LinesUsed =>
         (Closed ~> Through \/ Joined \/ Returned)
  BY <1>6, <1>7, <1>14, PTL DEF FairSpec, Spec, LinesUsed
<1>18. FairSpec /\ []IntakeCanStep => (Through ~> Joined \/ Returned)
  BY <1>8, <1>9, <1>12, <1>14, PTL DEF FairSpec, Spec, Fairness
<1>19. FairSpec /\ []IntakeCanStep => (Joined ~> Returned)
  BY <1>10, <1>11, <1>12, <1>14, PTL DEF FairSpec, Spec, Fairness
<1> QED
  BY <1>1, <1>13, <1>14, <1>15, <1>16, <1>17, <1>18, <1>19, PTL DEF FairSpec

(* What the read loop and the relay do to a child that is blocked.         *)
LEMMA FullPipe ==
  ASSUME LineInv, LoopInv, Blocked, ~ReadLong, limitValid, func = "select"
  PROVE  /\ platform = "windows" =>
              /\ relay \in {"accept", "copy"} /\ conn = "open"
              /\ relayed < Len(sent) /\ ~writeEnd
         /\ platform = "unix" => reader = "running" /\ fetched < arrived
  BY SentLines DEF LineInv, LoopInv, Blocked, Unread

LEMMA FetchMakesRoom ==
  ASSUME LineInv, LoopInv, Blocked, ~ReadLong, limitValid, func = "select",
         platform = "unix", read = fetched, Reader
  PROVE  ~Blocked'
<1>1. fetched < arrived /\ arrived <= Len(sent)
  BY FullPipe DEF LineInv
<1>2. ~(read < fetched) /\ fetched # arrived
  BY <1>1 DEF LineInv
<1>3. Fetch
  BY <1>2, Zenon DEF Reader, PassLine, LongLine, BeginUnit, EndUnit, ReadLine,
     ReaderEnds
<1>4. fetched' \in fetched + 1 .. arrived /\ UNCHANGED <<sent, platform>>
  BY <1>3 DEF Fetch
<1> QED
  BY <1>1, <1>4, SentLines DEF Blocked, Unread, LineInv

LEMMA RelayMakesRoom ==
  ASSUME LineInv, LoopInv, Blocked, platform = "windows", relay = "copy",
         Relaying
  PROVE  ~Blocked'
<1>1. Relay
  BY DEF Relaying, Accept, RelayEnds, Blocked
<1> QED
  BY <1>1, SentLines DEF Relay, Blocked, Unread, LineInv

(* The relay accepts the child's connection and then goes on whatever it   *)
(* reads, and the read loop comes back for more unless a line was too long *)
(* for it, so the pipe does not stay full.                                 *)
THEOREM ChildNotBlocked ==
  FairSpec /\ []IntakeCanStep /\ LinesUsed => ChildUnblocked
<1> DEFINE Inv == LineInv /\ LoopInv
           Full == Blocked /\ limitValid /\ ~ReadLong
           Goal == ~Blocked \/ ReadLong \/ Over
           Waiting == Full /\ func = "started"
           Accepting == /\ Full /\ func = "select"
                        /\ platform = "windows" /\ relay = "accept"
           Copying == /\ Full /\ func = "select"
                      /\ platform = "windows" /\ relay = "copy"
           Direct == Full /\ func = "select" /\ platform = "unix"
           Idle == Direct /\ read = fetched
<1>1. Inv /\ Full => Waiting \/ Accepting \/ Copying \/ Direct \/ Goal
  BY FullPipe DEF LineInv, LoopInv, Over
<1>2. Inv /\ Full /\ [Next]_vars => Full' \/ Goal'
  BY LoopMoves
<1>3. Inv /\ Waiting /\ [Next]_vars =>
        Waiting' \/ Accepting' \/ Copying' \/ Direct' \/ Goal'
  <2> SUFFICES ASSUME Inv, Waiting, [Next]_vars, Full'
               PROVE  Waiting' \/ Accepting' \/ Copying' \/ Direct'
    BY <1>2
  <2>1. Inv'
    BY LinesInductive, LoopInductive
  <2>2. func' \in {"started", "select"}
    BY LoopMoves DEF Launch, Cleanup, Join
  <2>3. platform' \in {"unix", "windows"} /\ (platform' = "windows" =>
          relay' \in {"accept", "copy"})
    BY <2>1 DEF LineInv, LoopInv, Blocked
  <2> QED
    BY <2>2, <2>3
<1>4. Inv /\ Waiting /\ <<Launch>>_vars
        => Accepting' \/ Copying' \/ Direct' \/ Goal'
  <2> SUFFICES ASSUME Inv, Waiting, Launch, [Next]_vars
               PROVE  Accepting' \/ Copying' \/ Direct' \/ Goal'
    BY DEF Next
  <2>1. ~Waiting'
    BY DEF Launch
  <2> QED
    BY <1>3, <2>1
<1>5. Inv /\ Accepting /\ [Next]_vars => Accepting' \/ Copying' \/ Goal'
  BY <1>2, LoopMoves DEF Launch, Cleanup, Join, Over, Relaying, Accept, Relay,
     RelayEnds, AcceptFails, Blocked
<1>6. Inv /\ Accepting /\ <<Relaying>>_vars => Copying' \/ Goal'
  BY DEF Relaying, Accept, Relay, RelayEnds, Blocked, Unread, ReadLong
<1>7. Inv /\ Copying /\ [Next]_vars => Copying' \/ Goal'
  <2> SUFFICES ASSUME Inv, Copying, [Next]_vars PROVE Copying' \/ Goal'
    OBVIOUS
  <2>1. Relaying => Goal'
    BY RelayMakesRoom
  <2>2. ~AcceptFails
    BY DEF AcceptFails
  <2> QED
    BY <1>2, <2>1, <2>2, LoopMoves DEF Launch, Cleanup, Join, Over
<1>8. Inv /\ Copying /\ <<Relaying>>_vars => Goal'
  BY RelayMakesRoom
<1>9. Inv /\ Direct /\ [Next]_vars => Direct' \/ Goal'
  BY <1>2, LoopMoves DEF Launch, Cleanup, Join, Over
<1>10. Inv /\ Direct /\ BufferUsed => Idle
  BY FullPipe DEF BufferUsed
<1>11. Inv /\ Idle /\ <<Reader>>_vars => Goal'
  BY FetchMakesRoom
<1>12. Inv /\ Idle /\ [Next]_vars => Idle' \/ Goal'
  BY <1>9, LoopMoves, FetchMakesRoom DEF Launch, Cleanup, Join, Over
<1>13. Inv /\ IntakeCanStep => /\ Waiting => ENABLED <<Launch>>_vars
                               /\ Accepting => ENABLED <<Relaying>>_vars
                               /\ Copying => ENABLED <<Relaying>>_vars
                               /\ Idle => ENABLED <<Reader>>_vars
  BY FullPipe DEF IntakeCanStep, LinesCanStep
<1>14. ChildUnblocked <=> (Full ~> Goal)
  BY DEF ChildUnblocked
<1>15. Spec => []Inv
  BY LoopInvariance DEF Inv
<1> HIDE DEF Inv, Full, Goal, Waiting, Accepting, Copying, Direct, Idle
<1>16. FairSpec /\ []IntakeCanStep =>
         (Waiting ~> Accepting \/ Copying \/ Direct \/ Goal)
  BY <1>3, <1>4, <1>13, <1>15, PTL DEF FairSpec, Spec, Fairness
<1>17. FairSpec /\ []IntakeCanStep => (Accepting ~> Copying \/ Goal)
  BY <1>5, <1>6, <1>13, <1>15, PTL DEF FairSpec, Spec, Fairness
<1>18. FairSpec /\ []IntakeCanStep => (Copying ~> Goal)
  BY <1>7, <1>8, <1>13, <1>15, PTL DEF FairSpec, Spec, Fairness
<1>19. FairSpec /\ LinesUsed => (Direct ~> Idle \/ Goal)
  BY <1>9, <1>10, <1>15, PTL DEF FairSpec, Spec, LinesUsed
<1>20. FairSpec /\ []IntakeCanStep => (Idle ~> Goal)
  BY <1>11, <1>12, <1>13, <1>15, PTL DEF FairSpec, Spec, Fairness
<1> QED
  BY <1>1, <1>14, <1>15, <1>16, <1>17, <1>18, <1>19, <1>20, PTL DEF FairSpec
=============================================================================
