---------------------------- MODULE ArmApi_proofs ----------------------------
(***************************************************************************)
(* The arm's safety properties for any number of programs and any heights. *)
(* IInv adds to StructsTellTheTruth what holds between the two writes of a *)
(* call: a program that still knows the part it drives has its first write *)
(* in the register, because whoever else wrote there took the knowledge    *)
(* away.                                                                   *)
(***************************************************************************)
EXTENDS ArmApi, TLAPS

(* What a program that knows the pump knows of it, wherever it is.           *)
PumpKnown(p) ==
    "pump" \in knows[p] =>
        /\ pc[p] \in Settled \cup {"servoL"} => TellsPump(uarm[p])
        /\ pc[p] \in {"init", "release"} => pump = FALSE
        /\ pc[p] = "catch" => pump = TRUE

(* The same of the height: at "servoL" the first servo has been set.         *)
HeightKnown(p) ==
    "height" \in knows[p] =>
        /\ pc[p] \in Settled \cup Pumping => TellsHeight(uarm[p])
        /\ pc[p] = "servoL" => servoR = target[p]

(* A program that has just been started knows nothing.                       *)
NewKnowsNothing == \A p \in Programs : pc[p] = "new" => knows[p] = {}

(* What the file tells of the arm, if it does.                               *)
FileKnown ==
    /\ "pump" \in filed => (TellsPump(file) /\ file \in Structs)
    /\ "height" \in filed => (TellsHeight(file) /\ file \in Structs)

IInv ==
    /\ TypeOK
    /\ \A p \in Programs : PumpKnown(p)
    /\ \A p \in Programs : HeightKnown(p)
    /\ NewKnowsNothing
    /\ FileKnown

(* The initial states satisfy the invariant.                                 *)
LEMMA InitInv == Init => IInv
BY ArmAssumption
   DEF Init, IInv, TypeOK, PumpKnown, HeightKnown, NewKnowsNothing, FileKnown,
       Structs, Cleared, Parts

(* Every step preserves types.                                               *)
LEMMA StepType == TypeOK /\ [Next]_vars => TypeOK'
<1> SUFFICES ASSUME TypeOK, [Next]_vars
             PROVE  TypeOK'
  OBVIOUS
<1> USE ArmAssumption
    DEF TypeOK, Structs, Parts, Cleared, Goto, Takes, Disturbs, arm, saved
<1>1. CASE UNCHANGED vars
  BY <1>1 DEF vars
<1>2. CASE SwitchChanges
  BY <1>2 DEF SwitchChanges
<1>3. ASSUME NEW p \in Programs, Program(p)
      PROVE  TypeOK'
  <2>1. CASE Starts(p)
    BY <2>1 DEF Starts
  <2>2. CASE Dies(p)
    BY <2>2 DEF Dies
  <2>3. CASE InitPumps(p)
    BY <2>3 DEF InitPumps
  <2>4. CASE InitReturns(p)
    <3>1. PICK h \in Heights :
             uarm' = [uarm EXCEPT ![p] =
                         [valid |-> TRUE, pump |-> FALSE, height |-> h]]
      BY <2>4 DEF InitReturns
    <3>2. uarm' \in [Programs -> Structs]
      BY <3>1
    <3>3. knows' \in [Programs -> SUBSET Parts] /\ filed' \in SUBSET Parts
      BY <2>4 DEF InitReturns
    <3> QED
      BY <2>4, <3>2, <3>3 DEF InitReturns
  <2>5. CASE Catches(p)
    BY <2>5 DEF Catches
  <2>6. CASE Releases(p)
    BY <2>6 DEF Releases
  <2>7. CASE TurnsValve(p)
    <3>1. valve' \in BOOLEAN
      BY <2>7 DEF TurnsValve
    <3>2. uarm' = [uarm EXCEPT ![p].pump = valve']
      BY <2>7 DEF TurnsValve
    <3>3. uarm' \in [Programs -> Structs]
      BY <3>1, <3>2
    <3>4. knows' \in [Programs -> SUBSET Parts] /\ filed' \in SUBSET Parts
      BY <2>7 DEF TurnsValve
    <3>5. /\ pc' = [pc EXCEPT ![p] = "ready"]
          /\ UNCHANGED <<target, pump, servoR, servoL, switch, file>>
      BY <2>7 DEF TurnsValve
    <3> QED
      BY <3>1, <3>3, <3>4, <3>5
  <2>8. ASSUME NEW h \in Heights, Moves(p, h)
        PROVE  TypeOK'
    BY <2>8 DEF Moves
  <2>9. CASE Looks(p)
    BY <2>9 DEF Looks
  <2>10. CASE SetsR(p)
    BY <2>10 DEF SetsR
  <2>11. CASE SetsL(p)
    BY <2>11 DEF SetsL
  <2>12. CASE SaveOpens(p)
    BY <2>12 DEF SaveOpens
  <2>13. CASE SaveWrites(p)
    <3>1. /\ pc' = [pc EXCEPT ![p] = "ready"]
          /\ UNCHANGED <<uarm, target, pump, valve, servoR, servoL, switch,
                         knows>>
      BY <2>13 DEF SaveWrites
    <3>2. file' \in {Absent, Empty} \cup Structs
      <4>1. file' = file \/ file' = uarm[p]
        BY <2>13 DEF SaveWrites
      <4> HIDE DEF Structs
      <4> QED
        BY <4>1
    <3>3. filed' \in SUBSET Parts
      <4>1. filed' = filed \/ filed' = knows[p]
        BY <2>13 DEF SaveWrites
      <4> HIDE DEF Structs, Parts
      <4> QED
        BY <4>1
    <3>4. pc' \in [Programs -> {"new", "ready", "init", "catch", "release",
                               "switch", "servoR", "servoL", "save", "dead"}]
      BY <3>1
    <3> HIDE DEF Structs, Parts
    <3> QED
      BY <3>1, <3>2, <3>3, <3>4
  <2>14. CASE Restores(p)
    <3>1. pc' \in [Programs -> {"new", "ready", "init", "catch", "release",
                               "switch", "servoR", "servoL", "save", "dead"}]
      BY <2>14 DEF Restores
    <3>2. UNCHANGED <<target, pump, valve, servoR, servoL, switch, file, filed>>
      BY <2>14 DEF Restores
    <3>3. CASE UNCHANGED <<uarm, knows>>
      <4>1. uarm' = uarm /\ knows' = knows
        BY <3>3
      <4> HIDE DEF Structs, Parts
      <4> QED
        BY <3>1, <3>2, <4>1
    <3>4. CASE /\ file \notin {Absent, Empty}
               /\ uarm' = [uarm EXCEPT ![p] = file]
               /\ knows' = [knows EXCEPT ![p] = filed]
      <4>1. file \in Structs
        BY <3>4
      <4> HIDE DEF Structs
      <4> QED
        BY <3>1, <3>2, <3>4, <4>1
    <3>5. \/ UNCHANGED <<uarm, knows>>
          \/ /\ file \notin {Absent, Empty}
             /\ uarm' = [uarm EXCEPT ![p] = file]
             /\ knows' = [knows EXCEPT ![p] = filed]
      BY <2>14 DEF Restores
    <3> HIDE DEF TypeOK
    <3> QED
      BY <3>3, <3>4, <3>5
  <2> HIDE DEF TypeOK, Structs, Parts, Cleared, Goto, Takes, Disturbs, arm,
               saved
  <2> QED
    BY <1>3, <2>1, <2>2, <2>3, <2>4, <2>5, <2>6, <2>7, <2>8, <2>9, <2>10,
       <2>11, <2>12, <2>13, <2>14 DEF Program
<1> QED
  BY <1>1, <1>2, <1>3 DEF Next

(* The file tells the truth after every step.                                *)
LEMMA StepFile == IInv /\ [Next]_vars => FileKnown'
<1> SUFFICES ASSUME IInv, [Next]_vars
             PROVE  FileKnown'
  OBVIOUS
<1> USE ArmAssumption
    DEF IInv, FileKnown, Goto, Takes, Disturbs, arm, saved, TellsPump,
        TellsHeight
<1>1. CASE UNCHANGED vars
  BY <1>1 DEF vars
<1>2. CASE SwitchChanges
  BY <1>2 DEF SwitchChanges
<1>3. ASSUME NEW p \in Programs, Program(p)
      PROVE  FileKnown'
  <2>1. CASE Starts(p) \/ Dies(p)
    BY <2>1 DEF Starts, Dies
  <2>2. CASE InitPumps(p) \/ InitReturns(p)
    BY <2>2 DEF InitPumps, InitReturns
  <2>3. CASE Catches(p) \/ Releases(p) \/ TurnsValve(p)
    BY <2>3 DEF Catches, Releases, TurnsValve
  <2>4. ASSUME NEW h \in Heights, Moves(p, h)
        PROVE  FileKnown'
    BY <2>4 DEF Moves
  <2>5. CASE Looks(p) \/ SetsR(p) \/ SetsL(p)
    BY <2>5 DEF Looks, SetsR, SetsL
  <2>6. CASE SaveOpens(p)
    BY <2>6 DEF SaveOpens
  <2>7. CASE SaveWrites(p)
    <3>1. pc[p] = "save" /\ UNCHANGED <<pump, valve, servoR, servoL>>
      BY <2>7 DEF SaveWrites
    <3>2. uarm[p] \in Structs
      BY DEF TypeOK
    <3>3. "pump" \in knows[p] => TellsPump(uarm[p])
      BY <3>1 DEF PumpKnown, Settled
    <3>4. "height" \in knows[p] => TellsHeight(uarm[p])
      BY <3>1 DEF HeightKnown, Settled
    <3>5. CASE file' = uarm[p] /\ filed' = knows[p]
      BY <3>1, <3>2, <3>3, <3>4, <3>5
    <3>6. CASE UNCHANGED saved
      BY <3>1, <3>6
    <3> QED
      BY <2>7, <3>5, <3>6 DEF SaveWrites
  <2>8. CASE Restores(p)
    BY <2>8 DEF Restores
  <2> QED
    BY <1>3, <2>1, <2>2, <2>3, <2>4, <2>5, <2>6, <2>7, <2>8 DEF Program
<1> QED
  BY <1>1, <1>2, <1>3 DEF Next

(* So do programs just started, which know nothing.                          *)
LEMMA StepNew == IInv /\ [Next]_vars => NewKnowsNothing'
<1> SUFFICES ASSUME IInv, [Next]_vars
             PROVE  NewKnowsNothing'
  OBVIOUS
<1> USE DEF IInv, TypeOK, NewKnowsNothing, Goto, Takes, Disturbs, saved
<1>1. CASE UNCHANGED vars
  BY <1>1 DEF vars
<1>2. CASE SwitchChanges
  BY <1>2 DEF SwitchChanges
<1>3. ASSUME NEW p \in Programs, Program(p)
      PROVE  NewKnowsNothing'
  <2>1. CASE Starts(p) \/ Dies(p)
    BY <2>1 DEF Starts, Dies
  <2>2. CASE InitPumps(p) \/ InitReturns(p)
    BY <2>2 DEF InitPumps, InitReturns
  <2>3. CASE Catches(p) \/ Releases(p) \/ TurnsValve(p)
    BY <2>3 DEF Catches, Releases, TurnsValve
  <2>4. ASSUME NEW h \in Heights, Moves(p, h)
        PROVE  NewKnowsNothing'
    BY <2>4 DEF Moves
  <2>5. CASE Looks(p) \/ SetsR(p) \/ SetsL(p)
    BY <2>5 DEF Looks, SetsR, SetsL
  <2>6. CASE SaveOpens(p) \/ SaveWrites(p)
    BY <2>6 DEF SaveOpens, SaveWrites
  <2>7. CASE Restores(p)
    BY <2>7 DEF Restores
  <2> QED
    BY <1>3, <2>1, <2>2, <2>3, <2>4, <2>5, <2>6, <2>7 DEF Program
<1> QED
  BY <1>1, <1>2, <1>3 DEF Next

(* Whoever knows the pump still does after a step, of his own or of another  *)
(* program.                                                                  *)
LEMMA StepPump ==
    ASSUME IInv, [Next]_vars, NEW q \in Programs
    PROVE  PumpKnown(q)'
<1> USE DEF IInv, TypeOK, PumpKnown, Goto, Takes, Disturbs, TellsPump, arm,
            saved, Settled
<1>1. CASE UNCHANGED vars
  BY <1>1 DEF vars
<1>2. CASE SwitchChanges
  BY <1>2 DEF SwitchChanges
<1>3. ASSUME NEW p \in Programs, Program(p)
      PROVE  PumpKnown(q)'
  <2>1. CASE Starts(p) \/ Dies(p)
    BY <2>1 DEF Starts, Dies
  <2>2. CASE InitPumps(p)
    BY <2>2 DEF InitPumps
  <2>3. CASE InitReturns(p)
    <3>1. PICK h \in Heights :
             uarm' = [uarm EXCEPT ![p] =
                         [valid |-> TRUE, pump |-> FALSE, height |-> h]]
      BY <2>3 DEF InitReturns
    <3>2. uarm'[p].pump = FALSE
      BY <3>1
    <3>3. pump' = pump /\ valve' = FALSE
      BY <2>3 DEF InitReturns
    <3>4. CASE q # p
      BY <2>3, <3>4 DEF InitReturns
    <3>5. CASE q = p
      <4>1. pc[p] = "init" /\ pc'[p] = "ready"
        BY <2>3 DEF InitReturns
      <4>2. "pump" \in knows'[p] => "pump" \in knows[p]
        BY <2>3 DEF InitReturns
      <4>3. "pump" \in knows[p] => pump = FALSE
        BY <3>5, <4>1
      <4> QED
        BY <3>2, <3>3, <3>5, <4>1, <4>2, <4>3
    <3> QED
      BY <3>4, <3>5
  <2>4. CASE Catches(p) \/ Releases(p)
    BY <2>4 DEF Catches, Releases
  <2>5. CASE TurnsValve(p)
    <3>1. /\ pc' = [pc EXCEPT ![p] = "ready"]
          /\ uarm' = [uarm EXCEPT ![p].pump = valve']
          /\ pump' = pump
          /\ knows' = [r \in Programs |-> IF r = p THEN knows[r]
                                                 ELSE knows[r] \ {"pump"}]
      BY <2>5 DEF TurnsValve
    <3>2. CASE q # p
      BY <3>1, <3>2
    <3>3. CASE q = p /\ pc[p] = "catch"
      <4>1. valve' = TRUE
        BY <2>5, <3>3 DEF TurnsValve
      <4>2. uarm'[p].pump = TRUE
        BY <3>1, <4>1 DEF Structs
      <4>3. "pump" \in knows[p] => pump = TRUE
        BY <3>3
      <4> QED
        BY <3>1, <3>3, <4>1, <4>2, <4>3
    <3>4. CASE q = p /\ pc[p] = "release"
      <4>1. valve' = FALSE
        BY <2>5, <3>4 DEF TurnsValve
      <4>2. uarm'[p].pump = FALSE
        BY <3>1, <4>1 DEF Structs
      <4>3. "pump" \in knows[p] => pump = FALSE
        BY <3>4
      <4> QED
        BY <3>1, <3>4, <4>1, <4>2, <4>3
    <3> QED
      BY <2>5, <3>2, <3>3, <3>4 DEF TurnsValve
  <2>6. ASSUME NEW h \in Heights, Moves(p, h)
        PROVE  PumpKnown(q)'
    BY <2>6 DEF Moves
  <2>7. CASE Looks(p) \/ SetsR(p)
    BY <2>7 DEF Looks, SetsR
  <2>8. CASE SetsL(p)
    BY <2>8 DEF SetsL
  <2>9. CASE SaveOpens(p) \/ SaveWrites(p)
    BY <2>9 DEF SaveOpens, SaveWrites
  <2>10. CASE Restores(p)
    BY <2>10 DEF Restores, FileKnown, NewKnowsNothing
  <2> QED
    BY <1>3, <2>1, <2>2, <2>3, <2>4, <2>5, <2>6, <2>7, <2>8, <2>9, <2>10
       DEF Program
<1> QED
  BY <1>1, <1>2, <1>3 DEF Next

(* The same of the height.                                                   *)
LEMMA StepHeight ==
    ASSUME IInv, [Next]_vars, NEW q \in Programs
    PROVE  HeightKnown(q)'
<1> USE DEF IInv, TypeOK, HeightKnown, Goto, Takes, Disturbs, TellsHeight, arm,
            saved, Settled, Pumping
<1>1. CASE UNCHANGED vars
  BY <1>1 DEF vars
<1>2. CASE SwitchChanges
  BY <1>2 DEF SwitchChanges
<1>3. ASSUME NEW p \in Programs, Program(p)
      PROVE  HeightKnown(q)'
  <2>1. CASE Starts(p) \/ Dies(p)
    BY <2>1 DEF Starts, Dies
  <2>2. CASE InitPumps(p)
    BY <2>2 DEF InitPumps, NewKnowsNothing
  <2>3. CASE InitReturns(p)
    BY <2>3 DEF InitReturns
  <2>4. CASE Catches(p) \/ Releases(p)
    BY <2>4 DEF Catches, Releases
  <2>5. CASE TurnsValve(p)
    BY <2>5 DEF TurnsValve
  <2>6. ASSUME NEW h \in Heights, Moves(p, h)
        PROVE  HeightKnown(q)'
    BY <2>6 DEF Moves
  <2>7. CASE Looks(p) \/ SetsR(p)
    BY <2>7 DEF Looks, SetsR
  <2>8. CASE SetsL(p)
    BY <2>8 DEF SetsL
  <2>9. CASE SaveOpens(p) \/ SaveWrites(p)
    BY <2>9 DEF SaveOpens, SaveWrites
  <2>10. CASE Restores(p)
    BY <2>10 DEF Restores, FileKnown, NewKnowsNothing
  <2> QED
    BY <1>3, <2>1, <2>2, <2>3, <2>4, <2>5, <2>6, <2>7, <2>8, <2>9, <2>10
       DEF Program
<1> QED
  BY <1>1, <1>2, <1>3 DEF Next

(* Together: every step preserves the invariant.                             *)
LEMMA StepInv == IInv /\ [Next]_vars => IInv'
<1> SUFFICES ASSUME IInv, [Next]_vars
             PROVE  IInv'
  OBVIOUS
<1>1. TypeOK'
  BY StepType DEF IInv
<1>2. FileKnown' /\ NewKnowsNothing'
  BY StepFile, StepNew
<1>3. ASSUME NEW q \in Programs
      PROVE  PumpKnown(q)' /\ HeightKnown(q)'
  BY StepPump, StepHeight
<1> QED
  BY <1>1, <1>2, <1>3 DEF IInv

(* The invariant holds in every state.                                       *)
LEMMA Invariance == Spec => []IInv
BY InitInv, StepInv, PTL DEF Spec

(* Type correctness of the arm, its programs and the state file.             *)
THEOREM TypeCorrect == Spec => []TypeOK
<1>1. IInv => TypeOK
  BY DEF IInv
<1> QED
  BY Invariance, <1>1, PTL

(* What a struct says of the arm is true while nobody else has driven it,    *)
(* through any number of hand-overs by the state file.                       *)
THEOREM Truth == Spec => []StructsTellTheTruth
<1>1. IInv => StructsTellTheTruth
  BY DEF IInv, PumpKnown, HeightKnown, FileKnown, StructsTellTheTruth
<1> QED
  BY Invariance, <1>1, PTL

(* A move with the limit switch on does not take the arm further down.       *)
THEOREM NotPressed == Spec => NeverPressesDown
<1>1. ASSUME IInv, [Next]_vars, NEW q \in Programs,
             pc[q] = "switch", pc'[q] = "servoR", switch,
             "height" \in knows[q]
      PROVE  target'[q] >= servoR /\ target'[q] >= servoL
  <2> USE DEF IInv, TypeOK, Goto
  <2>1. Looks(q)
    <3>1. ~ UNCHANGED vars /\ ~ SwitchChanges
      BY <1>1 DEF vars, SwitchChanges
    <3>2. PICK p \in Programs : Program(p)
      BY <1>1, <3>1 DEF Next
    <3>3. p = q
      BY <1>1, <3>2
         DEF Program, Starts, Dies, InitPumps, InitReturns, Catches, Releases,
             TurnsValve, Moves, Looks, SetsR, SetsL, SaveOpens, SaveWrites,
             Restores
    <3> QED
      BY <1>1, <3>2, <3>3
         DEF Program, Starts, Dies, InitPumps, InitReturns, Catches, Releases,
             TurnsValve, Moves, Looks, SetsR, SetsL, SaveOpens, SaveWrites,
             Restores
  <2>2. servoR = uarm[q].height /\ servoL = uarm[q].height
    BY <1>1 DEF HeightKnown, TellsHeight, Settled
  <2>3. target'[q] = IF target[q] < uarm[q].height THEN uarm[q].height
                                                   ELSE target[q]
    BY <1>1, <2>1 DEF Looks
  <2>4. target[q] \in Int /\ uarm[q].height \in Int
    <3>1. target[q] \in Heights /\ uarm[q] \in Structs
      BY <1>1
    <3>2. uarm[q].height \in Heights
      BY <3>1 DEF Structs
    <3> QED
      BY <3>1, <3>2, ArmAssumption
  <2> QED
    BY <2>2, <2>3, <2>4
<1>2. IInv /\ [Next]_vars
        => [\A p \in Programs :
              (pc[p] = "switch" /\ pc'[p] = "servoR" /\ switch
                 /\ "height" \in knows[p])
                  => target'[p] >= servoR /\ target'[p] >= servoL]_vars
  BY <1>1
<1> QED
  BY Invariance, <1>2, PTL DEF NeverPressesDown, Spec

(* A saved state is never lost.                                              *)
THEOREM SavedSurvives == Spec => SavedStateSurvives
<1>1. TypeOK /\ [Next]_vars
        => [file \notin {Absent, Empty} => file' \notin {Absent, Empty}]_vars
  <2> SUFFICES ASSUME TypeOK, Next, file \notin {Absent, Empty}
               PROVE  file' \notin {Absent, Empty}
    OBVIOUS
  <2>1. CASE SwitchChanges
    BY <2>1 DEF SwitchChanges, saved
  <2>2. ASSUME NEW p \in Programs, SaveWrites(p)
        PROVE  file' \notin {Absent, Empty}
    BY <2>2, ArmAssumption DEF SaveWrites, TypeOK, saved
  <2>3. ASSUME NEW p \in Programs, Program(p), ~SaveWrites(p)
        PROVE  file' = file
    BY <2>3
       DEF Program, Starts, Dies, InitPumps, InitReturns, Catches, Releases,
           TurnsValve, Moves, Looks, SetsR, SetsL, SaveOpens, Restores, saved
  <2> QED
    BY <2>1, <2>2, <2>3 DEF Next
<1> QED
  BY TypeCorrect, <1>1, PTL DEF SavedStateSurvives, Spec
=============================================================================
