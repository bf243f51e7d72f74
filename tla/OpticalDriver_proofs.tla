------------------------ MODULE OpticalDriver_proofs ------------------------
(***************************************************************************)
(* The driver's safety properties for any number of processes and sensors. *)
(* IInv is inductive: OneOpenFile carries the interrupt line, and with it  *)
(* optical_readmask, from open to release; a process about to read a       *)
(* single sensor has its own number in the mask.                           *)
(***************************************************************************)
EXTENDS OpticalDriver, TLAPS

(* Only an open file waits in sem's list, and only while it is blocked.      *)
QueueInv == \A p \in queue : pc[p] = "blocked"

MaskInv == \A p \in Procs : pc[p] = "single" => readmask = num[p]

IInv ==
    /\ TypeOK
    /\ OneOpenFile
    /\ HandlerHasAFile
    /\ InterruptNotStuck
    /\ QueueInv
    /\ MaskInv

(* The initial states are well typed, with no file open and no interrupt.    *)
LEMMA InitInv == Init => IInv
<1> SUFFICES ASSUME Init
             PROVE  IInv
  OBVIOUS
<1> USE OpticalAssumption DEF Init
<1>1. line \in [Sensors -> BOOLEAN]
  OBVIOUS
<1>2. TypeOK
  BY <1>1 DEF TypeOK
<1>3. OneOpenFile /\ MaskInv
  BY DEF OneOpenFile, MaskInv, Opened
<1>4. HandlerHasAFile /\ InterruptNotStuck /\ QueueInv
  BY DEF HandlerHasAFile, InterruptNotStuck, QueueInv
<1> QED
  BY <1>2, <1>3, <1>4 DEF IInv

(* Every step of the sensors, the interrupt handler and the processes keeps  *)
(* the driver's invariant.                                                   *)
LEMMA StepInv == IInv /\ [Next]_vars => IInv'
<1> SUFFICES ASSUME IInv, [Next]_vars
             PROVE  IInv'
  OBVIOUS
<1> USE OpticalAssumption
    DEF IInv, TypeOK, OneOpenFile, HandlerHasAFile, InterruptNotStuck,
        QueueInv, MaskInv, Opened, Calls, Goto, vars, hardware, driver, procs
<1>1. CASE UNCHANGED vars
  BY <1>1
<1>2. ASSUME NEW s \in Sensors, SensorChanges(s)
      PROVE  IInv'
  BY <1>2 DEF SensorChanges
<1>3. CASE HandlerUps
  <2>1. CASE queue = {}
    <3>1. UNCHANGED <<queue, pc>> /\ count' = count + 1
      BY <1>3, <2>1 DEF HandlerUps
    <3>2. TypeOK'
      <4>1. count' \in Nat
        BY <3>1
      <4>2. /\ UNCHANGED <<line, isr, enabled, irq, readmask, num, val, seen>>
            /\ pending' = FALSE /\ handler' = "clear"
        BY <1>3 DEF HandlerUps
      <4> QED
        BY <3>1, <4>1, <4>2
    <3>3. OneOpenFile' /\ QueueInv' /\ MaskInv'
      BY <1>3, <3>1 DEF HandlerUps
    <3>4. HandlerHasAFile' /\ InterruptNotStuck'
      BY <1>3, <3>1 DEF HandlerUps
    <3> QED
      BY <3>2, <3>3, <3>4
  <2>2. CASE queue # {}
    <3>1. PICK p \in queue : queue' = queue \ {p} /\ Goto(p, "read")
                                /\ UNCHANGED count
      BY <1>3, <2>2 DEF HandlerUps
    <3> QED
      BY <1>3, <3>1 DEF HandlerUps
  <2> QED
    BY <2>1, <2>2
<1>4. CASE HandlerClears
  BY <1>4 DEF HandlerClears
<1>5. ASSUME NEW p \in Procs, NEW s \in Sensors, OpenResets(p, s)
      PROVE  IInv'
  BY <1>5 DEF OpenResets
<1>6. ASSUME NEW p \in Procs, OpenRequests(p)
      PROVE  IInv'
  BY <1>6 DEF OpenRequests
<1>7. ASSUME NEW p \in Procs, Release(p)
      PROVE  IInv'
  BY <1>7 DEF Release
<1>8. ASSUME NEW p \in Procs, SetMask(p)
      PROVE  IInv'
  BY <1>8 DEF SetMask
<1>9. ASSUME NEW p \in Procs, GetSg(p)
      PROVE  IInv'
  BY <1>9 DEF GetSg
<1>10. ASSUME NEW p \in Procs, GetAll(p)
       PROVE  IInv'
  BY <1>10 DEF GetAll
<1>11. ASSUME NEW p \in Procs, WaitCompares(p)
       PROVE  IInv'
  BY <1>11, SMTT(40) DEF WaitCompares
<1>12. ASSUME NEW p \in Procs, WaitEnables(p)
       PROVE  IInv'
  BY <1>12 DEF WaitEnables
<1>13. ASSUME NEW p \in Procs, WaitDowns(p)
       PROVE  IInv'
  BY <1>13 DEF WaitDowns
<1>14. ASSUME NEW p \in Procs, WaitReads(p)
       PROVE  IInv'
  BY <1>14 DEF WaitReads
<1> QED
  BY <1>1, <1>2, <1>3, <1>4, <1>5, <1>6, <1>7, <1>8, <1>9, <1>10, <1>11,
     <1>12, <1>13, <1>14
     DEF Next, Process

(* The six parts hold of every state of every process and of the interrupt.   *)
THEOREM Invariance == Spec => []IInv
BY InitInv, StepInv, PTL DEF Spec

(* Type correctness of the driver, its callers and the hardware.             *)
THEOREM TypeCorrect == Spec => []TypeOK
<1>1. IInv => TypeOK
  BY DEF IInv
<1> QED
  BY Invariance, <1>1, PTL

(* request_irq of optical_open serialises the processes: the one between     *)
(* open and release, if any, owns the line.                                  *)
THEOREM OneProcessInside == Spec => []OneOpenFile
<1>1. IInv => OneOpenFile
  BY DEF IInv
<1> QED
  BY Invariance, <1>1, PTL

(* optical_intr runs only for an open file (free_irq waits for it).          *)
THEOREM HandlerBelongsToAFile == Spec => []HandlerHasAFile
<1>1. IInv => HandlerHasAFile
  BY DEF IInv
<1> QED
  BY Invariance, <1>1, PTL

(* The rising edge the driver relies on is never lost: a high line is        *)
(* latched or being served.                                                  *)
THEOREM EdgeNeverLost == Spec => []InterruptNotStuck
<1>1. IInv => InterruptNotStuck
  BY DEF IInv
<1> QED
  BY Invariance, <1>1, PTL

(* zrcar_opt_get_sg answers for the sensor it was asked about.               *)
THEOREM RightSensor == Spec => ReadsOwnSensor
<1>1. IInv /\ [Next]_vars
        => [\A p \in Procs : (pc[p] = "single" /\ pc'[p] = "close")
                                 => val'[p] = line[num[p]]]_vars
  <2> SUFFICES ASSUME IInv, [Next]_vars, NEW p \in Procs,
                      pc[p] = "single", pc'[p] = "close"
               PROVE  val'[p] = line[num[p]]
    OBVIOUS
  <2> USE DEF IInv, TypeOK, Goto
  <2>1. readmask = num[p]
    BY DEF MaskInv
  <2>2. GetSg(p)
    <3>1. CASE UNCHANGED vars
      BY <3>1 DEF vars, procs
    <3>2. ASSUME NEW s \in Sensors, SensorChanges(s)
          PROVE  FALSE
      BY <3>2 DEF SensorChanges, procs
    <3>3. CASE HandlerUps
      BY <3>3 DEF HandlerUps, QueueInv
    <3>4. CASE HandlerClears
      BY <3>4 DEF HandlerClears, procs
    <3>5. ASSUME NEW q \in Procs, Process(q), q # p
          PROVE  FALSE
      BY <3>5 DEF Process, Calls, OpenResets, OpenRequests, Release, SetMask, GetSg,
                  GetAll, WaitCompares, WaitEnables, WaitDowns, WaitReads
    <3>6. ASSUME Process(p)
          PROVE  GetSg(p)
      BY <3>6 DEF Process, Calls, OpenResets, OpenRequests, Release, SetMask, GetAll,
                  WaitCompares, WaitEnables, WaitDowns, WaitReads
    <3> QED
      BY <3>1, <3>2, <3>3, <3>4, <3>5, <3>6 DEF Next
  <2> QED
    BY <2>1, <2>2 DEF GetSg
<1> QED
  BY Invariance, <1>1, PTL DEF Spec, ReadsOwnSensor

=============================================================================
