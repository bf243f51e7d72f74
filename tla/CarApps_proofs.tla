--------------------------- MODULE CarApps_proofs ---------------------------
(***************************************************************************)
(* The car's programs for any number of processes and sensors.  Every step *)
(* of CarApps is a step of OpticalDriver or leaves its variables alone, so *)
(* OpticalDriver's invariant carries over; with it, the car's process is   *)
(* inside the driver only while its program reads, which keeps the reading *)
(* as it is from the decision to the end of the round.                     *)
(***************************************************************************)
EXTENDS CarApps, OpticalDriver_proofs

(* Where the car's process may be, and what its program does meanwhile.      *)
CarPlace ==
    /\ pc[Car] \in {"idle", "request", "all", "close"}
    /\ pc[Car] # "idle" => (program = "optical" /\ app \in {"init", "read"})
    /\ app = "echo" => program = "ultrasonic"
    /\ app = "init" => todo = <<"start">>

(* The decision stands until the next reading.                               *)
Decided ==
    app \in {"left", "right", "sleep"} =>
        \/ todo = <<"start">>
        \/ program = "optical" /\ todo = Steers(seen[Car])
        \/ /\ program = "ultrasonic"
           /\ todo \in {Avoids(ult_data), Tail(Avoids(ult_data))}

(* Between the two wheel calls the left wheel is set, after them both are.   *)
SetSoFar ==
    /\ app = "right" => left = Speeds(Head(todo))[1]
    /\ app = "sleep" => wheels = Speeds(Head(todo))

CarIInv ==
    /\ CarTypeOK
    /\ CarPlace
    /\ Decided
    /\ SetSoFar

(* A list of one manoeuvre.                                                  *)
LEMMA OneOrder ==
    ASSUME NEW a \in Orders
    PROVE  /\ <<a>> \in Seq(Orders) /\ Len(<<a>>) = 1
           /\ Len(Tail(<<a>>)) = 0
OBVIOUS

(* Taking the first of two leaves the second.                                *)
LEMMA TwoOrders ==
    ASSUME NEW a \in Orders, NEW b \in Orders
    PROVE  /\ <<a, b>> \in Seq(Orders) /\ Len(<<a, b>>) = 2
           /\ Tail(<<a, b>>) = <<b>>
OBVIOUS

(* What the decisions are made of: only a way round an obstacle has two      *)
(* manoeuvres.                                                               *)
LEMMA DecisionType ==
    /\ \A v : Steers(v) \in Seq(Orders) /\ Len(Steers(v)) = 1
    /\ \A u : /\ Avoids(u) \in Seq(Orders) /\ Len(Avoids(u)) \in {1, 2}
             /\ Len(Tail(Avoids(u))) \in {0, 1}
<1>1. ASSUME NEW v
      PROVE  Steers(v) \in Seq(Orders) /\ Len(Steers(v)) = 1
  <2>1. PICK a \in Orders : Steers(v) = <<a>>
    BY DEF Steers, Orders
  <2> QED
    BY <2>1, OneOrder
<1>2. ASSUME NEW u
      PROVE  /\ Avoids(u) \in Seq(Orders) /\ Len(Avoids(u)) \in {1, 2}
             /\ Len(Tail(Avoids(u))) \in {0, 1}
  <2>1. {"back", "left", "right", "forward"} \subseteq Orders
    BY DEF Orders
  <2>2. \/ Avoids(u) = <<"back", "left">>
        \/ Avoids(u) = <<"back", "right">>
        \/ Avoids(u) = <<"forward">>
    BY DEF Avoids
  <2>3. CASE Avoids(u) = <<"forward">>
    BY <2>1, <2>3, OneOrder
  <2>4. CASE Avoids(u) = <<"back", "left">>
    BY <2>1, <2>4, OneOrder, TwoOrders
  <2>5. CASE Avoids(u) = <<"back", "right">>
    BY <2>1, <2>5, OneOrder, TwoOrders
  <2> QED
    BY <2>2, <2>3, <2>4, <2>5
<1> QED
  BY <1>1, <1>2

(* The wheels are set to one of three speeds.                                *)
LEMMA SpeedsType ==
    \A o \in Orders :
        /\ Speeds(o) = <<Speeds(o)[1], Speeds(o)[2]>>
        /\ Speeds(o)[1] \in {Ahead, Still, Astern}
        /\ Speeds(o)[2] \in {Ahead, Still, Astern}
BY DEF Speeds, Orders

(* A manoeuvre off the list leaves a list of manoeuvres.                     *)
LEMMA TodoType ==
    ASSUME todo \in Seq(Orders), Len(todo) \in {1, 2}
    PROVE  /\ Head(todo) \in Orders
           /\ Len(todo) > 1 => /\ Tail(todo) \in Seq(Orders)
                               /\ Len(Tail(todo)) \in {1, 2}
BY SMTT(40)

(* The initial states of CarApps are initial states of the driver.           *)
LEMMA InitImplements == CarInit => Init
BY DEF CarInit

(* Every step of CarApps is one of the driver's or none.                     *)
LEMMA StepImplements == IInv /\ [CarNext]_carVars => [Next]_vars
<1> SUFFICES ASSUME IInv, [CarNext]_carVars
             PROVE  [Next]_vars
  OBVIOUS
<1> USE CarAssumption DEF optics, vars
<1>1. CASE UNCHANGED carVars
  BY <1>1 DEF carVars
<1>2. CASE SetsLeft \/ SetsRight \/ Wakes
  BY <1>2 DEF SetsLeft, SetsRight, Wakes
<1>3. CASE Opens
  <2>1. num[Car] \in Sensors
    BY DEF IInv, TypeOK
  <2> QED
    BY <1>3, <2>1 DEF Opens, Next, Process
<1>4. CASE Requests \/ Reads \/ Closes
  BY <1>4 DEF Requests, Reads, Closes, Next, Process
<1>5. CASE Interrupt \/ OthersStep
  BY <1>5 DEF Interrupt, OthersStep, Next
<1>6. CASE Measures \/ Hears \/ ObstaclesMove
  BY <1>6 DEF Measures, Hears, ObstaclesMove
<1>7. ASSUME NEW i \in Echoes, Arrives(i)
      PROVE  [Next]_vars
  BY <1>7 DEF Arrives
<1> QED
  BY <1>1, <1>2, <1>3, <1>4, <1>5, <1>6, <1>7 DEF CarNext, Runs

(* OpticalDriver's invariant holds with the car's programs on top.           *)
LEMMA DriverInvariance == CarSpec => []IInv
<1>1. CarInit => IInv
  BY InitImplements, InitInv
<1>2. IInv /\ [CarNext]_carVars => IInv'
  BY StepImplements, StepInv
<1> QED
  BY <1>1, <1>2, PTL DEF CarSpec

(* A program that has just been started has decided nothing.                 *)
LEMMA CarInitInv == CarInit => CarIInv
<1> SUFFICES ASSUME CarInit
             PROVE  CarIInv
  OBVIOUS
<1> USE CarAssumption DEF CarInit
<1>1. CarTypeOK
  <2>1. todo \in Seq(Orders) /\ Len(todo) = 1
    <3>1. "start" \in Orders /\ todo = <<"start">>
      BY DEF Orders
    <3> QED
      BY <3>1, OneOrder
  <2>2. /\ program \in Programs
        /\ app \in {"init", "left", "right", "sleep", "read", "echo"}
        /\ wheels \in {Ahead, Still, Astern} \X {Ahead, Still, Astern}
        /\ refused \in BOOLEAN
    BY DEF wheels
  <2>3. /\ near \in SUBSET Echoes /\ ready \in SUBSET Echoes
        /\ echo \in SUBSET Echoes /\ ult_data \in SUBSET Echoes
    OBVIOUS
  <2> QED
    BY <2>1, <2>2, <2>3 DEF CarTypeOK
<1>2. CarPlace
  BY DEF CarPlace, Init, Programs
<1>3. Decided /\ SetSoFar
  BY DEF Decided, SetSoFar
<1> QED
  BY <1>1, <1>2, <1>3 DEF CarIInv

(* Nobody but the car's process moves it or writes its reading.              *)
LEMMA OthersLeaveCar ==
    ASSUME IInv, CarPlace, Interrupt \/ OthersStep
    PROVE  pc'[Car] = pc[Car] /\ seen'[Car] = seen[Car]
<1> USE CarAssumption DEF IInv, TypeOK, CarPlace, Goto
<1>1. CASE Interrupt
  <2>1. CASE HandlerUps
    <3>1. Car \notin queue
      BY DEF QueueInv
    <3> QED
      BY <2>1, <3>1 DEF HandlerUps
  <2>2. CASE HandlerClears
    BY <2>2 DEF HandlerClears, procs
  <2> QED
    BY <1>1, <2>1, <2>2 DEF Interrupt
<1>2. ASSUME NEW s \in Sensors, SensorChanges(s)
      PROVE  pc'[Car] = pc[Car] /\ seen'[Car] = seen[Car]
  BY <1>2 DEF SensorChanges, procs
<1>3. ASSUME NEW p \in Procs \ {Car}, Process(p)
      PROVE  pc'[Car] = pc[Car] /\ seen'[Car] = seen[Car]
  BY <1>3 DEF Process, OpenResets, OpenRequests, Release, SetMask, GetSg,
              GetAll, WaitCompares, WaitEnables, WaitDowns, WaitReads
<1> QED
  BY <1>1, <1>2, <1>3 DEF OthersStep

(* Every step keeps the programs' invariant.                                 *)
LEMMA CarStepInv == IInv /\ CarIInv /\ [CarNext]_carVars => CarIInv'
<1> SUFFICES ASSUME IInv, CarIInv, [CarNext]_carVars
             PROVE  CarIInv'
  OBVIOUS
<1> USE CarAssumption DEF CarIInv
<1>1. CASE UNCHANGED carVars
  BY <1>1 DEF carVars, optics, hardware, driver, procs, main, wheels, sonar,
              CarTypeOK, CarPlace, Decided, SetSoFar
<1>2. CASE SetsLeft
  <2>1. left' \in {Ahead, Still, Astern}
    BY <1>2, TodoType, SpeedsType DEF SetsLeft, CarTypeOK
  <2>2. UNCHANGED <<optics, program, todo, right, refused, sonar, ult_data>>
        /\ app = "left" /\ app' = "right" /\ left' = Speeds(Head(todo))[1]
    BY <1>2 DEF SetsLeft
  <2>3. CarTypeOK'
    BY <2>1, <2>2 DEF CarTypeOK, wheels, sonar
  <2>4. CarPlace' /\ Decided'
    BY <2>2 DEF CarPlace, Decided, optics, procs
  <2>5. SetSoFar'
    BY <2>2 DEF SetSoFar
  <2> QED
    BY <2>3, <2>4, <2>5
<1>3. CASE SetsRight
  <2>1. /\ right' \in {Ahead, Still, Astern}
        /\ Speeds(Head(todo)) =
               <<Speeds(Head(todo))[1], Speeds(Head(todo))[2]>>
    BY <1>3, TodoType, SpeedsType DEF SetsRight, CarTypeOK
  <2>2. UNCHANGED <<optics, program, todo, left, refused, sonar, ult_data>>
        /\ app = "right" /\ app' = "sleep" /\ right' = Speeds(Head(todo))[2]
    BY <1>3 DEF SetsRight
  <2>3. CarTypeOK'
    BY <2>1, <2>2 DEF CarTypeOK, wheels, sonar
  <2>4. CarPlace' /\ Decided'
    BY <2>2 DEF CarPlace, Decided, optics, procs
  <2>5. SetSoFar'
    BY <2>1, <2>2 DEF SetSoFar, wheels
  <2> QED
    BY <2>3, <2>4, <2>5
<1>4. CASE Wakes
  <2>1. CASE Len(todo) > 1
    <3>1. /\ UNCHANGED <<optics, program, wheels, refused, sonar, ult_data>>
          /\ app = "sleep" /\ app' = "left" /\ todo' = Tail(todo)
      BY <1>4, <2>1 DEF Wakes
    <3>2. CarTypeOK'
      BY <2>1, <3>1, TodoType DEF CarTypeOK, wheels, sonar
    <3>3. todo' = Tail(Avoids(ult_data)) /\ program = "ultrasonic"
      <4>1. Len(todo) = 2
        BY <2>1 DEF CarTypeOK
      <4>2. todo # <<"start">> /\ todo # Steers(seen[Car])
        <5>1. Len(<<"start">>) = 1
          OBVIOUS
        <5>2. Len(Steers(seen[Car])) = 1
          BY DecisionType
        <5> QED
          BY <4>1, <5>1, <5>2
      <4>3. todo # Tail(Avoids(ult_data))
        <5>1. Len(Tail(Avoids(ult_data))) \in {0, 1}
          BY DecisionType
        <5>2. \A n \in {0, 1} : n # 2
          OBVIOUS
        <5> QED
          BY <4>1, <5>1, <5>2, Zenon
      <4>4. todo = Avoids(ult_data) /\ program = "ultrasonic"
        BY <3>1, <4>2, <4>3 DEF Decided
      <4> QED
        BY <3>1, <4>4
    <3>4. CarPlace' /\ Decided' /\ SetSoFar'
      BY <3>1, <3>3 DEF CarPlace, Decided, SetSoFar, optics, procs
    <3> QED
      BY <3>2, <3>4
  <2>2. CASE ~(Len(todo) > 1)
    <3>1. /\ UNCHANGED <<optics, program, todo, wheels, refused, sonar,
                         ult_data>>
          /\ app = "sleep" /\ app' = "read"
      BY <1>4, <2>2 DEF Wakes
    <3>2. CarTypeOK'
      BY <3>1 DEF CarTypeOK, wheels, sonar
    <3> QED
      BY <3>1, <3>2 DEF CarPlace, Decided, SetSoFar, optics, procs
  <2> QED
    BY <2>1, <2>2
<1>5. CASE Opens
  <2>1. /\ UNCHANGED <<main, wheels, refused, sonar, ult_data, seen>>
        /\ program = "optical" /\ app \in {"init", "read"}
        /\ pc' = [pc EXCEPT ![Car] = "request"]
    BY <1>5 DEF Opens, OpenResets, Goto
  <2>2. pc'[Car] = "request"
    BY <2>1 DEF IInv, TypeOK
  <2> QED
    BY <2>1, <2>2 DEF CarTypeOK, CarPlace, Decided, SetSoFar, main, wheels,
                      sonar
<1>6. CASE Requests
  <2>1. /\ UNCHANGED <<program, wheels, sonar, ult_data, seen>>
        /\ pc[Car] = "request"
        /\ program = "optical" /\ app \in {"init", "read"}
    BY <1>6 DEF Requests, OpenRequests, CarPlace
  <2>2. CASE pc'[Car] = "idle"
    <3>1. /\ app' = "left" /\ refused' = TRUE
          /\ todo' = IF app = "init" THEN todo ELSE Steers(seen[Car])
      BY <1>6, <2>2 DEF Requests
    <3> QED
      BY <2>1, <2>2, <3>1, DecisionType
         DEF CarTypeOK, CarPlace, Decided, SetSoFar, wheels, sonar
  <2>3. CASE pc'[Car] # "idle"
    <3>1. /\ UNCHANGED <<app, todo, refused>>
          /\ pc'[Car] \in {"idle", IF app = "init" THEN "close" ELSE "all"}
      BY <1>6, <2>3 DEF Requests
    <3> QED
      BY <2>1, <2>3, <3>1
         DEF CarTypeOK, CarPlace, Decided, SetSoFar, wheels, sonar
  <2> QED
    BY <2>2, <2>3
<1>7. CASE Reads
  <2>1. /\ UNCHANGED <<main, wheels, sonar, ult_data>>
        /\ refused' = FALSE
        /\ app \in {"init", "read"} /\ program = "optical"
        /\ pc' = [pc EXCEPT ![Car] = "close"]
    BY <1>7 DEF Reads, GetAll, Goto, CarPlace
  <2>2. pc'[Car] = "close"
    BY <2>1 DEF IInv, TypeOK
  <2> QED
    BY <2>1, <2>2 DEF CarTypeOK, CarPlace, Decided, SetSoFar, main, wheels,
                      sonar
<1>8. CASE Closes
  <2>1. /\ UNCHANGED <<program, wheels, refused, sonar, ult_data, seen>>
        /\ app \in {"init", "read"} /\ program = "optical"
        /\ app' = "left"
        /\ todo' = IF app = "init" THEN todo ELSE Steers(seen[Car])
        /\ pc' = [pc EXCEPT ![Car] = "idle"]
    BY <1>8 DEF Closes, Release, Goto, CarPlace
  <2>2. pc'[Car] = "idle"
    BY <2>1 DEF IInv, TypeOK
  <2> QED
    BY <2>1, <2>2, DecisionType
       DEF CarTypeOK, CarPlace, Decided, SetSoFar, wheels, sonar
<1>9. CASE Interrupt \/ OthersStep
  <2>1. pc'[Car] = pc[Car] /\ seen'[Car] = seen[Car]
    BY <1>9, OthersLeaveCar
  <2>2. UNCHANGED <<main, wheels, refused, sonar, ult_data>>
    BY <1>9 DEF Interrupt, OthersStep
  <2> QED
    BY <2>1, <2>2 DEF CarTypeOK, CarPlace, Decided, SetSoFar, main, wheels,
                      sonar
<1>10. CASE ObstaclesMove
  BY <1>10 DEF ObstaclesMove, CarTypeOK, CarPlace, Decided, SetSoFar, optics,
               procs, main, wheels
<1>11. ASSUME NEW i \in Echoes, Arrives(i)
       PROVE  CarIInv'
  BY <1>11 DEF Arrives, CarTypeOK, CarPlace, Decided, SetSoFar, optics, procs,
               main, wheels
<1>12. CASE Measures
  BY <1>12 DEF Measures, CarTypeOK, CarPlace, Decided, SetSoFar, optics, procs,
               wheels
<1>13. CASE Hears
  BY <1>13, DecisionType
     DEF Hears, CarTypeOK, CarPlace, Decided, SetSoFar, optics, procs, wheels,
         sonar
<1> QED
  BY <1>1, <1>2, <1>3, <1>4, <1>5, <1>6, <1>7, <1>8, <1>9, <1>10, <1>11,
     <1>12, <1>13 DEF CarNext, Runs

(* The programs' invariant holds in every state.                             *)
LEMMA CarInvariance == CarSpec => []CarIInv
BY CarInitInv, CarStepInv, DriverInvariance, PTL DEF CarSpec

(* Type correctness of the car's programs.                                   *)
THEOREM CarTypeCorrect == CarSpec => []CarTypeOK
<1>1. CarIInv => CarTypeOK
  BY DEF CarIInv
<1> QED
  BY CarInvariance, <1>1, PTL

(* The wheels turn as the last reading asks for.                             *)
THEOREM WheelsFollow == CarSpec => []WheelsFollowReading
<1>1. CarIInv => WheelsFollowReading
  BY DEF CarIInv, Decided, SetSoFar, WheelsFollowReading
<1> QED
  BY CarInvariance, <1>1, PTL
=============================================================================
