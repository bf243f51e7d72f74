------------------------------ MODULE CarApps ------------------------------
(***************************************************************************)
(* The programs that drive the car by its sensors: optical.c follows a     *)
(* line with zrcar_opt_get_all, on top of OpticalDriver, and ultrasonic.c  *)
(* backs away from obstacles with zrcar_ultra_get_all.  One of them runs,  *)
(* alone with the wheels (RemoteDrive has several programs at them, and    *)
(* wheel calls that fail); the processes of Procs other than Car use the   *)
(* optical sensors.                                                        *)
(*                                                                         *)
(* Both programs are one loop: read the sensors, carry out the manoeuvres  *)
(* the reading asks for (each two wheel calls and a sleep), read again.    *)
(* No result of a call is looked at: a refused open leaves the reading as  *)
(* it was, which before the first one is an uninitialised variable.        *)
(***************************************************************************)
EXTENDS OpticalDriver, Integers, Sequences

CONSTANTS Car,               \* the process of Procs that drives the car
          RightBit, LeftBit  \* 0x01 and 0x10 of the optical sensors

ASSUME CarAssumption == Car \in Procs /\ RightBit # LeftBit

Programs == {"optical", "ultrasonic"}
Echoes == 0 .. 2    \* the ultrasonic sensors

VARIABLES
    program,   \* the one that was started
    app,       \* where its main is
    todo,      \* the manoeuvres of this round, the current one first
    left,      \* SPEED_SET of the left wheel, as the speed that was set
    right,     \* SPEED_SET of the right wheel
    refused,   \* history: the last open of the sensors was refused
    near,      \* the ultrasonic sensors with an obstacle within 180 mm
    ready,     \* the ready bits of the ultrasonic status register
    echo,      \* the sensors whose echo register holds a near distance
    ult_data   \* the sensors whose ult_data is a near distance

wheels  == <<left, right>>
sonar   == <<near, ready, echo>>
optics  == <<hardware, driver, procs>>
main    == <<program, app, todo>>
carVars == <<optics, main, wheels, refused, sonar, ult_data>>

\* The speeds the programs ask for: negative ones drive forward.
Ahead == -8
Still == 0
Astern == 8

\* car_forward, car_back, car_right, car_left and car_stop: left and right
\* wheel.  "start" is the car_forward before the loop.
Speeds(order) ==
    CASE order \in {"start", "forward"} -> <<Ahead, Ahead>>
      [] order = "back"  -> <<Astern, Astern>>
      [] order = "right" -> <<Still, Ahead>>
      [] order = "left"  -> <<Ahead, Still>>
      [] order = "stop"  -> <<Still, Still>>

\* Mutant: a robot off its line is to go on looking for it.
SteersOn(v) ==
    LET on == {s \in Sensors : v[s]}
    IN  <<CASE RightBit \in on -> "right"
            [] LeftBit \in on /\ RightBit \notin on -> "left"
            [] OTHER -> "forward">>

\* optical.c: what optical_data asks for.
Steers(v) ==
    LET on == {s \in Sensors : v[s]}
    IN  <<CASE on = {} -> "stop"
            [] RightBit \in on -> "right"
            [] LeftBit \in on /\ RightBit \notin on -> "left"
            [] OTHER -> "forward">>

\* Mutant: ult_data is indexed from 1, as the line that prints it counts.
AvoidsFromOne(close) ==
    IF close \cap {2, 3} # {} THEN <<"back", "left">>
    ELSE IF 1 \in close THEN <<"back", "right">> ELSE <<"forward">>

\* ultrasonic.c: what ult_data asks for.
Avoids(close) ==
    IF close \cap {1, 2} # {} THEN <<"back", "left">>
    ELSE IF 0 \in close THEN <<"back", "right">> ELSE <<"forward">>

\* The optical device is free and its variables are as OpticalDriver starts
\* them; nobody asks for a single sensor here.
CarInit ==
    /\ Init
    /\ readmask = RightBit /\ num = [p \in Procs |-> RightBit]
    /\ program \in Programs
    /\ app = IF program = "optical" THEN "init" ELSE "left"
    /\ todo = <<"start">>
    /\ left = Still /\ right = Still
    /\ refused = FALSE
    /\ ready = {} /\ echo = {}
    /\ IF program = "optical"
         THEN near = {} /\ ult_data = {}
         ELSE near \in SUBSET Echoes /\ ult_data \in SUBSET Echoes
    /\ \A p \in Procs :
          seen[p] = line \/ (p = Car /\ program = "optical")

-----------------------------------------------------------------------------
(***************************************************************************)
(* The wheels.  zrcar_wheel_l_set and zrcar_wheel_r_set open the device,   *)
(* write its register and close it; nobody looks at their results.         *)
(***************************************************************************)
SetsLeft ==
    /\ app = "left"
    /\ app' = "right"
    /\ left' = Speeds(Head(todo))[1]
    /\ UNCHANGED <<optics, program, todo, right, refused, sonar, ult_data>>

\* Mutant: car_right's second call sets the left wheel again.
SetsLeftTwice ==
    /\ app = "right"
    /\ app' = "sleep"
    /\ left' = Speeds(Head(todo))[2]
    /\ UNCHANGED <<optics, program, todo, right, refused, sonar, ult_data>>

SetsRight ==
    /\ app = "right"
    /\ app' = "sleep"
    /\ right' = Speeds(Head(todo))[2]
    /\ UNCHANGED <<optics, program, todo, left, refused, sonar, ult_data>>

\* usleep is over: the next manoeuvre of the round, or the next reading.
Wakes ==
    /\ app = "sleep"
    /\ IF Len(todo) > 1
         THEN app' = "left" /\ todo' = Tail(todo)
         ELSE app' = "read" /\ UNCHANGED todo
    /\ UNCHANGED <<optics, program, wheels, refused, sonar, ult_data>>

-----------------------------------------------------------------------------
(***************************************************************************)
(* optical.c: zrcar_opt_init opens and closes the device, zrcar_opt_get_all*)
(* reads the register in between.                                          *)
(***************************************************************************)
Opens ==
    /\ program = "optical" /\ app \in {"init", "read"}
    /\ OpenResets(Car, num[Car])
    /\ UNCHANGED <<main, wheels, refused, sonar, ult_data>>

Requests ==
    /\ OpenRequests(Car)
    /\ pc'[Car] \in {"idle", IF app = "init" THEN "close" ELSE "all"}
    /\ IF pc'[Car] = "idle"
         THEN /\ app' = "left"
              /\ todo' = IF app = "init" THEN todo ELSE Steers(seen[Car])
              /\ refused' = TRUE
         ELSE UNCHANGED <<app, todo, refused>>
    /\ UNCHANGED <<program, wheels, sonar, ult_data>>

Reads ==
    /\ GetAll(Car)
    /\ refused' = FALSE
    /\ UNCHANGED <<main, wheels, sonar, ult_data>>

Closes ==
    /\ Release(Car)
    /\ app' = "left"
    /\ todo' = IF app = "init" THEN todo ELSE Steers(seen[Car])
    /\ UNCHANGED <<program, wheels, refused, sonar, ult_data>>

\* The sensors, the interrupt and the other processes, which do not ask for a
\* single sensor here.
Interrupt ==
    /\ program = "optical"
    /\ HandlerUps \/ HandlerClears
    /\ UNCHANGED <<main, wheels, refused, sonar, ult_data>>

OthersStep ==
    /\ program = "optical"
    /\ \/ \E s \in Sensors : SensorChanges(s)
       \/ \E p \in Procs \ {Car} :
             Process(p) /\ num' = num /\ pc'[p] # "mask"
    /\ UNCHANGED <<main, wheels, refused, sonar, ult_data>>

-----------------------------------------------------------------------------
(***************************************************************************)
(* ultrasonic.c and its driver.  Writing 1 to the status register starts a *)
(* measurement; get_ultra_echo then waits for the ready bit of one sensor  *)
(* after the other in a loop without a limit.                              *)
(***************************************************************************)
ObstaclesMove ==
    /\ program = "ultrasonic"
    /\ near' \in SUBSET Echoes
    /\ UNCHANGED <<optics, main, wheels, refused, ready, echo, ult_data>>

\* A sensor's echo arrives, if it ever does.
Arrives(i) ==
    /\ app = "echo" /\ i \notin ready
    /\ ready' = ready \cup {i}
    /\ echo' = IF i \in near THEN echo \cup {i} ELSE echo \ {i}
    /\ UNCHANGED <<optics, main, wheels, refused, near, ult_data>>

Measures ==
    /\ program = "ultrasonic" /\ app = "read"
    /\ app' = "echo"
    /\ ready' = {}
    /\ UNCHANGED <<optics, program, todo, wheels, refused, near, echo,
                   ult_data>>

\* The loop over the sensors ends when all are ready; each echo is read after
\* its bit, and nobody starts another measurement in between.
Hears ==
    /\ app = "echo" /\ ready = Echoes
    /\ app' = "left"
    /\ ult_data' = echo
    /\ todo' = Avoids(ult_data')
    /\ UNCHANGED <<optics, program, wheels, refused, sonar>>

Runs ==
    \/ SetsLeft \/ SetsRight \/ Wakes
    \/ Opens \/ Requests \/ Reads \/ Closes
    \/ Measures \/ Hears

CarNext ==
    \/ Runs
    \/ Interrupt \/ OthersStep
    \/ ObstaclesMove \/ \E i \in Echoes : Arrives(i)

\* The car's program and the interrupt run.  Nobody has to close the optical
\* device, and an echo need not arrive.
CarFairness == WF_carVars(Runs) /\ WF_carVars(Interrupt)

CarSpec == CarInit /\ [][CarNext]_carVars
CarFairSpec == CarSpec /\ CarFairness

-----------------------------------------------------------------------------
Orders == {"start", "forward", "back", "right", "left", "stop"}

CarTypeOK ==
    /\ program \in Programs
    /\ app \in {"init", "left", "right", "sleep", "read", "echo"}
    /\ todo \in Seq(Orders) /\ Len(todo) \in {1, 2}
    /\ wheels \in {Ahead, Still, Astern} \X {Ahead, Still, Astern}
    /\ refused \in BOOLEAN
    /\ near \in SUBSET Echoes /\ ready \in SUBSET Echoes
    /\ echo \in SUBSET Echoes /\ ult_data \in SUBSET Echoes

(* While the car's program sleeps, the wheels turn as the last reading of    *)
(* the sensors it was given asks for, whatever happened to the calls of this *)
(* round: a refused one leaves the car on the course of the reading before.  *)
WheelsFollowReading ==
    app = "sleep" =>
        /\ wheels = Speeds(Head(todo))
        /\ \/ todo = <<"start">>
           \/ program = "optical" /\ todo = Steers(seen[Car])
           \/ /\ program = "ultrasonic"
              /\ todo \in {Avoids(ult_data), Tail(Avoids(ult_data))}

(* A car that has left the line for good stops for good, unless its readings *)
(* are refused again and again: a process asleep in OPTICAL_WAIT_READ, which *)
(* only a change of the sensors wakes, has them refused for ever.            *)
StopsOffTheLine ==
    (program = "optical" /\ <>[](\A s \in Sensors : ~line[s]))
        => \/ <>[](wheels = Speeds("stop"))
           \/ []<>refused

(* A car one of whose sensors has an obstacle near it for good keeps backing *)
(* away, unless a sensor's echo never arrives: then the driver, and with it  *)
(* the program, waits for ever and the wheels turn on.                       *)
KeepsBackingAway ==
    (program = "ultrasonic" /\ \E i \in Echoes : <>[](i \in near))
        => \/ []<>(wheels = Speeds("back"))
           \/ <>[](app = "echo")

=============================================================================
