------------------------------- MODULE ArmApi -------------------------------
(***************************************************************************)
(* The robot arm: programs that use the zrarm API on one arm, each with    *)
(* its own struct uarm in memory, and zrarm_save_state and                 *)
(* zrarm_restore_state, which hand the struct from one program to the next *)
(* through a file.  The registers cannot be read back, so what a program   *)
(* takes the arm to be doing is only ever what its struct says.            *)
(*                                                                         *)
(* Each register is written by Xil_Out32, a system call of its own, and a  *)
(* program that cannot open the device exits there and then.  Of the pose  *)
(* only its height is kept: servos R and L set it, and the limit switch    *)
(* below the hand is to keep the arm from being pressed further down.      *)
(***************************************************************************)
EXTENDS Integers

CONSTANTS Programs,  \* programs that may run, at the same time too
          Heights,   \* the heights asked for, within the limits of formatSHR
          Absent,    \* the state file: there is none,
          Empty      \* or there is nothing in it

Structs == [valid : BOOLEAN, pump : BOOLEAN, height : Heights]
Parts == {"pump", "height"}
Cleared == [valid |-> FALSE, pump |-> FALSE, height |-> 0]

ASSUME ArmAssumption ==
    /\ Heights \subseteq Int /\ 0 \in Heights
    /\ Absent \notin Structs /\ Empty \notin Structs

VARIABLES
    pc,      \* where each program is
    uarm,    \* its struct: whether its pointers are set, pump, heightLst
    target,  \* shr.h of the move under way
    pump,    \* PUMP_EN is LOW: the pump runs
    valve,   \* VALVE_EN is HIGH
    servoR,  \* the height servo R is at
    servoL,  \* the height servo L is at
    switch,  \* the limit switch is on
    file,    \* the state file: absent, empty or a struct
    knows,   \* history: what of each program's struct tells of the arm
    filed    \* history: what of the struct in the file does

arm     == <<pump, valve, servoR, servoL>>
saved   == <<file, filed>>
vars    == <<pc, uarm, target, arm, switch, saved, knows>>

Goto(p, where) == pc' = [pc EXCEPT ![p] = where]

\* p begins to drive a part of the arm: its struct tells of it, nobody else's.
Takes(p, part) ==
    /\ knows' = [q \in Programs |-> IF q = p THEN knows[q] \cup {part}
                                             ELSE knows[q] \ {part}]
    /\ filed' = filed \ {part}

\* p goes on driving it: another program that has begun since is wrong as well.
Disturbs(p, part) ==
    /\ knows' = [q \in Programs |-> IF q = p THEN knows[q]
                                             ELSE knows[q] \ {part}]
    /\ filed' = filed \ {part}

Init ==
    /\ pc = [p \in Programs |-> "new"]
    /\ uarm = [p \in Programs |-> Cleared]
    /\ target = [p \in Programs |-> 0]
    /\ pump \in BOOLEAN /\ valve \in BOOLEAN /\ switch \in BOOLEAN
    /\ servoR \in Heights /\ servoL \in Heights
    /\ file = Absent
    /\ knows = [p \in Programs |-> {}]
    /\ filed = {}

-----------------------------------------------------------------------------
(***************************************************************************)
(* Programs start, with a zeroed struct, and end: by themselves, killed, or*)
(* at a register write whose open fails.                                   *)
(***************************************************************************)
Starts(p) ==
    /\ pc[p] = "dead"
    /\ Goto(p, "new")
    /\ uarm' = [uarm EXCEPT ![p] = Cleared]
    /\ knows' = [knows EXCEPT ![p] = {}]
    /\ UNCHANGED <<target, arm, switch, saved>>

Dies(p) ==
    /\ pc[p] # "dead"
    /\ Goto(p, "dead")
    /\ target' = [target EXCEPT ![p] = 0]
    /\ UNCHANGED <<uarm, arm, switch, saved, knows>>

SwitchChanges ==
    /\ switch' = ~switch
    /\ UNCHANGED <<pc, uarm, target, arm, saved, knows>>

-----------------------------------------------------------------------------
(***************************************************************************)
(* zrarm_init, zrarm_catch and zrarm_release: the pump, then the valve,    *)
(* then the struct.                                                        *)
(***************************************************************************)

\* zrarm_init turns the pump off, whatever the arm holds.
InitPumps(p) ==
    /\ pc[p] \in {"new", "ready"}
    /\ Goto(p, "init")
    /\ pump' = FALSE
    /\ Takes(p, "pump")
    /\ UNCHANGED <<uarm, target, valve, servoR, servoL, switch, file>>

\* getUArm's struct is a local variable, whose heightLst nobody sets.
InitReturns(p) ==
    /\ pc[p] = "init"
    /\ Goto(p, "ready")
    /\ valve' = FALSE
    /\ \E h \in Heights :
          uarm' = [uarm EXCEPT ![p] =
                      [valid |-> TRUE, pump |-> FALSE, height |-> h]]
    /\ knows' = [q \in Programs |-> knows[q] \ (IF q = p THEN {"height"}
                                                         ELSE {"pump"})]
    /\ filed' = filed \ {"pump"}
    /\ UNCHANGED <<target, pump, servoR, servoL, switch, file>>

\* zrarm_catch does nothing when the struct has the pump on.
Catches(p) ==
    /\ pc[p] = "ready" /\ uarm[p].valid /\ ~uarm[p].pump
    /\ Goto(p, "catch")
    /\ pump' = TRUE
    /\ Takes(p, "pump")
    /\ UNCHANGED <<uarm, target, valve, servoR, servoL, switch, file>>

Releases(p) ==
    /\ pc[p] = "ready" /\ uarm[p].valid
    /\ Goto(p, "release")
    /\ pump' = FALSE
    /\ Takes(p, "pump")
    /\ UNCHANGED <<uarm, target, valve, servoR, servoL, switch, file>>

TurnsValve(p) ==
    /\ pc[p] \in {"catch", "release"}
    /\ Goto(p, "ready")
    /\ valve' = (pc[p] = "catch")
    /\ uarm' = [uarm EXCEPT ![p].pump = valve']
    /\ Disturbs(p, "pump")
    /\ UNCHANGED <<target, pump, servoR, servoL, switch, file>>

-----------------------------------------------------------------------------
(***************************************************************************)
(* zrarm_set_pos and zrarm_move: setPosSHR.                                *)
(***************************************************************************)
Moves(p, h) ==
    /\ pc[p] = "ready" /\ uarm[p].valid
    /\ Goto(p, "switch")
    /\ target' = [target EXCEPT ![p] = h]
    /\ UNCHANGED <<uarm, arm, switch, saved, knows>>

\* Mutant: the limit is only looked at when it is higher than zero.
LooksAbove(p) ==
    /\ pc[p] = "switch"
    /\ Goto(p, "servoR")
    /\ target' = [target EXCEPT ![p] =
                     IF switch /\ @ < 0 THEN uarm[p].height ELSE @]
    /\ UNCHANGED <<uarm, arm, switch, saved, knows>>

\* ifSwitchOn(uarm) && shr.h < heightLst
Looks(p) ==
    /\ pc[p] = "switch"
    /\ Goto(p, "servoR")
    /\ target' = [target EXCEPT ![p] =
                     IF switch /\ @ < uarm[p].height THEN uarm[p].height
                                                     ELSE @]
    /\ UNCHANGED <<uarm, arm, switch, saved, knows>>

SetsR(p) ==
    /\ pc[p] = "servoR"
    /\ Goto(p, "servoL")
    /\ servoR' = target[p]
    /\ Takes(p, "height")
    /\ UNCHANGED <<uarm, target, pump, valve, servoL, switch, file>>

\* Mutant: heightLst is only ever raised.
SetsLRaising(p) ==
    /\ pc[p] = "servoL"
    /\ Goto(p, "ready")
    /\ servoL' = target[p]
    /\ uarm' = [uarm EXCEPT ![p].height = IF @ < target[p] THEN target[p]
                                                           ELSE @]
    /\ target' = [target EXCEPT ![p] = 0]
    /\ Disturbs(p, "height")
    /\ UNCHANGED <<pump, valve, servoR, switch, file>>

\* Servo L, the two servos that turn, and heightLst.
SetsL(p) ==
    /\ pc[p] = "servoL"
    /\ Goto(p, "ready")
    /\ servoL' = target[p]
    /\ uarm' = [uarm EXCEPT ![p].height = target[p]]
    /\ target' = [target EXCEPT ![p] = 0]
    /\ Disturbs(p, "height")
    /\ UNCHANGED <<pump, valve, servoR, switch, file>>

-----------------------------------------------------------------------------
(***************************************************************************)
(* zrarm_save_state and zrarm_restore_state, whose results say nothing of  *)
(* the write and the read.                                                 *)
(***************************************************************************)

\* open(state, O_RDWR|O_CREAT).  When it fails, the write fails with it.
SaveOpens(p) ==
    /\ pc[p] = "ready"
    /\ \/ /\ Goto(p, "save")
          /\ file' = IF file = Absent THEN Empty ELSE file
       \/ UNCHANGED <<pc, file>>
    /\ UNCHANGED <<uarm, target, arm, switch, filed, knows>>

\* The write may fail; a short one of so small a struct is left out.
SaveWrites(p) ==
    /\ pc[p] = "save"
    /\ Goto(p, "ready")
    /\ \/ file' = uarm[p] /\ filed' = knows[p]
       \/ UNCHANGED saved
    /\ UNCHANGED <<uarm, target, arm, switch, knows>>

\* The whole struct is overwritten, its function pointers too; or nothing is,
\* when the open fails or there is nothing to read.
Restores(p) ==
    /\ pc[p] \in {"new", "ready"}
    /\ Goto(p, "ready")
    /\ \/ UNCHANGED <<uarm, knows>>
       \/ /\ file \notin {Absent, Empty}
          /\ uarm' = [uarm EXCEPT ![p] = file]
          /\ knows' = [knows EXCEPT ![p] = filed]
    /\ UNCHANGED <<target, arm, switch, saved>>

Program(p) ==
    \/ Starts(p) \/ Dies(p)
    \/ InitPumps(p) \/ InitReturns(p)
    \/ Catches(p) \/ Releases(p) \/ TurnsValve(p)
    \/ \E h \in Heights : Moves(p, h)
    \/ Looks(p) \/ SetsR(p) \/ SetsL(p)
    \/ SaveOpens(p) \/ SaveWrites(p) \/ Restores(p)

Next == SwitchChanges \/ \E p \in Programs : Program(p)

Spec == Init /\ [][Next]_vars

-----------------------------------------------------------------------------
TypeOK ==
    /\ pc \in [Programs -> {"new", "ready", "init", "catch", "release",
                            "switch", "servoR", "servoL", "save", "dead"}]
    /\ uarm \in [Programs -> Structs]
    /\ target \in [Programs -> Heights]
    /\ pump \in BOOLEAN /\ valve \in BOOLEAN /\ switch \in BOOLEAN
    /\ servoR \in Heights /\ servoL \in Heights
    /\ file \in {Absent, Empty} \cup Structs
    /\ knows \in [Programs -> SUBSET Parts]
    /\ filed \in SUBSET Parts

TellsPump(s) == pump = s.pump /\ valve = s.pump
TellsHeight(s) == servoR = s.height /\ servoL = s.height
Pumping == {"init", "catch", "release"}  \* between PUMP_EN and the struct
Settled == {"ready", "save", "switch", "servoR"}

(* A struct tells the truth about the arm as long as the program has itself  *)
(* driven that part of it, or has restored it from a file that was saved by  *)
(* such a program, and no other program has written there since: although a  *)
(* register is never read back, moves are cut short by the switch, and       *)
(* programs die between any two writes.                                      *)
StructsTellTheTruth ==
    /\ \A p \in Programs :
          /\ ("pump" \in knows[p] /\ pc[p] \in Settled \cup {"servoL"})
                => TellsPump(uarm[p])
          /\ ("height" \in knows[p] /\ pc[p] \in Settled \cup Pumping)
                => TellsHeight(uarm[p])
    /\ "pump" \in filed => TellsPump(file)
    /\ "height" \in filed => TellsHeight(file)

(* With the limit switch on, a move never takes the arm below where it is,   *)
(* if the program's heightLst tells where that is: not before its first move *)
(* (heightLst is not initialised), and not with a second program moving the  *)
(* arm.                                                                      *)
NeverPressesDown ==
    [][\A p \in Programs :
          (pc[p] = "switch" /\ pc'[p] = "servoR" /\ switch
             /\ "height" \in knows[p])
              => target'[p] >= servoR /\ target'[p] >= servoL]_vars

(* A state that was once saved is never lost: a program that dies between    *)
(* the open and the write of zrarm_save_state leaves the previous one in the *)
(* file, which is opened without O_TRUNC.                                    *)
SavedStateSurvives ==
    [][file \notin {Absent, Empty} => file' \notin {Absent, Empty}]_vars

=============================================================================
