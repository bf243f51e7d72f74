---------------------------- MODULE OpticalDriver ----------------------------
(***************************************************************************)
(* The driver of the optical sensors and the calls programs make on it:    *)
(* zrcar_opt_get_all and zrcar_opt_get_sg, which open and close the device *)
(* each time, and the driver's own OPTICAL_WAIT_READ.  No lock protects    *)
(* the driver's globals sem and optical_readmask; every open resets sem,   *)
(* then asks for an interrupt line only one process can have.              *)
(*                                                                         *)
(* The sensors are an AXI GPIO: a change sets its interrupt status bit,    *)
(* the line to the processor is high while the bit and the enable bits are *)
(* set, and the processor latches the line's rising edges.                 *)
(***************************************************************************)
EXTENDS Naturals

CONSTANTS Procs,    \* processes that use the sensors
          Sensors,  \* their bits in the data register
          Nobody,   \* the interrupt line is free
          Waiting,  \* some process uses OPTICAL_WAIT_READ
          MaxCount  \* bound: no change while sem's count is at it

ASSUME OpticalAssumption ==
    /\ Nobody \notin Procs /\ Sensors # {}
    /\ Waiting \in BOOLEAN /\ MaxCount \in Nat

VARIABLES
    line,      \* the data register
    isr,       \* the interrupt status bit
    enabled,   \* IER and GIE are set
    pending,   \* a rising edge is latched
    handler,   \* optical_intr: idle, or between up(&sem) and its clear
    irq,       \* owner of the interrupt line: the open file
    count,     \* sem.count
    queue,     \* sem.wait_list
    readmask,  \* optical_readmask
    pc,        \* where each process is
    num,       \* the sensor it asks for
    val,       \* what zrcar_opt_get_sg gave it
    seen       \* the last whole register it was given

hardware == <<line, isr, enabled, pending>>
driver   == <<handler, irq, count, queue, readmask>>
procs    == <<pc, num, val, seen>>
vars     == <<hardware, driver, procs>>

Goto(p, where) == pc' = [pc EXCEPT ![p] = where]
Opened == {"mask", "single", "all", "compare", "enable", "down", "blocked",
           "read", "close"}

\* What zrcar_opt_get_sg, zrcar_opt_get_all, zrcar_opt_init (which only opens and
\* closes) and a program that waits do first with the open device.
Calls == {"mask", "all", "close"} \cup (IF Waiting THEN {"compare"} ELSE {})

Init ==
    /\ line = [s \in Sensors |-> FALSE]
    /\ isr = FALSE /\ enabled = FALSE /\ pending = FALSE
    /\ handler = "idle" /\ irq = Nobody
    /\ count = 0 /\ queue = {}
    /\ readmask \in Sensors
    /\ pc = [p \in Procs |-> "idle"]
    /\ num \in [Procs -> Sensors]
    /\ val = [p \in Procs |-> FALSE]
    /\ seen \in [Procs -> [Sensors -> BOOLEAN]]

-----------------------------------------------------------------------------
(***************************************************************************)
(* The sensors and the interrupt.                                          *)
(***************************************************************************)
SensorChanges(s) ==
    /\ count < MaxCount
    /\ line' = [line EXCEPT ![s] = ~@]
    /\ isr' = TRUE
    /\ pending' = (pending \/ (enabled /\ ~isr))
    /\ UNCHANGED <<enabled, driver, procs>>

\* optical_intr: up(&sem) wakes one process of the wait list, or counts.
HandlerUps ==
    /\ pending /\ irq # Nobody /\ handler = "idle"
    /\ pending' = FALSE
    /\ handler' = "clear"
    /\ \/ /\ queue = {}
          /\ count' = count + 1
          /\ UNCHANGED <<queue, pc>>
       \/ \E p \in queue :
             /\ queue' = queue \ {p}
             /\ Goto(p, "read")
             /\ UNCHANGED count
    /\ UNCHANGED <<line, isr, enabled, irq, readmask, num, val, seen>>

\* Mutant: the status bit is written back without its mask, as 0.
HandlerForgetsToClear ==
    /\ handler = "clear"
    /\ handler' = "idle"
    /\ UNCHANGED <<hardware, irq, count, queue, readmask, procs>>

\* optical_intr_clear: the status bit is toggled off by writing it back.
HandlerClears ==
    /\ handler = "clear"
    /\ handler' = "idle"
    /\ isr' = FALSE
    /\ UNCHANGED <<line, enabled, pending, irq, count, queue, readmask, procs>>

-----------------------------------------------------------------------------
(***************************************************************************)
(* open and release.                                                       *)
(***************************************************************************)

\* The process calls the API or opens the device; optical_open resets sem, and
\* with it forgets any process in its wait list.
OpenResets(p, s) ==
    /\ pc[p] = "idle"
    /\ Goto(p, "request")
    /\ num' = [num EXCEPT ![p] = s]
    /\ count' = 0 /\ queue' = {}
    /\ UNCHANGED <<hardware, handler, irq, readmask, val, seen>>

\* Mutant: the interrupt line is asked for as a shared one.
OpenShares(p) ==
    /\ pc[p] = "request"
    /\ irq' = p
    /\ \E call \in Calls : Goto(p, call)
    /\ UNCHANGED <<hardware, handler, count, queue, readmask, num, val, seen>>

\* request_irq fails while another process has the line, and so does open; the
\* API then returns -1 and leaves the caller's variable alone.
OpenRequests(p) ==
    /\ pc[p] = "request"
    /\ \/ /\ irq = Nobody
          /\ irq' = p
          /\ \E call \in Calls : Goto(p, call)
       \/ irq # Nobody /\ Goto(p, "idle") /\ UNCHANGED irq
    /\ UNCHANGED <<hardware, handler, count, queue, readmask, num, val, seen>>

\* close: free_irq waits for a handler that is running.
Release(p) ==
    /\ pc[p] = "close"
    /\ handler = "idle"
    /\ irq' = Nobody
    /\ Goto(p, "idle")
    /\ UNCHANGED <<hardware, handler, count, queue, readmask, num, val, seen>>

-----------------------------------------------------------------------------
(***************************************************************************)
(* optical_ioctl.                                                          *)
(***************************************************************************)
SetMask(p) ==
    /\ pc[p] = "mask"
    /\ readmask' = num[p]
    /\ Goto(p, "single")
    /\ UNCHANGED <<hardware, handler, irq, count, queue, num, val, seen>>

GetSg(p) ==
    /\ pc[p] = "single"
    /\ val' = [val EXCEPT ![p] = line[readmask]]
    /\ Goto(p, "close")
    /\ UNCHANGED <<hardware, driver, num, seen>>

GetAll(p) ==
    /\ pc[p] = "all"
    /\ seen' = [seen EXCEPT ![p] = line]
    /\ Goto(p, "close")
    /\ UNCHANGED <<hardware, driver, num, val>>

\* OPTICAL_WAIT_READ: a value the caller has not seen is returned at once.
WaitCompares(p) ==
    /\ pc[p] = "compare"
    /\ IF seen[p] = line
         THEN Goto(p, "enable") /\ UNCHANGED seen
         ELSE Goto(p, "close") /\ seen' = [seen EXCEPT ![p] = line]
    /\ UNCHANGED <<hardware, driver, num, val>>

\* optical_intr_enable: raising the enable bits may raise the line.
WaitEnables(p) ==
    /\ pc[p] = "enable"
    /\ enabled' = TRUE
    /\ pending' = (pending \/ (isr /\ ~enabled))
    /\ Goto(p, "down")
    /\ UNCHANGED <<line, isr, driver, num, val, seen>>

\* down(&sem), which no signal interrupts.
WaitDowns(p) ==
    /\ pc[p] = "down"
    /\ \/ /\ count > 0
          /\ count' = count - 1
          /\ Goto(p, "read")
          /\ UNCHANGED queue
       \/ /\ count = 0
          /\ queue' = queue \cup {p}
          /\ Goto(p, "blocked")
          /\ UNCHANGED count
    /\ UNCHANGED <<hardware, handler, irq, readmask, num, val, seen>>

\* The caller waits again for the next change, or closes the device.
WaitReads(p) ==
    /\ pc[p] = "read"
    /\ seen' = [seen EXCEPT ![p] = line]
    /\ Goto(p, "compare") \/ Goto(p, "close")
    /\ UNCHANGED <<hardware, driver, num, val>>

Process(p) ==
    \/ \E s \in Sensors : OpenResets(p, s)
    \/ OpenRequests(p) \/ Release(p) \/ SetMask(p) \/ GetSg(p) \/ GetAll(p)
    \/ WaitCompares(p) \/ WaitEnables(p) \/ WaitDowns(p) \/ WaitReads(p)

Next ==
    \/ \E s \in Sensors : SensorChanges(s)
    \/ HandlerUps \/ HandlerClears
    \/ \E p \in Procs : Process(p)

\* The sensors keep changing, interrupts are handled, and a process inside a
\* call runs on.
Fairness ==
    /\ WF_vars(\E s \in Sensors : SensorChanges(s))
    /\ WF_vars(HandlerUps \/ HandlerClears)
    /\ \A p \in Procs : WF_vars(pc[p] # "idle" /\ Process(p))

Spec == Init /\ [][Next]_vars
FairSpec == Spec /\ Fairness

-----------------------------------------------------------------------------
TypeOK ==
    /\ line \in [Sensors -> BOOLEAN]
    /\ isr \in BOOLEAN /\ enabled \in BOOLEAN /\ pending \in BOOLEAN
    /\ handler \in {"idle", "clear"}
    /\ irq \in Procs \cup {Nobody}
    /\ count \in Nat
    /\ queue \in SUBSET Procs
    /\ readmask \in Sensors
    /\ pc \in [Procs -> {"idle", "request"} \cup Opened]
    /\ num \in [Procs -> Sensors]
    /\ val \in [Procs -> BOOLEAN]
    /\ seen \in [Procs -> [Sensors -> BOOLEAN]]

(* The exclusive interrupt line is what keeps the driver's globals to one    *)
(* process at a time: between open and release a process owns it, alone.     *)
OneOpenFile == \A p \in Procs : pc[p] \in Opened <=> irq = p

(* optical_intr never runs for a process that has closed the device.         *)
HandlerHasAFile == handler # "idle" => irq # Nobody

(* The edge-triggered interrupt cannot get stuck: while the line is high, an *)
(* edge is latched or the handler is about to lower it.                      *)
InterruptNotStuck == (enabled /\ isr) => (pending \/ handler = "clear")

(* zrcar_opt_get_sg(val, num) gives the value of sensor num, although its    *)
(* two ioctls go through one optical_readmask that every process writes.     *)
ReadsOwnSensor ==
    [][\A p \in Procs : (pc[p] = "single" /\ pc'[p] = "close")
                            => val'[p] = line[num[p]]]_vars

(* A process in OPTICAL_WAIT_READ comes out of down() as long as the sensors *)
(* go on changing: unless another process's open, which is about to fail,    *)
(* empties the wait list.                                                    *)
WaiterComesOut ==
    \A p \in Procs :
        (pc[p] = "down")
            ~> (pc[p] = "read" \/ \E q \in Procs \ {p} : pc[q] = "request")

=============================================================================
