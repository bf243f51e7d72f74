----------------------------- MODULE RemoteDrive -----------------------------
(***************************************************************************)
(* Remote control of the car: tcp_server executes the commands a remote    *)
(* sends over one TCP connection, and drives the wheels through            *)
(* zrcar_wheel_l_set and zrcar_wheel_r_set.  Other programs (stop.c, say)  *)
(* set the same two speed registers.                                       *)
(*                                                                         *)
(* A command is four shorts: control 1792, length 1024, angle, speed.  The *)
(* stream is its words, numbered from 0, so word k is field k % 4 of       *)
(* command k \div 4; and -1 stands for a zero buf was filled with.  What   *)
(* constrain_and_run makes of an angle and a speed is a function of them   *)
(* alone: a wheel's speed is represented by the pair of words it is        *)
(* computed from.                                                          *)
(***************************************************************************)
EXTENDS Integers

CONSTANTS MaxCommands, \* bound: commands the remote sends
          BufCommands, \* commands that fit into buf: 64 bytes hold 8
          Others       \* the other programs that set the wheels

ASSUME RemoteDriveAssumption ==
    MaxCommands \in Nat /\ BufCommands \in Nat \ {0}

VARIABLES
    sent,       \* words the remote has sent
    got,        \* words recv has returned
    buf,        \* the first four shorts of buf, all the server looks at
    server,     \* where tcp_server is
    left,       \* SPEED_SET of the left wheel: <<angle, speed>>
    right,      \* SPEED_SET of the right wheel
    other,      \* where each other program is
    overlapped, \* history: the last pair was begun inside another's pair
    mishaps     \* history: "cut", a recv that did not end with a command;
                \* "merged", one of more than a command; "failed", an open

wheels == <<left, right>>
vars == <<sent, got, buf, server, wheels, other, overlapped,
          mishaps>>

Zero == -1
Standstill == <<Zero, Zero>>
Field(k) == k % 4
OthersInside == {p \in Others : other[p] = "right"} \* between their calls
Order == <<buf[2], buf[3]>>     \* angle_value, speed_value

\* control_value == 1792 && length_value == 1024, which no angle or speed is
IsCommand(b) == /\ b[0] # Zero /\ Field(b[0]) = 0
                /\ b[1] # Zero /\ Field(b[1]) = 1

Init ==
    /\ sent = 0 /\ got = 0
    /\ buf = [i \in 0 .. 3 |-> Zero]
    /\ server = "accept"
    /\ left = Standstill /\ right = Standstill
    /\ other = [p \in Others |-> "idle"]
    /\ overlapped = FALSE /\ mishaps = {}

-----------------------------------------------------------------------------
(***************************************************************************)
(* The remote.                                                             *)
(***************************************************************************)
Sends ==
    /\ server # "accept"
    /\ sent < 4 * MaxCommands
    /\ sent' = sent + 4
    /\ UNCHANGED <<got, buf, server, wheels, other, overlapped, mishaps>>

-----------------------------------------------------------------------------
(***************************************************************************)
(* tcp_server.                                                             *)
(***************************************************************************)
Accepts ==
    /\ server = "accept"
    /\ server' = "recv"
    /\ UNCHANGED <<sent, got, buf, wheels, other, overlapped, mishaps>>

\* What recv may do to the commands: end inside one, short of the end of the
\* space it was given, or return the beginning of a second one.
RecvMishaps(n, space) ==
    (IF Field(n) # 0 /\ n # space THEN {"cut"} ELSE {})
        \cup (IF n > 4 THEN {"merged"} ELSE {})

\* Mutant: the buffer is one short too small for its last command.
ReceivesIntoShortBuf ==
    /\ server = "recv"
    /\ \E n \in 1 .. 4 * BufCommands - 1 :
          /\ n <= sent - got
          /\ got' = got + n
          /\ mishaps' = mishaps \cup RecvMishaps(n, 4 * BufCommands - 1)
          /\ buf' = [i \in 0 .. 3 |-> IF i < n THEN got + i ELSE buf[i]]
    /\ server' = IF IsCommand(buf') THEN "left" ELSE "recv"
    /\ UNCHANGED <<sent, wheels, other, overlapped>>

\* Mutant: a resynchronisation may hand out the first words again.
ReceivesFromTheStart ==
    /\ server = "recv"
    /\ \E n \in 1 .. 4 * BufCommands, from \in {0, got} :
          /\ n <= sent - got
          /\ got' = got + n
          /\ mishaps' = mishaps \cup RecvMishaps(n, 4 * BufCommands)
          /\ buf' = [i \in 0 .. 3 |-> IF i < n THEN from + i ELSE buf[i]]
    /\ server' = IF IsCommand(buf') THEN "left" ELSE "recv"
    /\ UNCHANGED <<sent, wheels, other, overlapped>>

\* recv returns what has arrived, up to the 64 bytes of buf; the server does
\* not look at how much that was.
Receives ==
    /\ server = "recv"
    /\ \E n \in 1 .. 4 * BufCommands :
          /\ n <= sent - got
          /\ got' = got + n
          /\ mishaps' = mishaps \cup RecvMishaps(n, 4 * BufCommands)
          /\ buf' = [i \in 0 .. 3 |-> IF i < n THEN got + i ELSE buf[i]]
    /\ server' = IF IsCommand(buf') THEN "left" ELSE "recv"
    /\ UNCHANGED <<sent, wheels, other, overlapped>>

\* recv returns 0 or -1: the connection has ended, which it may do at any time.
\* The wheels are left as they are.
Leaves ==
    /\ server = "recv"
    /\ server' = "gone"
    /\ UNCHANGED <<sent, got, buf, wheels, other, overlapped, mishaps>>

\* zrcar_wheel_l_set and zrcar_wheel_r_set open the device, write its register
\* and close it; nobody looks at their results.
Sets(register, order) ==
    \/ register' = order /\ UNCHANGED mishaps
    \/ UNCHANGED register /\ mishaps' = mishaps \cup {"failed"}

\* Mutant: the left wheel is set in some branches only.
SetsLeftSometimes ==
    /\ server = "left"
    /\ left' \in {left, Order}
    /\ server' = "right"
    /\ overlapped' = (OthersInside # {})
    /\ UNCHANGED <<sent, got, buf, right, other, mishaps>>

\* constrain_and_run
SetsLeft ==
    /\ server = "left"
    /\ Sets(left, Order)
    /\ server' = "right"
    /\ overlapped' = (OthersInside # {})
    /\ UNCHANGED <<sent, got, buf, right, other>>

SetsRight ==
    /\ server = "right"
    /\ Sets(right, Order)
    /\ server' = "recv"
    /\ UNCHANGED <<sent, got, buf, left, other, overlapped>>

-----------------------------------------------------------------------------
(***************************************************************************)
(* stop.c, run as often as one likes.                                      *)
(***************************************************************************)
OtherSetsLeft(p) ==
    /\ other[p] = "idle"
    /\ Sets(left, Standstill)
    /\ other' = [other EXCEPT ![p] = "right"]
    /\ overlapped' = (server = "right" \/ OthersInside # {})
    /\ UNCHANGED <<sent, got, buf, server, right>>

OtherSetsRight(p) ==
    /\ other[p] = "right"
    /\ Sets(right, Standstill)
    /\ other' = [other EXCEPT ![p] = "idle"]
    /\ UNCHANGED <<sent, got, buf, server, left, overlapped>>

Next ==
    \/ Sends
    \/ Accepts \/ Receives \/ Leaves \/ SetsLeft \/ SetsRight
    \/ \E p \in Others : OtherSetsLeft(p) \/ OtherSetsRight(p)
    \/ server = "gone" /\ UNCHANGED vars

\* The server runs.  Nobody has to send, and no other program to finish.
Fairness == WF_vars(Receives \/ SetsLeft \/ SetsRight)

Spec == Init /\ [][Next]_vars
FairSpec == Spec /\ Fairness

-----------------------------------------------------------------------------
Words == {Zero} \cup 0 .. 4 * MaxCommands - 1
Orders == Words \X Words

TypeOK ==
    /\ sent \in 0 .. 4 * MaxCommands /\ got \in 0 .. sent
    /\ buf \in [0 .. 3 -> Words]
    /\ server \in {"accept", "recv", "left", "right", "gone"}
    /\ left \in Orders /\ right \in Orders
    /\ other \in [Others -> {"idle", "right"}]
    /\ overlapped \in BOOLEAN
    /\ mishaps \in SUBSET {"cut", "merged", "failed"}

\* What the remote meant: angle and speed of its k-th command.
Sent(k) == <<4 * k - 2, 4 * k - 1>>
IsSentOrder(order) == /\ order[2] < sent /\ order[2] = order[1] + 1
                      /\ Field(order[2]) = 3

(* As long as TCP cuts no command, every recv begins with one, because buf   *)
(* ends on a command's boundary, and the wheels only ever get the angle and  *)
(* speed of one command that was sent: however many arrive together, and     *)
(* although the server never looks at how much recv returned.                *)
DrivesSentCommands ==
    "cut" \notin mishaps =>
        /\ Field(got) = 0
        /\ \A order \in {left, right} :
              order = Standstill \/ IsSentOrder(order)

(* However the stream is cut, an older speed or angle never replaces a newer *)
(* one: a command is dropped or mixed with an earlier one, never repeated    *)
(* after a later one.                                                        *)
NeverBackwards ==
    [][/\ left' = Standstill \/ \A i \in {1, 2} : left'[i] >= left[i]
       /\ right' = Standstill \/ \A i \in {1, 2} : right'[i] >= right[i]]_vars

(* The wheels are set by two calls, with no lock over the pair.  They are    *)
(* driven by different orders only when some program began its two calls     *)
(* inside another's, or a call failed.                                       *)
AgreeUnlessOverlapped ==
    (server # "right" /\ OthersInside = {})
        => (left = right \/ overlapped \/ "failed" \in mishaps)

(* Each command reaches both wheels, unless the connection ends or a mishap  *)
(* befalls it or an earlier one.                                             *)
EveryCommandIsDriven ==
    \A k \in 1 .. MaxCommands :
        LET over == server = "gone" \/ mishaps # {}
        IN  /\ (sent = 4 * k /\ got < sent) ~> (over \/ left = Sent(k))
            /\ (sent = 4 * k /\ got < sent) ~> (over \/ right = Sent(k))

=============================================================================
