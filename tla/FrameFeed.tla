------------------------------ MODULE FrameFeed ------------------------------
(***************************************************************************)
(* What the picture buffer of mjpg_streamer promises its HTTP clients: a   *)
(* client that asks is handed, in one piece, the newest frame, and only    *)
(* once a frame newer than its question exists.  Frames it is too slow for *)
(* are skipped.  The promise ends when the program starts giving its       *)
(* resources back.                                                         *)
(***************************************************************************)
EXTENDS Naturals

CONSTANT Clients

VARIABLES latest,  \* number of the newest frame
          intact,  \* the promise still stands
          phase,   \* what each client is doing
          since,   \* the newest frame when it asked
          got      \* the picture it was handed last

vars == <<latest, intact, phase, since, got>>

Copy(n) == [size |-> n, stamp |-> n, body |-> n]

Init ==
    /\ latest = 0
    /\ intact = TRUE
    /\ phase = [c \in Clients |-> "idle"]
    /\ since = [c \in Clients |-> 0]
    /\ got = [c \in Clients |-> Copy(0)]

Publish ==
    /\ latest' > latest
    /\ UNCHANGED <<phase, since, got>>

Ask(c) ==
    /\ phase[c] = "idle"
    /\ phase' = [phase EXCEPT ![c] = "waiting"]
    /\ since' = [since EXCEPT ![c] = latest]
    /\ UNCHANGED <<latest, got>>

Serve(c) ==
    /\ phase[c] = "waiting"
    /\ latest > since[c]
    /\ phase' = [phase EXCEPT ![c] = "served"]
    /\ got' = [got EXCEPT ![c] = Copy(latest)]
    /\ UNCHANGED <<latest, since>>

\* The client asks again later (a stream), keeping what it got ...
Rest(c) ==
    /\ phase[c] = "served"
    /\ phase' = [phase EXCEPT ![c] = "idle"]
    /\ UNCHANGED <<latest, since, got>>

\* ... or its connection ends, served or not.
Leave(c) ==
    /\ phase' = [phase EXCEPT ![c] = "idle"]
    /\ since' = [since EXCEPT ![c] = 0]
    /\ got' = [got EXCEPT ![c] = Copy(0)]
    /\ UNCHANGED latest

Next ==
    \/ /\ intact /\ intact'
       /\ \/ Publish
          \/ \E c \in Clients : Ask(c) \/ Serve(c) \/ Rest(c) \/ Leave(c)
    \/ ~intact'

Spec == Init /\ [][Next]_vars

=============================================================================
