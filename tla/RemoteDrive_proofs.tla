-------------------------- MODULE RemoteDrive_proofs --------------------------
(***************************************************************************)
(* The remote control's safety properties for any number of commands and   *)
(* programs, and any size of buf.  StreamInv is inductive for every way    *)
(* the stream may be cut; AlignInv as long as no command is cut; PairInv   *)
(* as long as the wheels can be opened.                                    *)
(***************************************************************************)
EXTENDS RemoteDrive, TLAPS

(* buf holds words that were received, and the wheels nothing newer.         *)
StreamInv ==
    /\ TypeOK
    /\ Field(sent) = 0
    /\ \A i \in 0 .. 3 : buf[i] < got
    /\ left[1] <= buf[2] /\ left[2] <= buf[3]
    /\ right[1] <= buf[2] /\ right[2] <= buf[3]

(* Without cuts the server is at a command's boundary, and buf holds the     *)
(* four words of one command, or none.                                       *)
Aligned ==
    /\ Field(got) = 0
    /\ \/ \A i \in 0 .. 3 : buf[i] = Zero
       \/ /\ buf[0] \in Nat /\ Field(buf[0]) = 0
          /\ \A i \in 0 .. 3 : buf[i] = buf[0] + i
    /\ server \in {"left", "right"} => buf[0] # Zero
    /\ left = Standstill \/ IsSentOrder(left)
    /\ right = Standstill \/ IsSentOrder(right)

AlignInv == "cut" \notin mishaps => Aligned

(* Without an overlap at most one program is between its two calls, and what *)
(* it is about to do to the right wheel it has done to the left one.         *)
Paired ==
    /\ server = "right" => OthersInside = {} /\ left = Order
    /\ \A p, q \in OthersInside : p = q
    /\ OthersInside # {} => left = Standstill
    /\ (server # "right" /\ OthersInside = {}) => left = right

PairInv == (~overlapped /\ "failed" \notin mishaps) => Paired

-----------------------------------------------------------------------------
(* Nothing sent, nothing received, buf filled with zeros.                    *)
LEMMA InitStream == Init => StreamInv
<1> SUFFICES ASSUME Init
             PROVE  StreamInv
  OBVIOUS
<1> USE RemoteDriveAssumption
    DEF Init, Words, Orders, Zero, Standstill, Field
<1>1. sent \in 0 .. 4 * MaxCommands /\ got \in 0 .. sent
  OBVIOUS
<1>2. buf \in [0 .. 3 -> Words] /\ left \in Orders /\ right \in Orders
  OBVIOUS
<1>3. /\ other \in [Others -> {"idle", "right"}] /\ overlapped \in BOOLEAN
      /\ mishaps \in SUBSET {"cut", "merged", "failed"}
  OBVIOUS
<1>4. TypeOK
  BY <1>1, <1>2, <1>3 DEF TypeOK
<1>5. Field(sent) = 0 /\ \A i \in 0 .. 3 : buf[i] < got
  OBVIOUS
<1> QED
  BY <1>4, <1>5 DEF StreamInv

(* Each step of the remote, the server and the other programs keeps the      *)
(* stream's invariant, wherever recv cuts it.                                *)
LEMMA StreamStep == StreamInv /\ [Next]_vars => StreamInv'
<1> SUFFICES ASSUME StreamInv, [Next]_vars
             PROVE  StreamInv'
  OBVIOUS
<1> USE RemoteDriveAssumption
    DEF StreamInv, TypeOK, Words, Orders, Zero, Standstill, Field, wheels
<1>1. CASE UNCHANGED vars
  BY <1>1 DEF vars
<1>2. CASE Sends
  BY <1>2 DEF Sends
<1>3. CASE Accepts
  BY <1>3 DEF Accepts
<1>4. CASE Receives
  <2>1. PICK n \in 1 .. 4 * BufCommands :
           /\ n <= sent - got
           /\ got' = got + n
           /\ buf' = [i \in 0 .. 3 |-> IF i < n THEN got + i ELSE buf[i]]
    BY <1>4 DEF Receives
  <2>2. /\ server' \in {"left", "recv"}
        /\ UNCHANGED <<sent, left, right, other, overlapped>>
        /\ mishaps' \in SUBSET {"cut", "merged", "failed"}
    BY <1>4 DEF Receives, RecvMishaps
  <2>3. got' \in 0 .. sent'
    BY <2>1, <2>2
  <2>4. ASSUME NEW i \in 0 .. 3
        PROVE  buf'[i] \in Words /\ buf'[i] < got' /\ buf[i] <= buf'[i]
    <3>1. buf'[i] = IF i < n THEN got + i ELSE buf[i]
      BY <2>1
    <3> QED
      BY <2>1, <2>2, <3>1
  <2>5. buf' \in [0 .. 3 -> Words]
    BY <2>1, <2>4
  <2>6. buf[2] <= buf'[2] /\ buf[3] <= buf'[3] /\ buf'[2] \in Words
        /\ buf'[3] \in Words
    BY <2>4
  <2> QED
    BY <2>2, <2>3, <2>4, <2>5, <2>6
<1>5. CASE Leaves
  BY <1>5 DEF Leaves
<1>6. CASE SetsLeft
  <2>1. left' = Order \/ left' = left
    BY <1>6 DEF SetsLeft, Sets, OthersInside
  <2>2. mishaps' \in SUBSET {"cut", "merged", "failed"}
    BY <1>6 DEF SetsLeft, Sets, OthersInside
  <2>3. /\ server' = "right" /\ overlapped' \in BOOLEAN
        /\ UNCHANGED <<sent, got, buf, right, other>>
    BY <1>6 DEF SetsLeft, Sets, OthersInside
  <2> QED
    BY <2>1, <2>2, <2>3 DEF Order
<1>7. CASE SetsRight
  <2>1. right' = Order \/ right' = right
    BY <1>7 DEF SetsRight, Sets
  <2>2. mishaps' \in SUBSET {"cut", "merged", "failed"}
    BY <1>7 DEF SetsRight, Sets
  <2>3. server' = "recv" /\ UNCHANGED <<sent, got, buf, left, other, overlapped>>
    BY <1>7 DEF SetsRight, Sets
  <2> QED
    BY <2>1, <2>2, <2>3 DEF Order
<1>8. ASSUME NEW p \in Others, OtherSetsLeft(p)
      PROVE  StreamInv'
  <2>1. left' = Standstill \/ left' = left
    BY <1>8 DEF OtherSetsLeft, Sets, OthersInside
  <2>2. mishaps' \in SUBSET {"cut", "merged", "failed"}
    BY <1>8 DEF OtherSetsLeft, Sets, OthersInside
  <2>3. /\ other' \in [Others -> {"idle", "right"}] /\ overlapped' \in BOOLEAN
        /\ UNCHANGED <<sent, got, buf, server, right>>
    BY <1>8 DEF OtherSetsLeft, Sets, OthersInside
  <2> QED
    BY <2>1, <2>2, <2>3
<1>9. ASSUME NEW p \in Others, OtherSetsRight(p)
      PROVE  StreamInv'
  <2>1. right' = Standstill \/ right' = right
    BY <1>9 DEF OtherSetsRight, Sets
  <2>2. mishaps' \in SUBSET {"cut", "merged", "failed"}
    BY <1>9 DEF OtherSetsRight, Sets
  <2>3. /\ other' \in [Others -> {"idle", "right"}]
        /\ UNCHANGED <<sent, got, buf, server, left, overlapped>>
    BY <1>9 DEF OtherSetsRight, Sets
  <2> QED
    BY <2>1, <2>2, <2>3
<1> QED
  BY <1>1, <1>2, <1>3, <1>4, <1>5, <1>6, <1>7, <1>8, <1>9 DEF Next

(* The stream's invariant holds throughout.                                  *)
THEOREM StreamInvariance == Spec => []StreamInv
BY InitStream, StreamStep, PTL DEF Spec

(* Type correctness: in particular recv never returns more than was sent.    *)
THEOREM TypeCorrect == Spec => []TypeOK
<1>1. StreamInv => TypeOK
  BY DEF StreamInv
<1> QED
  BY StreamInvariance, <1>1, PTL

(* However tcp_server's recv cuts the stream, no older speed or angle        *)
(* replaces a newer one in a wheel's register.                               *)
THEOREM NoOlderOrder == Spec => NeverBackwards
<1> DEFINE Forward ==
      /\ left' = Standstill \/ \A i \in {1, 2} : left'[i] >= left[i]
      /\ right' = Standstill \/ \A i \in {1, 2} : right'[i] >= right[i]
<1>1. StreamInv /\ [Next]_vars => [Forward]_vars
  <2> SUFFICES ASSUME StreamInv, [Next]_vars
               PROVE  Forward
    OBVIOUS
  <2> USE DEF StreamInv, TypeOK, Words, Orders, Zero, Standstill, wheels
  <2>1. CASE UNCHANGED wheels
    BY <2>1
  <2>2. CASE SetsLeft
    BY <2>2 DEF SetsLeft, Sets, Order
  <2>3. CASE SetsRight
    BY <2>3 DEF SetsRight, Sets, Order
  <2>4. ASSUME NEW p \in Others, OtherSetsLeft(p) \/ OtherSetsRight(p)
        PROVE  Forward
    BY <2>4 DEF OtherSetsLeft, OtherSetsRight, Sets
  <2> QED
    BY <2>1, <2>2, <2>3, <2>4
       DEF Next, vars, Sends, Accepts, Receives, Leaves
<1> QED
  BY StreamInvariance, <1>1, PTL DEF Spec, NeverBackwards

-----------------------------------------------------------------------------
(* What is in buf when constrain_and_run is called is a command's order.     *)
LEMMA OrderIsSent ==
    ASSUME StreamInv, Aligned, server \in {"left", "right"}
    PROVE  IsSentOrder(Order)
<1> DEFINE k == buf[0]
<1>1. /\ k \in Nat /\ k % 4 = 0 /\ k + 3 < got
      /\ buf[2] = k + 2 /\ buf[3] = k + 3
  <2>1. k # Zero /\ \A i \in 0 .. 3 : buf[i] < got
    BY DEF Aligned, StreamInv
  <2>2. /\ k \in Nat /\ Field(k) = 0
        /\ \A i \in 0 .. 3 : buf[i] = k + i
    BY <2>1 DEF Aligned
  <2>3. 2 \in 0 .. 3 /\ 3 \in 0 .. 3
    OBVIOUS
  <2>4. buf[2] = k + 2 /\ buf[3] = k + 3
    BY <2>2, <2>3
  <2>5. k + 3 < got
    BY <2>1, <2>3, <2>4
  <2> QED
    BY <2>2, <2>4, <2>5 DEF Field
<1> HIDE DEF k
<1>2. Order[1] = k + 2 /\ Order[2] = k + 3
  BY <1>1 DEF Order
<1>3. (k + 3) % 4 = 3
  BY <1>1
<1>4. Order[2] < sent /\ Order[2] = Order[1] + 1
  BY <1>1, <1>2 DEF StreamInv, TypeOK
<1> QED
  BY <1>2, <1>3, <1>4 DEF IsSentOrder, Field

(* A recv that does not cut returns whole commands or fills its space.       *)
LEMMA UncutIsWhole ==
    ASSUME NEW n, NEW space, "cut" \notin RecvMishaps(n, space)
    PROVE  Field(n) = 0 \/ n = space
<1>1. ASSUME Field(n) # 0, n # space
      PROVE  "cut" \in RecvMishaps(n, space)
  BY <1>1 DEF RecvMishaps
<1> QED
  BY <1>1

(* Each step without a cut keeps the server at a command's boundary.         *)
LEMMA AlignStep == StreamInv /\ Aligned /\ [Next]_vars /\ "cut" \notin mishaps'
                    => Aligned'
<1> SUFFICES ASSUME StreamInv, Aligned, [Next]_vars, "cut" \notin mishaps'
             PROVE  Aligned'
  OBVIOUS
<1> USE RemoteDriveAssumption
    DEF StreamInv, Aligned, TypeOK, Words, Orders, Zero, Standstill, Field,
        IsSentOrder, wheels
<1>1. CASE UNCHANGED vars
  BY <1>1 DEF vars
<1>2. CASE Sends
  <2>1. sent' = sent + 4 /\ UNCHANGED <<got, buf, server, left, right>>
    BY <1>2 DEF Sends
  <2>2. ASSUME NEW order \in Orders, order[2] < sent
        PROVE  order[2] < sent'
    <3>1. order[2] \in Int /\ sent \in Int
      OBVIOUS
    <3> QED
      BY <2>1, <2>2, <3>1
  <2>3. left \in Orders /\ right \in Orders
    OBVIOUS
  <2> QED
    BY <2>1, <2>2, <2>3
<1>3. CASE Accepts
  BY <1>3 DEF Accepts
<1>4. CASE Receives
  <2>1. PICK n \in 1 .. 4 * BufCommands :
           /\ n <= sent - got
           /\ got' = got + n
           /\ mishaps' = mishaps \cup RecvMishaps(n, 4 * BufCommands)
           /\ buf' = [i \in 0 .. 3 |-> IF i < n THEN got + i ELSE buf[i]]
    BY <1>4 DEF Receives
  <2>2. Field(n) = 0 \/ n = 4 * BufCommands
    <3>1. "cut" \notin RecvMishaps(n, 4 * BufCommands)
      BY <2>1
    <3> QED
      BY <3>1, UncutIsWhole
  <2>3. n >= 4 /\ Field(n) = 0
    BY <2>1, <2>2
  <2>4. \A i \in 0 .. 3 : buf'[i] = got + i
    BY <2>1, <2>3
  <2>5. Field(got') = 0
    BY <2>1, <2>3
  <2>6. buf'[0] = got
    BY <2>4
  <2> QED
    BY <1>4, <2>4, <2>5, <2>6 DEF Receives
<1>5. CASE Leaves
  BY <1>5 DEF Leaves
<1>6. ASSUME server \in {"left", "right"}
      PROVE  IsSentOrder(Order)
  BY <1>6, OrderIsSent
<1>7. CASE SetsLeft
  BY <1>6, <1>7 DEF SetsLeft, Sets, OthersInside
<1>8. CASE SetsRight
  BY <1>6, <1>8 DEF SetsRight, Sets
<1>9. ASSUME NEW p \in Others, OtherSetsLeft(p)
      PROVE  Aligned'
  BY <1>9 DEF OtherSetsLeft, Sets, OthersInside
<1>10. ASSUME NEW p \in Others, OtherSetsRight(p)
       PROVE  Aligned'
  BY <1>10 DEF OtherSetsRight, Sets
<1> QED
  BY <1>1, <1>2, <1>3, <1>4, <1>5, <1>7, <1>8, <1>9, <1>10 DEF Next

(* What has befallen the stream or a call stays in mishaps.                  *)
LEMMA MishapsStay == [Next]_vars => mishaps \subseteq mishaps'
BY DEF Next, vars, Sends, Accepts, Receives, Leaves, SetsLeft, SetsRight,
       OtherSetsLeft, OtherSetsRight, Sets

(* As long as no command is cut, the wheels are only driven by commands that *)
(* were sent, for a buf of any whole number of commands.                     *)
THEOREM WholeCommands == Spec => []DrivesSentCommands
<1>1. Init => AlignInv
  BY DEF Init, AlignInv, Aligned, Field, Zero, Standstill
<1>2. StreamInv /\ AlignInv /\ [Next]_vars => AlignInv'
  BY AlignStep, MishapsStay DEF AlignInv
<1>3. AlignInv => DrivesSentCommands
  BY DEF AlignInv, Aligned, DrivesSentCommands
<1> QED
  BY StreamInvariance, <1>1, <1>2, <1>3, PTL DEF Spec

-----------------------------------------------------------------------------
(* Each step without a failed open keeps the wheels' invariant.              *)
LEMMA PairStep ==
    StreamInv /\ PairInv /\ [Next]_vars /\ "failed" \notin mishaps'
              /\ "failed" \notin mishaps
        => PairInv'
<1> SUFFICES ASSUME StreamInv, PairInv, [Next]_vars,
                    "failed" \notin mishaps', "failed" \notin mishaps
             PROVE  PairInv'
  OBVIOUS
<1> USE DEF PairInv, Paired, wheels
<1>1. CASE UNCHANGED vars
  BY <1>1 DEF vars, OthersInside, Order
<1>2. CASE Sends
  BY <1>2 DEF Sends, OthersInside, Order
<1>3. CASE Accepts
  BY <1>3 DEF Accepts, OthersInside, Order
<1>4. CASE Receives
  BY <1>4 DEF Receives, OthersInside
<1>5. CASE Leaves
  BY <1>5 DEF Leaves, OthersInside, Order
<1>6. CASE SetsLeft
  <2>1. left' = Order
    BY <1>6 DEF SetsLeft, Sets
  <2> QED
    BY <1>6, <2>1 DEF SetsLeft, OthersInside, Order
<1>7. CASE SetsRight
  <2>1. right' = Order
    BY <1>7 DEF SetsRight, Sets
  <2> QED
    BY <1>7, <2>1 DEF SetsRight, OthersInside, Order
<1>8. ASSUME NEW p \in Others, OtherSetsLeft(p)
      PROVE  PairInv'
  <2>1. other \in [Others -> {"idle", "right"}]
    BY DEF StreamInv, TypeOK
  <2>2. OthersInside' = OthersInside \cup {p} /\ left' = Standstill
    BY <1>8, <2>1 DEF OtherSetsLeft, Sets, OthersInside
  <2> QED
    BY <1>8, <2>2 DEF OtherSetsLeft
<1>9. ASSUME NEW p \in Others, OtherSetsRight(p)
      PROVE  PairInv'
  <2>1. other \in [Others -> {"idle", "right"}]
    BY DEF StreamInv, TypeOK
  <2>2. OthersInside' = OthersInside \ {p} /\ p \in OthersInside
        /\ right' = Standstill
    BY <1>9, <2>1 DEF OtherSetsRight, Sets, OthersInside
  <2> QED
    BY <1>9, <2>2 DEF OtherSetsRight, Order
<1> QED
  BY <1>1, <1>2, <1>3, <1>4, <1>5, <1>6, <1>7, <1>8, <1>9 DEF Next

(* Two programs' wheels disagree only after one began its pair of calls      *)
(* inside another's or a call failed, for any number of programs.            *)
THEOREM PairsAgree == Spec => []AgreeUnlessOverlapped
<1>1. Init => PairInv
  BY DEF Init, PairInv, Paired, OthersInside
<1>2. StreamInv /\ PairInv /\ [Next]_vars => PairInv'
  <2>1. "failed" \in mishaps' => PairInv'
    BY DEF PairInv
  <2> QED
    BY <2>1, PairStep, MishapsStay
<1>3. PairInv => AgreeUnlessOverlapped
  BY DEF PairInv, Paired, AgreeUnlessOverlapped
<1> QED
  BY StreamInvariance, <1>1, <1>2, <1>3, PTL DEF Spec

=============================================================================
