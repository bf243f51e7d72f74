--------------------------- MODULE VideoPipe_proofs ---------------------------
(***************************************************************************)
(* Proofs about VideoPipe for any set of clients, any number of frames and *)
(* either setting of minimum_size.                                         *)
(***************************************************************************)
EXTENDS VideoPipe, TLAPS

\* Who owns db.  A destroyed mutex has no owner.
LockInv ==
    IF Destroyed
      THEN db = Nobody
      ELSE /\ CamWriting <=> db = Cam
           /\ \A c \in Clients : Reading(c) <=> db = c

\* Outside the camera's critical section the picture buffer holds one frame.
BufferInv ==
    /\ cam # "stamp" => Whole(in)
    /\ cam = "stamp" => in.body = grabbed /\ in.size = grabbed
    /\ cam = "signal" => in.body = grabbed

\* The private copy of a client is a piece of the picture buffer.
CopyInv ==
    Intact => \A c \in Clients :
                 /\ pc[c] = "body" => /\ out[c].size = in.size
                                      /\ out[c].stamp = in.stamp
                 /\ pc[c] # "body" => Whole(out[c])

IInv == TypeOK /\ LockInv /\ BufferInv /\ CopyInv

\* The order of frames: the camera is ahead of the buffer, the buffer of the
\* question of every client, the question of what the client had before.
OrderInv ==
    /\ in.body <= grabbed
    /\ cam \in {"lock", "copy"} => in.body < grabbed
    /\ \A c \in Clients : asked[c] <= in.body /\ out[c].body <= in.body

WakeInv ==
    Intact => \A c \in Clients :
        /\ pc[c] \in {"wait", "header", "body"} => out[c].body <= asked[c]
        /\ pc[c] = "wait" /\ (c \notin waiters \/ cam \in {"stamp", "signal"})
              => asked[c] < in.body
        /\ pc[c] \in {"header", "body"} => asked[c] < in.body
        /\ pc[c] \in {"unlock", "write"} => asked[c] < out[c].body

FInv == IInv /\ OrderInv /\ WakeInv

-----------------------------------------------------------------------------
ClientTypes ==
    /\ pc \in [Clients -> {"none", "request", "loop", "lock", "wait", "header", "body",
                           "unlock", "write"}]
    /\ kind \in [Clients -> {"other", "snapshot", "stream"}]
    /\ asked \in [Clients -> Nat]
    /\ out \in [Clients -> Picture]

\* Ending a connection keeps the types of the client's variables.
LEMMA HangupTypes ==
  ASSUME ClientTypes, NEW c \in Clients, Hangup(c)
  PROVE  ClientTypes'
  <1>1. Empty \in Picture
    BY DEF Empty, WholePicture, NoFrame, Picture
  <1> QED
    BY <1>1 DEF ClientTypes, Hangup, NoFrame

\* Every step keeps the types.
LEMMA TypeStep ==
  ASSUME TypeOK, [Next]_vars
  PROVE  TypeOK'
  <1> USE VideoPipeAssumption DEF TypeOK, NoFrame, CamStep, MainStep, Lock,
              vars, camVars, serverVars, clientVars
  <1>1. CASE up /\ CamThread
    <2>1. CASE CamPolls
      BY <2>1 DEF CamPolls
    <2>2. CASE CamGrabs
      BY <2>2 DEF CamGrabs
    <2>3. CASE CamGrabFails
      BY <2>3 DEF CamGrabFails
    <2>4. CASE CamLocks
      BY <2>4 DEF CamLocks
    <2>5. CASE CamCopies
      BY <2>5 DEF CamCopies, Picture
    <2>6. CASE CamStamps
      BY <2>6 DEF CamStamps, Picture
    <2>7. CASE CamBroadcasts
      BY <2>7 DEF CamBroadcasts
    <2>8. CASE CamUnlocks
      BY <2>8 DEF CamUnlocks
    <2>9. CASE CamCancelled
      BY <2>9 DEF CamCancelled
    <2>10. CASE CamCleansUp
      BY <2>10 DEF CamCleansUp
    <2> QED
      BY <1>1, <2>1, <2>2, <2>3, <2>4, <2>5, <2>6, <2>7, <2>8, <2>9, <2>10 DEF CamThread
  <1>2. CASE up /\ SignalHandler
    <2>1. CASE Signalled
      BY <2>1 DEF Signalled
    <2>2. CASE InputStop
      BY <2>2 DEF InputStop
    <2>3. CASE OutputStop
      BY <2>3 DEF OutputStop
    <2>4. CASE DestroyDb
      BY <2>4 DEF DestroyDb
    <2>5. CASE ClosePlugins
      BY <2>5 DEF ClosePlugins
    <2>6. CASE Exit
      BY <2>6 DEF Exit
    <2> QED
      BY <1>2, <2>1, <2>2, <2>3, <2>4, <2>5, <2>6 DEF SignalHandler
  <1>3. CASE up /\ ServerCancelled
    BY <1>3 DEF ServerCancelled
  <1>4. ASSUME NEW c \in Clients, up, Accept(c) \/ ClientThread(c)
        PROVE  TypeOK'
    <2>1. CASE Accept(c)
      BY <2>1, <1>4 DEF Accept
    <2>2. CASE Dispatch(c)
      <3> ClientTypes
        BY DEF ClientTypes
      <3>1. CASE Hangup(c)
        BY <2>2, <3>1, HangupTypes DEF ClientTypes, Dispatch
      <3>2. CASE ~Hangup(c)
        BY <2>2, <3>2 DEF Dispatch
      <3> QED
        BY <3>1, <3>2
    <2>3. CASE StreamLoop(c)
      <3> ClientTypes
        BY DEF ClientTypes
      <3>1. CASE Hangup(c)
        BY <2>3, <3>1, HangupTypes DEF ClientTypes, StreamLoop
      <3>2. CASE ~Hangup(c)
        BY <2>3, <3>2 DEF StreamLoop
      <3> QED
        BY <3>1, <3>2
    <2>4. CASE ClientWaits(c)
      <3>1. in.body \in Nat
        BY DEF Picture
      <3> QED
        BY <2>4, <3>1 DEF ClientWaits, Destroyed
    <2>5. CASE ClientWakes(c)
      BY <2>5, <1>4 DEF ClientWakes
    <2>6. CASE ClientReadsHeader(c)
      <3> DEFINE o == [out[c] EXCEPT !.size = in.size, !.stamp = in.stamp]
      <3>1. o \in Picture
        BY DEF Picture
      <3>2. out' = [out EXCEPT ![c] = o]
        BY <2>6 DEF ClientReadsHeader, Picture
      <3> QED
        BY <2>6, <3>1, <3>2 DEF ClientReadsHeader
    <2>7. CASE ClientOutOfMemory(c)
      <3> ClientTypes
        BY DEF ClientTypes
      <3>1. CASE Hangup(c)
        BY <2>7, <3>1, HangupTypes DEF ClientTypes, ClientOutOfMemory
      <3>2. CASE ~Hangup(c)
        BY <2>7, <3>2 DEF ClientOutOfMemory
      <3> QED
        BY <3>1, <3>2
    <2>8. CASE ClientCopies(c)
      <3>1. PICK b \in Nat : out' = [out EXCEPT ![c].body = b]
        BY <2>8 DEF ClientCopies, Picture
      <3>2. [out[c] EXCEPT !.body = b] \in Picture
        BY DEF Picture
      <3>3. out' = [out EXCEPT ![c] = [out[c] EXCEPT !.body = b]]
        BY <3>1 DEF Picture
      <3> QED
        BY <2>8, <3>2, <3>3 DEF ClientCopies
    <2>9. CASE ClientUnlocks(c)
      BY <2>9, <1>4 DEF ClientUnlocks
    <2>10. CASE ClientWrites(c)
      <3> ClientTypes
        BY DEF ClientTypes
      <3>1. CASE Hangup(c)
        BY <2>10, <3>1, HangupTypes DEF ClientTypes, ClientWrites
      <3>2. CASE ~Hangup(c)
        BY <2>10, <3>2 DEF ClientWrites
      <3> QED
        BY <3>1, <3>2
    <2> QED
      BY <1>4, <2>1, <2>2, <2>3, <2>4, <2>5, <2>6, <2>7, <2>8, <2>9, <2>10 DEF ClientThread
  <1>5. CASE UNCHANGED vars
    BY <1>5
  <1> QED
    BY <1>1, <1>2, <1>3, <1>4, <1>5 DEF Next

\* Every step keeps the ownership of db.
LEMMA LockStep ==
  ASSUME TypeOK, LockInv, [Next]_vars
  PROVE  LockInv'
  <1> USE VideoPipeAssumption DEF TypeOK, LockInv, CamWriting, Reading, Destroyed,
              CamStep, MainStep, Lock, Hangup,
              vars, camVars, serverVars, clientVars
  <1>1. CASE up /\ CamThread
    <2>1. CASE CamPolls
      BY <2>1 DEF CamPolls
    <2>2. CASE CamGrabs
      BY <2>2 DEF CamGrabs
    <2>3. CASE CamGrabFails
      BY <2>3 DEF CamGrabFails
    <2>4. CASE CamLocks
      BY <2>4 DEF CamLocks
    <2>5. CASE CamCopies
      BY <2>5 DEF CamCopies
    <2>6. CASE CamStamps
      BY <2>6 DEF CamStamps
    <2>7. CASE CamBroadcasts
      BY <2>7 DEF CamBroadcasts
    <2>8. CASE CamUnlocks
      BY <2>8 DEF CamUnlocks
    <2>9. CASE CamCancelled
      BY <2>9 DEF CamCancelled
    <2>10. CASE CamCleansUp
      BY <2>10 DEF CamCleansUp
    <2> QED
      BY <1>1, <2>1, <2>2, <2>3, <2>4, <2>5, <2>6, <2>7, <2>8, <2>9, <2>10 DEF CamThread
  <1>2. CASE up /\ SignalHandler
    <2>1. CASE Signalled
      BY <2>1 DEF Signalled
    <2>2. CASE InputStop
      BY <2>2 DEF InputStop
    <2>3. CASE OutputStop
      BY <2>3 DEF OutputStop
    <2>4. CASE DestroyDb
      BY <2>4 DEF DestroyDb
    <2>5. CASE ClosePlugins
      BY <2>5 DEF ClosePlugins
    <2>6. CASE Exit
      BY <2>6 DEF Exit
    <2> QED
      BY <1>2, <2>1, <2>2, <2>3, <2>4, <2>5, <2>6 DEF SignalHandler
  <1>3. CASE up /\ ServerCancelled
    BY <1>3 DEF ServerCancelled
  <1>4. ASSUME NEW c \in Clients, up, Accept(c) \/ ClientThread(c)
        PROVE  LockInv'
    <2>1. CASE Accept(c)
      BY <2>1, <1>4 DEF Accept
    <2>2. CASE Dispatch(c)
      BY <2>2, <1>4 DEF Dispatch
    <2>3. CASE StreamLoop(c)
      BY <2>3, <1>4 DEF StreamLoop
    <2>4. CASE ClientWaits(c)
      BY <2>4, <1>4 DEF ClientWaits
    <2>5. CASE ClientWakes(c)
      BY <2>5, <1>4 DEF ClientWakes
    <2>6. CASE ClientReadsHeader(c)
      BY <2>6, <1>4 DEF ClientReadsHeader
    <2>7. CASE ClientOutOfMemory(c)
      BY <2>7, <1>4 DEF ClientOutOfMemory
    <2>8. CASE ClientCopies(c)
      BY <2>8, <1>4 DEF ClientCopies
    <2>9. CASE ClientUnlocks(c)
      BY <2>9, <1>4 DEF ClientUnlocks
    <2>10. CASE ClientWrites(c)
      BY <2>10, <1>4 DEF ClientWrites
    <2> QED
      BY <1>4, <2>1, <2>2, <2>3, <2>4, <2>5, <2>6, <2>7, <2>8, <2>9, <2>10 DEF ClientThread
  <1>5. CASE UNCHANGED vars
    BY <1>5
  <1> QED
    BY <1>1, <1>2, <1>3, <1>4, <1>5 DEF Next

\* Every step keeps the picture buffer in one piece.
LEMMA BufferStep ==
  ASSUME TypeOK, BufferInv, [Next]_vars
  PROVE  BufferInv'
  <1> USE DEF TypeOK, BufferInv, Picture, Whole, CamStep, MainStep,
          vars, camVars, serverVars, clientVars
  <1>1. CASE up /\ CamThread
    <2>1. CASE CamPolls
      BY <2>1 DEF CamPolls
    <2>2. CASE CamGrabs
      BY <2>2 DEF CamGrabs
    <2>3. CASE CamGrabFails
      BY <2>3 DEF CamGrabFails
    <2>4. CASE CamLocks
      BY <2>4 DEF CamLocks
    <2>5. CASE CamCopies
      BY <2>5 DEF CamCopies
    <2>6. CASE CamStamps
      BY <2>6 DEF CamStamps
    <2>7. CASE CamBroadcasts
      BY <2>7 DEF CamBroadcasts
    <2>8. CASE CamUnlocks
      BY <2>8 DEF CamUnlocks
    <2>9. CASE CamCancelled
      BY <2>9 DEF CamCancelled
    <2>10. CASE CamCleansUp
      BY <2>10 DEF CamCleansUp
    <2> QED
      BY <1>1, <2>1, <2>2, <2>3, <2>4, <2>5, <2>6, <2>7, <2>8, <2>9, <2>10 DEF CamThread
  <1>2. CASE up /\ SignalHandler
    <2>1. CASE Signalled
      BY <2>1 DEF Signalled
    <2>2. CASE InputStop
      BY <2>2 DEF InputStop
    <2>3. CASE OutputStop
      BY <2>3 DEF OutputStop
    <2>4. CASE DestroyDb
      BY <2>4 DEF DestroyDb
    <2>5. CASE ClosePlugins
      BY <2>5 DEF ClosePlugins
    <2>6. CASE Exit
      BY <2>6 DEF Exit
    <2> QED
      BY <1>2, <2>1, <2>2, <2>3, <2>4, <2>5, <2>6 DEF SignalHandler
  <1>3. CASE up /\ ServerCancelled
    BY <1>3 DEF ServerCancelled
  <1>4. ASSUME NEW c \in Clients, up, Accept(c) \/ ClientThread(c)
        PROVE  BufferInv'
    <2>1. CASE Accept(c)
      BY <2>1, <1>4 DEF Accept
    <2>2. CASE Dispatch(c)
      BY <2>2, <1>4 DEF Dispatch
    <2>3. CASE StreamLoop(c)
      BY <2>3, <1>4 DEF StreamLoop
    <2>4. CASE ClientWaits(c)
      BY <2>4, <1>4 DEF ClientWaits
    <2>5. CASE ClientWakes(c)
      BY <2>5, <1>4 DEF ClientWakes
    <2>6. CASE ClientReadsHeader(c)
      BY <2>6, <1>4 DEF ClientReadsHeader
    <2>7. CASE ClientOutOfMemory(c)
      BY <2>7, <1>4 DEF ClientOutOfMemory
    <2>8. CASE ClientCopies(c)
      BY <2>8, <1>4 DEF ClientCopies
    <2>9. CASE ClientUnlocks(c)
      BY <2>9, <1>4 DEF ClientUnlocks
    <2>10. CASE ClientWrites(c)
      BY <2>10, <1>4 DEF ClientWrites
    <2> QED
      BY <1>4, <2>1, <2>2, <2>3, <2>4, <2>5, <2>6, <2>7, <2>8, <2>9, <2>10 DEF ClientThread
  <1>5. CASE UNCHANGED vars
    BY <1>5
  <1> QED
    BY <1>1, <1>2, <1>3, <1>4, <1>5 DEF Next

\* Every step keeps the private copies in one piece.
LEMMA CopyStep ==
  ASSUME TypeOK, LockInv, BufferInv, CopyInv, [Next]_vars
  PROVE  CopyInv'
  <1> USE VideoPipeAssumption DEF TypeOK, LockInv, BufferInv, CopyInv, Intact,
              Destroyed, CamWriting, Reading, Whole, WholePicture, Empty, NoFrame,
              Picture, CamStep, MainStep, Lock, Hangup,
              vars, camVars, serverVars, clientVars
  <1>1. CASE up /\ CamThread
    <2>1. CASE CamPolls
      BY <2>1 DEF CamPolls
    <2>2. CASE CamGrabs
      BY <2>2 DEF CamGrabs
    <2>3. CASE CamGrabFails
      BY <2>3 DEF CamGrabFails
    <2>4. CASE CamLocks
      BY <2>4 DEF CamLocks
    <2>5. CASE CamCopies
      BY <2>5 DEF CamCopies
    <2>6. CASE CamStamps
      BY <2>6 DEF CamStamps
    <2>7. CASE CamBroadcasts
      BY <2>7 DEF CamBroadcasts
    <2>8. CASE CamUnlocks
      BY <2>8 DEF CamUnlocks
    <2>9. CASE CamCancelled
      BY <2>9 DEF CamCancelled
    <2>10. CASE CamCleansUp
      BY <2>10 DEF CamCleansUp
    <2> QED
      BY <1>1, <2>1, <2>2, <2>3, <2>4, <2>5, <2>6, <2>7, <2>8, <2>9, <2>10 DEF CamThread
  <1>2. CASE up /\ SignalHandler
    <2>1. CASE Signalled
      BY <2>1 DEF Signalled
    <2>2. CASE InputStop
      BY <2>2 DEF InputStop
    <2>3. CASE OutputStop
      BY <2>3 DEF OutputStop
    <2>4. CASE DestroyDb
      BY <2>4 DEF DestroyDb
    <2>5. CASE ClosePlugins
      BY <2>5 DEF ClosePlugins
    <2>6. CASE Exit
      BY <2>6 DEF Exit
    <2> QED
      BY <1>2, <2>1, <2>2, <2>3, <2>4, <2>5, <2>6 DEF SignalHandler
  <1>3. CASE up /\ ServerCancelled
    BY <1>3 DEF ServerCancelled
  <1>4. ASSUME NEW c \in Clients, up, Accept(c) \/ ClientThread(c)
        PROVE  CopyInv'
    <2>1. CASE Accept(c)
      BY <2>1, <1>4 DEF Accept
    <2>2. CASE Dispatch(c)
      BY <2>2, <1>4 DEF Dispatch
    <2>3. CASE StreamLoop(c)
      BY <2>3, <1>4 DEF StreamLoop
    <2>4. CASE ClientWaits(c)
      BY <2>4, <1>4 DEF ClientWaits
    <2>5. CASE ClientWakes(c)
      BY <2>5, <1>4 DEF ClientWakes
    <2>6. CASE ClientReadsHeader(c)
      BY <2>6, <1>4 DEF ClientReadsHeader
    <2>7. CASE ClientOutOfMemory(c)
      BY <2>7, <1>4 DEF ClientOutOfMemory
    <2>8. CASE ClientCopies(c)
      BY <2>8, <1>4 DEF ClientCopies
    <2>9. CASE ClientUnlocks(c)
      BY <2>9, <1>4 DEF ClientUnlocks
    <2>10. CASE ClientWrites(c)
      BY <2>10, <1>4 DEF ClientWrites
    <2> QED
      BY <1>4, <2>1, <2>2, <2>3, <2>4, <2>5, <2>6, <2>7, <2>8, <2>9, <2>10 DEF ClientThread
  <1>5. CASE UNCHANGED vars
    BY <1>5
  <1> QED
    BY <1>1, <1>2, <1>3, <1>4, <1>5 DEF Next

-----------------------------------------------------------------------------
\* IInv is inductive.
THEOREM Invariance == Spec => []IInv
  <1>1. Init => IInv
    <2> SUFFICES ASSUME Init PROVE IInv
      OBVIOUS
    <2> USE VideoPipeAssumption DEF Init, Empty, WholePicture, NoFrame
    <2>1. TypeOK
      BY DEF TypeOK, Picture
    <2>2. LockInv
      BY DEF LockInv, Destroyed, CamWriting, Reading
    <2>3. BufferInv /\ CopyInv
      BY DEF BufferInv, CopyInv, Whole
    <2> QED
      BY <2>1, <2>2, <2>3 DEF IInv
  <1>2. IInv /\ [Next]_vars => IInv'
    BY TypeStep, LockStep, BufferStep, CopyStep DEF IInv
  <1> QED
    BY <1>1, <1>2, PTL DEF Spec

\* Type correctness.
THEOREM TypeCorrect == Spec => []TypeOK
  <1>1. IInv => TypeOK
    BY DEF IInv
  <1> QED
    BY <1>1, Invariance, PTL

\* Until the shutdown gives the buffer or its mutex back, db covers every
\* access of cam_thread, send_snapshot and send_stream to the picture buffer.
THEOREM MutualExclusion == Spec => []Exclusive
  <1>1. IInv => Exclusive
    BY DEF IInv, LockInv, Exclusive, Intact, Destroyed
  <1> QED
    BY <1>1, Invariance, PTL

\* What a client sends is one frame with that frame's length and timestamp.
THEOREM WholeFrames == Spec => []DeliversWholeFrames
  <1>1. IInv => DeliversWholeFrames
    BY DEF IInv, CopyInv, DeliversWholeFrames
  <1> QED
    BY <1>1, Invariance, PTL

\* The camera thread never ends as the owner of db, destroyed or not.
THEOREM CamNeverKeepsDb == Spec => []CamLeavesDbFree
  <1>1. IInv => CamLeavesDbFree
    BY VideoPipeAssumption DEF IInv, LockInv, CamLeavesDbFree, CamWriting
  <1> QED
    BY <1>1, Invariance, PTL

-----------------------------------------------------------------------------
(***************************************************************************)
(* The order of frames.  It is stated for numbered frames.                 *)
(***************************************************************************)
\* Every step keeps the camera ahead of the buffer, and that of the clients.
LEMMA OrderStep ==
  ASSUME Numbered, TypeOK, BufferInv, OrderInv, [Next]_vars
  PROVE  OrderInv'
  <1> USE DEF TypeOK, OrderInv, BufferInv, WholePicture, Empty, NoFrame, Picture,
          CamStep, MainStep, Lock, Hangup,
          vars, camVars, serverVars, clientVars
  <1>1. CASE up /\ CamThread
    <2>1. CASE CamPolls
      BY <2>1 DEF CamPolls
    <2>2. CASE CamGrabs
      BY <2>2 DEF CamGrabs
    <2>3. CASE CamGrabFails
      BY <2>3 DEF CamGrabFails
    <2>4. CASE CamLocks
      BY <2>4 DEF CamLocks
    <2>5. CASE CamCopies
      BY <2>5 DEF CamCopies
    <2>6. CASE CamStamps
      BY <2>6 DEF CamStamps
    <2>7. CASE CamBroadcasts
      BY <2>7 DEF CamBroadcasts
    <2>8. CASE CamUnlocks
      BY <2>8 DEF CamUnlocks
    <2>9. CASE CamCancelled
      BY <2>9 DEF CamCancelled
    <2>10. CASE CamCleansUp
      BY <2>10 DEF CamCleansUp
    <2> QED
      BY <1>1, <2>1, <2>2, <2>3, <2>4, <2>5, <2>6, <2>7, <2>8, <2>9, <2>10 DEF CamThread
  <1>2. CASE up /\ SignalHandler
    <2>1. CASE Signalled
      BY <2>1 DEF Signalled
    <2>2. CASE InputStop
      BY <2>2 DEF InputStop
    <2>3. CASE OutputStop
      BY <2>3 DEF OutputStop
    <2>4. CASE DestroyDb
      BY <2>4 DEF DestroyDb
    <2>5. CASE ClosePlugins
      BY <2>5 DEF ClosePlugins
    <2>6. CASE Exit
      BY <2>6 DEF Exit
    <2> QED
      BY <1>2, <2>1, <2>2, <2>3, <2>4, <2>5, <2>6 DEF SignalHandler
  <1>3. CASE up /\ ServerCancelled
    BY <1>3 DEF ServerCancelled
  <1>4. ASSUME NEW c \in Clients, up, Accept(c) \/ ClientThread(c)
        PROVE  OrderInv'
    <2>1. CASE Accept(c)
      BY <2>1, <1>4 DEF Accept
    <2>2. CASE Dispatch(c)
      BY <2>2, <1>4 DEF Dispatch
    <2>3. CASE StreamLoop(c)
      BY <2>3, <1>4 DEF StreamLoop
    <2>4. CASE ClientWaits(c)
      BY <2>4, <1>4 DEF ClientWaits
    <2>5. CASE ClientWakes(c)
      BY <2>5, <1>4 DEF ClientWakes
    <2>6. CASE ClientReadsHeader(c)
      BY <2>6, <1>4 DEF ClientReadsHeader
    <2>7. CASE ClientOutOfMemory(c)
      BY <2>7, <1>4 DEF ClientOutOfMemory
    <2>8. CASE ClientCopies(c)
      BY <2>8, <1>4 DEF ClientCopies
    <2>9. CASE ClientUnlocks(c)
      BY <2>9, <1>4 DEF ClientUnlocks
    <2>10. CASE ClientWrites(c)
      BY <2>10, <1>4 DEF ClientWrites
    <2> QED
      BY <1>4, <2>1, <2>2, <2>3, <2>4, <2>5, <2>6, <2>7, <2>8, <2>9, <2>10 DEF ClientThread
  <1>5. CASE UNCHANGED vars
    BY <1>5
  <1> QED
    BY <1>1, <1>2, <1>3, <1>4, <1>5 DEF Next

\* Every step keeps a woken client behind the buffer.
LEMMA WakeStep ==
  ASSUME TypeOK, LockInv, BufferInv, OrderInv, WakeInv, [Next]_vars
  PROVE  WakeInv'
  <1> USE VideoPipeAssumption DEF TypeOK, LockInv, BufferInv, OrderInv, WakeInv,
              Intact, Destroyed, CamWriting, Reading, WholePicture, Empty, NoFrame,
              Picture, CamStep, MainStep, Lock, Hangup,
              vars, camVars, serverVars, clientVars
  <1>1. CASE up /\ CamThread
    <2>1. CASE CamPolls
      BY <2>1 DEF CamPolls
    <2>2. CASE CamGrabs
      BY <2>2 DEF CamGrabs
    <2>3. CASE CamGrabFails
      BY <2>3 DEF CamGrabFails
    <2>4. CASE CamLocks
      BY <2>4 DEF CamLocks
    <2>5. CASE CamCopies
      BY <2>5 DEF CamCopies
    <2>6. CASE CamStamps
      BY <2>6 DEF CamStamps
    <2>7. CASE CamBroadcasts
      BY <2>7 DEF CamBroadcasts
    <2>8. CASE CamUnlocks
      BY <2>8 DEF CamUnlocks
    <2>9. CASE CamCancelled
      BY <2>9 DEF CamCancelled
    <2>10. CASE CamCleansUp
      BY <2>10 DEF CamCleansUp
    <2> QED
      BY <1>1, <2>1, <2>2, <2>3, <2>4, <2>5, <2>6, <2>7, <2>8, <2>9, <2>10 DEF CamThread
  <1>2. CASE up /\ SignalHandler
    <2>1. CASE Signalled
      BY <2>1 DEF Signalled
    <2>2. CASE InputStop
      BY <2>2 DEF InputStop
    <2>3. CASE OutputStop
      BY <2>3 DEF OutputStop
    <2>4. CASE DestroyDb
      BY <2>4 DEF DestroyDb
    <2>5. CASE ClosePlugins
      BY <2>5 DEF ClosePlugins
    <2>6. CASE Exit
      BY <2>6 DEF Exit
    <2> QED
      BY <1>2, <2>1, <2>2, <2>3, <2>4, <2>5, <2>6 DEF SignalHandler
  <1>3. CASE up /\ ServerCancelled
    BY <1>3 DEF ServerCancelled
  <1>4. ASSUME NEW c \in Clients, up, Accept(c) \/ ClientThread(c)
        PROVE  WakeInv'
    <2>1. CASE Accept(c)
      BY <2>1, <1>4 DEF Accept
    <2>2. CASE Dispatch(c)
      BY <2>2, <1>4 DEF Dispatch
    <2>3. CASE StreamLoop(c)
      BY <2>3, <1>4 DEF StreamLoop
    <2>4. CASE ClientWaits(c)
      BY <2>4, <1>4 DEF ClientWaits
    <2>5. CASE ClientWakes(c)
      BY <2>5, <1>4 DEF ClientWakes
    <2>6. CASE ClientReadsHeader(c)
      BY <2>6, <1>4 DEF ClientReadsHeader
    <2>7. CASE ClientOutOfMemory(c)
      BY <2>7, <1>4 DEF ClientOutOfMemory
    <2>8. CASE ClientCopies(c)
      BY <2>8, <1>4 DEF ClientCopies
    <2>9. CASE ClientUnlocks(c)
      BY <2>9, <1>4 DEF ClientUnlocks
    <2>10. CASE ClientWrites(c)
      BY <2>10, <1>4 DEF ClientWrites
    <2> QED
      BY <1>4, <2>1, <2>2, <2>3, <2>4, <2>5, <2>6, <2>7, <2>8, <2>9, <2>10 DEF ClientThread
  <1>5. CASE UNCHANGED vars
    BY <1>5
  <1> QED
    BY <1>1, <1>2, <1>3, <1>4, <1>5 DEF Next

\* FInv is inductive when frames are numbered.
THEOREM OrderInvariance == ASSUME Numbered PROVE Spec => []FInv
  <1>1. IInv /\ Init => FInv
    BY DEF Init, FInv, OrderInv, WakeInv, WholePicture, Empty, NoFrame
  <1>2. FInv /\ [Next]_vars => FInv'
    BY Numbered, TypeStep, LockStep, BufferStep, CopyStep, OrderStep, WakeStep
       DEF FInv, IInv
  <1> QED
    BY <1>1, <1>2, Invariance, PTL DEF Spec

\* What a client sends was published after it began to wait.
THEOREM FreshFrames == ASSUME Numbered PROVE Spec => []DeliversFreshFrames
  <1>1. FInv => DeliversFreshFrames
    BY DEF FInv, IInv, TypeOK, Picture, WakeInv, DeliversFreshFrames
  <1> QED
    BY <1>1, OrderInvariance, PTL

\* A connection only ever copies a frame newer than the one it sent before.
THEOREM ForwardOnly == ASSUME Numbered PROVE Spec => StreamMovesForward
  <1> DEFINE Step(c) == Intact /\ pc[c] = "body" /\ pc'[c] = "unlock"
                           => out'[c].body > out[c].body
  <1>1. FInv /\ [Next]_vars => [\A c \in Clients : Step(c)]_vars
    <2> SUFFICES ASSUME FInv, Next, NEW c \in Clients, Intact,
                        pc[c] = "body", pc'[c] = "unlock"
                 PROVE  out'[c].body > out[c].body
      OBVIOUS
    <2>1. "buf" \notin released /\ out[c] \in Picture /\ in \in Picture
      BY DEF FInv, IInv, TypeOK, Intact
    <2>2. out[c].body <= asked[c] /\ asked[c] < in.body /\ asked[c] \in Nat
      BY DEF FInv, IInv, TypeOK, WakeInv
    <2>3. out'[c].body = in.body
      <3>1. ~CamThread
        BY DEF CamThread, CamPolls, CamGrabs, CamGrabFails, CamLocks, CamCopies,
               CamStamps, CamBroadcasts, CamUnlocks, CamCancelled, CamCleansUp,
               clientVars
      <3>2. ~SignalHandler /\ ~ServerCancelled
        BY DEF SignalHandler, Signalled, InputStop, OutputStop, DestroyDb,
               ClosePlugins, Exit, ServerCancelled, clientVars
      <3>3. PICK d \in Clients : Accept(d) \/ ClientThread(d)
        BY <3>1, <3>2 DEF Next, vars, clientVars
      <3>4. pc \in [Clients -> {"none", "request", "loop", "lock", "wait", "header",
                              "body", "unlock", "write"}]
        BY DEF FInv, IInv, TypeOK
      <3>5. ClientCopies(d) /\ d = c
        BY <3>3, <3>4 DEF ClientThread, Accept, Dispatch, StreamLoop, ClientWaits,
               ClientWakes, ClientReadsHeader, ClientOutOfMemory, ClientUnlocks,
               ClientCopies, ClientWrites, Hangup
      <3> QED
        BY <2>1, <3>5 DEF ClientCopies, FInv, IInv, TypeOK, Picture
    <2> QED
      BY <2>1, <2>2, <2>3 DEF Picture
  <1> QED
    BY <1>1, OrderInvariance, PTL DEF Spec, StreamMovesForward

-----------------------------------------------------------------------------
(***************************************************************************)
(* The pipe implements the frame feed: publishing is CamCopies, asking is  *)
(* ClientWaits, serving is ClientCopies; every other step either ends a    *)
(* question or is invisible.                                               *)
(***************************************************************************)
\* A step of the camera, of main or of the accept loop.
LEMMA OthersImplement ==
  ASSUME FInv, Intact, Intact',
         CamThread \/ SignalHandler \/ ServerCancelled
  PROVE  [Feed!Next]_(Feed!vars)
  <1> DEFINE quiet == UNCHANGED <<in, clientVars>>
  <1>1. ASSUME quiet PROVE [Feed!Next]_(Feed!vars)
    BY <1>1 DEF clientVars, Feed!vars, FeedPhase, FeedGot
  <1>2. CASE CamCopies
    <2>1. in'.body > in.body
      BY <1>2 DEF CamCopies, CamStep, FInv, IInv, TypeOK, OrderInv, Picture
    <2>2. Feed!Publish
      BY <1>2, <2>1 DEF CamCopies, clientVars, Feed!Publish, FeedPhase, FeedGot
    <2> QED
      BY <2>2 DEF Feed!Next
  <1>3. CASE CamStamps
    <2>1. in'.body = in.body
      BY <1>3 DEF CamStamps, FInv, IInv, TypeOK, Picture
    <2> QED
      BY <1>3, <2>1 DEF CamStamps, clientVars, Feed!vars, FeedPhase, FeedGot
  <1>4. CASE SignalHandler \/ ServerCancelled
    BY <1>1, <1>4 DEF SignalHandler, Signalled, InputStop, OutputStop, DestroyDb,
       ClosePlugins, Exit, ServerCancelled
  <1>5. CASE CamThread /\ ~CamCopies /\ ~CamStamps
    BY <1>1, <1>5 DEF CamThread, CamPolls, CamGrabs, CamGrabFails, CamLocks,
       CamBroadcasts, CamUnlocks, CamCancelled, CamCleansUp
  <1> QED
    BY <1>2, <1>3, <1>4, <1>5

\* Ending a connection ends its question, whatever had become of it.
LEMMA HangupImplements ==
  ASSUME FInv, Intact, Intact', NEW c \in Clients, Hangup(c), UNCHANGED in
  PROVE  Feed!Next
  <1> USE DEF Hangup
  <1>1. FeedPhase' = [FeedPhase EXCEPT ![c] = "idle"]
    BY DEF FInv, IInv, TypeOK, FeedPhase
  <1>2. FeedGot' = [FeedGot EXCEPT ![c] = Feed!Copy(0)]
    BY DEF FInv, IInv, TypeOK, FeedGot, Feed!Copy, Empty, WholePicture, NoFrame
  <1>3. Feed!Leave(c)
    BY <1>1, <1>2 DEF Feed!Leave, NoFrame
  <1> QED
    BY <1>3 DEF Feed!Next

\* A step of a connection.
LEMMA ClientImplements ==
  ASSUME FInv, Intact, Intact', NEW c \in Clients, Accept(c) \/ ClientThread(c)
  PROVE  [Feed!Next]_(Feed!vars)
  <1> pc \in [Clients -> {"none", "request", "loop", "lock", "wait", "header",
                         "body", "unlock", "write"}]
      /\ out \in [Clients -> Picture] /\ asked \in [Clients -> Nat] /\ in \in Picture
    BY DEF FInv, IInv, TypeOK
  <1>1. CASE Hangup(c) /\ UNCHANGED in
    BY <1>1, HangupImplements
  <1>2. CASE Accept(c) \/ (Dispatch(c) /\ ~Hangup(c)) \/ (StreamLoop(c) /\ ~Hangup(c))
    <2>1. FeedPhase' = FeedPhase /\ FeedGot' = FeedGot
      BY <1>2 DEF Accept, Dispatch, StreamLoop, FeedPhase, FeedGot
    <2> QED
      BY <1>2, <2>1 DEF Accept, Dispatch, StreamLoop, Feed!vars
  <1>3. CASE ClientWaits(c)
    <2>1. pc' = [pc EXCEPT ![c] = "wait"] /\ pc[c] = "lock"
      BY <1>3 DEF ClientWaits, Destroyed, Intact
    <2>2. /\ FeedPhase' = [FeedPhase EXCEPT ![c] = "waiting"]
          /\ FeedPhase[c] = "idle" /\ FeedGot' = FeedGot
      BY <1>3, <2>1 DEF ClientWaits, FeedPhase, FeedGot
    <2>3. Feed!Ask(c)
      BY <1>3, <2>2 DEF ClientWaits, Feed!Ask
    <2> QED
      BY <2>3 DEF Feed!Next
  <1>4. CASE ClientWakes(c)
    <2>1. FeedPhase' = FeedPhase /\ FeedGot' = FeedGot
      BY <1>4 DEF ClientWakes, FeedPhase, FeedGot
    <2> QED
      BY <1>4, <2>1 DEF ClientWakes, Feed!vars
  <1>5. CASE ClientReadsHeader(c)
    <2>1. Whole(out[c])
      BY <1>5 DEF ClientReadsHeader, FInv, IInv, CopyInv
    <2>2. FeedPhase' = FeedPhase
      BY <1>5 DEF ClientReadsHeader, FeedPhase
    <2>3. FeedGot' = FeedGot
      BY <1>5, <2>1 DEF ClientReadsHeader, FeedGot, Whole, WholePicture, Picture
    <2> QED
      BY <1>5, <2>2, <2>3 DEF ClientReadsHeader, Feed!vars
  <1>6. CASE ClientOutOfMemory(c) \/ (ClientWrites(c) /\ Hangup(c))
    BY <1>1, <1>6 DEF ClientOutOfMemory, ClientWrites
  <1>7. CASE ClientCopies(c)
    <2>1. out' = [out EXCEPT ![c].body = in.body] /\ pc[c] = "body"
      BY <1>7 DEF ClientCopies, Intact
    <2>2. out[c].size = in.body /\ out[c].stamp = in.body
      BY <1>7, VideoPipeAssumption DEF ClientCopies, FInv, IInv, CopyInv, BufferInv,
         LockInv, Intact, Destroyed, Reading, CamWriting, Whole
    <2>3. asked[c] < in.body
      BY <2>1 DEF FInv, WakeInv
    <2>4. FeedPhase' = [FeedPhase EXCEPT ![c] = "served"] /\ FeedPhase[c] = "waiting"
      BY <1>7 DEF ClientCopies, FeedPhase
    <2>5. FeedGot' = [FeedGot EXCEPT ![c] = Feed!Copy(in.body)]
      <3>1. [out[c] EXCEPT !.body = in.body] = Feed!Copy(in.body)
        BY <2>2 DEF Feed!Copy, Picture
      <3>2. out' = [out EXCEPT ![c] = Feed!Copy(in.body)]
        BY <2>1, <3>1
      <3>3. pc' = [pc EXCEPT ![c] = "unlock"]
        BY <1>7 DEF ClientCopies
      <3> QED
        BY <3>2, <3>3 DEF FeedGot
    <2>6. Feed!Serve(c)
      BY <1>7, <2>3, <2>4, <2>5 DEF ClientCopies, Feed!Serve, Picture
    <2> QED
      BY <2>6 DEF Feed!Next
  <1>8. CASE ClientUnlocks(c)
    <2>1. FeedPhase' = FeedPhase /\ FeedGot' = FeedGot
      BY <1>8 DEF ClientUnlocks, FeedPhase, FeedGot
    <2> QED
      BY <1>8, <2>1 DEF ClientUnlocks, Feed!vars
  <1>9. CASE ClientWrites(c) /\ ~Hangup(c)
    <2>1. /\ FeedPhase' = [FeedPhase EXCEPT ![c] = "idle"] /\ FeedPhase[c] = "served"
          /\ FeedGot' = FeedGot
      BY <1>9 DEF ClientWrites, FeedPhase, FeedGot
    <2>2. Feed!Rest(c)
      BY <1>9, <2>1 DEF ClientWrites, Feed!Rest
    <2> QED
      BY <2>2 DEF Feed!Next
  <1> QED
    BY <1>1, <1>2, <1>3, <1>4, <1>5, <1>6, <1>7, <1>8, <1>9
       DEF ClientThread, Dispatch, StreamLoop

\* What the shutdown gave back it never takes again.
LEMMA ReleasedForGood ==
  ASSUME [Next]_vars
  PROVE  released \subseteq released'
  <1>1. CASE up /\ CamThread
    BY <1>1 DEF CamThread, CamPolls, CamGrabs, CamGrabFails, CamLocks, CamCopies,
       CamStamps, CamBroadcasts, CamUnlocks, CamCancelled, CamCleansUp
  <1>2. CASE up /\ (SignalHandler \/ ServerCancelled)
    BY <1>2 DEF SignalHandler, Signalled, InputStop, OutputStop, DestroyDb,
       ClosePlugins, Exit, ServerCancelled
  <1>3. ASSUME NEW c \in Clients, Accept(c) \/ ClientThread(c)
        PROVE  released \subseteq released'
    BY <1>3 DEF Accept, ClientThread, Dispatch, StreamLoop, ClientWaits, ClientWakes,
       ClientReadsHeader, ClientOutOfMemory, ClientCopies, ClientUnlocks, ClientWrites
  <1>4. CASE UNCHANGED vars
    BY <1>4 DEF vars
  <1> QED
    BY <1>1, <1>2, <1>3, <1>4 DEF Next

\* The pipe implements the frame feed, for any number of clients.
THEOREM PipeImplementsFeed == ASSUME Numbered PROVE Spec => ImplementsFeed
  <1>1. Init => Feed!Init
    BY DEF Init, Feed!Init, Feed!Copy, FeedPhase, FeedGot, Empty, WholePicture,
           NoFrame, Intact
  <1>2. FInv /\ FInv' /\ [Next]_vars => [Feed!Next]_(Feed!vars)
    <2> SUFFICES ASSUME FInv, [Next]_vars PROVE [Feed!Next]_(Feed!vars)
      OBVIOUS
    <2>1. CASE ~Intact'
      BY <2>1 DEF Feed!Next
    <2>2. CASE UNCHANGED vars
      BY <2>2 DEF vars, clientVars, Feed!vars, FeedPhase, FeedGot, Intact
    <2>3. CASE Intact' /\ Next
      <3>1. CASE Intact
        BY <2>2, <2>3, <3>1, OthersImplement, ClientImplements DEF Next
      <3>2. CASE ~Intact
        BY <2>3, <3>2, ReleasedForGood DEF Intact
      <3> QED
        BY <3>1, <3>2
    <2> QED
      BY <2>1, <2>2, <2>3
  <1> QED
    BY <1>1, <1>2, OrderInvariance, PTL DEF Spec, ImplementsFeed, Feed!Spec

=============================================================================
