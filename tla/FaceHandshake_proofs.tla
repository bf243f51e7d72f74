------------------------- MODULE FaceHandshake_proofs -------------------------
(***************************************************************************)
(* The handshake's safety for any number of buffers, any range of the      *)
(* semaphores, and processes that die in any order.  HandInv says that     *)
(* there is one token for each buffer: in a semaphore, with one of the     *)
(* processes, or not yet freed by input_run.  DetectorInv and BalanceInv   *)
(* say what the undo counters add up to, SetInv what input_init leaves of  *)
(* the semaphores, and AgeInv how old a picture that waits can be.         *)
(***************************************************************************)
EXTENDS FaceHandshake, TLAPS

FaceHas(i) == FaceWorks /\ faceBuf = i
CamHas(i) == CamWorks /\ camBuf = i
Full(i) == CamHas(i) \/ sem[i]["W"] > 0
One(b) == IF b THEN 1 ELSE 0
Tokens(i) == sem[i]["R"] + sem[i]["W"] + One(FaceHas(i)) + One(CamHas(i))
                + One(i >= released)

Trusted == CamRuns /\ ~overtaken

\* A facedetection has the camera, or may get it.
Served == face # "none" \/ loading > 0

HandInv == (Trusted /\ Served) => \A i \in Buffers : Tokens(i) <= 1

(* A process's death takes back what it did.  Of W_LOCK facedetection only   *)
(* ever freed some, so its death never adds to one.                          *)
WriteUndoDown == \A j \in Buffers : undo["detector"][j]["W"] <= 0

UndoInv ==
    /\ WriteUndoDown
    /\ face = "none" => \A j \in Buffers : undo["detector"][j]["W"] = 0
    /\ ~CamRuns => released = 0 /\ published = Nothing

(* A buffer whose locks input_init has set is empty: nobody takes its read   *)
(* lock, and who freed its write lock would take that back.                  *)
RSet(i) == (cam \in {"setW", "setR"} /\ i < camBuf) \/ cam = "fork"
WSet(i) == RSet(i) \/ (cam = "setR" /\ i = camBuf)

SetInv ==
    \A i \in Buffers :
        /\ RSet(i) => sem[i]["R"] = 0 /\ undo["detector"][i]["R"] = 0
        /\ WSet(i) => sem[i]["W"] + undo["detector"][i]["W"] = 0

(* Facedetection's counters of a buffer differ by whether it has the buffer, *)
(* and what cam_thread has, or may take, facedetection's W_LOCK counts: its  *)
(* death would leave a successor no more than there is.                      *)
DetectorInv ==
    Trusted => \A i \in Buffers :
        /\ undo["detector"][i]["R"] + undo["detector"][i]["W"] = One(FaceHas(i))
        /\ (Served /\ undo["detector"][i]["W"] = 0) => ~Full(i)

(* A buffer that is ready for cam_thread, or that it has, is marked.         *)
PictureInv ==
    Trusted =>
        /\ face = "free" => rgb[faceBuf].marked
        /\ \A i \in Buffers : sem[i]["W"] > 0 \/ CamHas(i) => rgb[i].marked
        /\ cam = "publish" => top = rgb[camBuf]
        /\ published # Nothing =>
               published.first = published.last /\ published.last.marked

(* As long as nobody died, the plugin's counters of a buffer differ by       *)
(* whether it has the buffer, and by the lock input_run freed.               *)
Balance(i) ==
    undo["streamer"][i]["R"] + undo["streamer"][i]["W"]
        = One(CamHas(i)) - One(i < released)

BalanceInv ==
    deaths = 0 => /\ Trusted /\ Served
                  /\ \A i \in Buffers : Balance(i)

IInv == /\ TypeOK /\ UndoInv /\ HandInv /\ SetInv /\ DetectorInv
        /\ BalanceInv /\ PictureInv

-----------------------------------------------------------------------------
(* What a semop that succeeds does to the semaphores.                        *)
LEMMA AddEffect ==
    ASSUME TypeOK, NEW p \in Processes, NEW i \in Buffers, NEW l \in Locks,
           NEW n \in Int, CanAdd(p, i, l, n), Add(p, i, l, n)
    PROVE  /\ sem' \in [Buffers -> [Locks -> 0 .. SemMax]]
           /\ undo' \in [Processes ->
                            [Buffers -> [Locks -> -SemMax - 1 .. SemMax]]]
           /\ sem'[i][l] = sem[i][l] + n
           /\ \A j \in Buffers, m \in Locks :
                 (j # i \/ m # l) => sem'[j][m] = sem[j][m]
           /\ \A q \in Processes, j \in Buffers, m \in Locks :
                 undo'[q][j][m] = IF q = p /\ j = i /\ m = l
                                  THEN undo[q][j][m] - n ELSE undo[q][j][m]
<1>1. /\ sem \in [Buffers -> [Locks -> 0 .. SemMax]]
      /\ undo \in [Processes -> [Buffers -> [Locks -> -SemMax - 1 .. SemMax]]]
  BY DEF TypeOK
<1>2. /\ sem' = [sem EXCEPT ![i] = [sem[i] EXCEPT ![l] = sem[i][l] + n]]
      /\ sem[i][l] + n \in 0 .. SemMax
  BY <1>1 DEF Add, CanAdd
<1>3. /\ undo' = [undo EXCEPT ![p] = [undo[p] EXCEPT ![i] =
                    [undo[p][i] EXCEPT ![l] = undo[p][i][l] - n]]]
      /\ undo[p][i][l] - n \in -SemMax - 1 .. SemMax
  BY <1>1 DEF Add, CanAdd
<1>4. [sem[i] EXCEPT ![l] = sem[i][l] + n] \in [Locks -> 0 .. SemMax]
  BY <1>1, <1>2
<1>5. sem' \in [Buffers -> [Locks -> 0 .. SemMax]]
  BY <1>1, <1>2, <1>4
<1>6. [undo[p][i] EXCEPT ![l] = undo[p][i][l] - n]
         \in [Locks -> -SemMax - 1 .. SemMax]
  BY <1>1, <1>3
<1>7. [undo[p] EXCEPT ![i] = [undo[p][i] EXCEPT ![l] = undo[p][i][l] - n]]
         \in [Buffers -> [Locks -> -SemMax - 1 .. SemMax]]
  BY <1>1, <1>6
<1>8. undo' \in [Processes -> [Buffers -> [Locks -> -SemMax - 1 .. SemMax]]]
  BY <1>1, <1>3, <1>7
<1>9. sem'[i][l] = sem[i][l] + n
  BY <1>1, <1>2
<1>10. ASSUME NEW j \in Buffers, NEW m \in Locks, j # i \/ m # l
       PROVE  sem'[j][m] = sem[j][m]
  BY <1>1, <1>2, <1>10
<1>11. ASSUME NEW q \in Processes, NEW j \in Buffers, NEW m \in Locks
       PROVE  undo'[q][j][m] = IF q = p /\ j = i /\ m = l
                               THEN undo[q][j][m] - n ELSE undo[q][j][m]
  BY <1>1, <1>3
<1> QED
  BY <1>5, <1>8, <1>9, <1>10, <1>11

(* getsem, when it succeeds.                                                 *)
LEMMA TakeEffect ==
    ASSUME TypeOK, NEW p \in Processes, NEW i \in Buffers, NEW l \in Locks,
           CanAdd(p, i, l, -1), Add(p, i, l, -1)
    PROVE  /\ sem' \in [Buffers -> [Locks -> 0 .. SemMax]]
           /\ undo' \in [Processes ->
                            [Buffers -> [Locks -> -SemMax - 1 .. SemMax]]]
           /\ sem'[i][l] = sem[i][l] - 1
           /\ \A j \in Buffers, m \in Locks :
                 (j # i \/ m # l) => sem'[j][m] = sem[j][m]
           /\ undo'[p][i][l] = undo[p][i][l] + 1
           /\ \A q \in Processes, j \in Buffers, m \in Locks :
                 (q # p \/ j # i \/ m # l) =>
                     undo'[q][j][m] = undo[q][j][m]
<1> DEFINE n == -1
<1>1. n \in Int /\ CanAdd(p, i, l, n) /\ Add(p, i, l, n)
  OBVIOUS
<1> HIDE DEF n
<1>2. /\ sem' \in [Buffers -> [Locks -> 0 .. SemMax]]
      /\ undo' \in [Processes ->
                       [Buffers -> [Locks -> -SemMax - 1 .. SemMax]]]
      /\ sem'[i][l] = sem[i][l] + n
      /\ \A j \in Buffers, m \in Locks :
            (j # i \/ m # l) => sem'[j][m] = sem[j][m]
  BY <1>1, AddEffect
<1>3. sem[i][l] \in Int /\ undo[p][i][l] \in Int
  BY FaceHandshakeAssumption DEF TypeOK
<1>4. \A q \in Processes, j \in Buffers, m \in Locks :
         undo'[q][j][m] = IF q = p /\ j = i /\ m = l
                          THEN undo[q][j][m] - n ELSE undo[q][j][m]
  BY <1>1, AddEffect
<1>5. undo'[p][i][l] = undo[p][i][l] - n
  BY <1>4
<1>6. \A q \in Processes, j \in Buffers, m \in Locks :
         (q # p \/ j # i \/ m # l) => undo'[q][j][m] = undo[q][j][m]
  BY <1>4
<1> QED
  BY <1>2, <1>3, <1>5, <1>6 DEF n

(* The same of freesem.                                                      *)
LEMMA FreeEffect ==
    ASSUME TypeOK, NEW p \in Processes, NEW i \in Buffers, NEW l \in Locks,
           CanAdd(p, i, l, 1), Add(p, i, l, 1)
    PROVE  /\ sem' \in [Buffers -> [Locks -> 0 .. SemMax]]
           /\ undo' \in [Processes ->
                            [Buffers -> [Locks -> -SemMax - 1 .. SemMax]]]
           /\ sem'[i][l] = sem[i][l] + 1
           /\ \A j \in Buffers, m \in Locks :
                 (j # i \/ m # l) => sem'[j][m] = sem[j][m]
           /\ undo'[p][i][l] = undo[p][i][l] - 1
           /\ \A q \in Processes, j \in Buffers, m \in Locks :
                 (q # p \/ j # i \/ m # l) =>
                     undo'[q][j][m] = undo[q][j][m]
<1> DEFINE n == 1
<1>1. n \in Int /\ CanAdd(p, i, l, n) /\ Add(p, i, l, n)
  OBVIOUS
<1> HIDE DEF n
<1>2. /\ sem' \in [Buffers -> [Locks -> 0 .. SemMax]]
      /\ undo' \in [Processes ->
                       [Buffers -> [Locks -> -SemMax - 1 .. SemMax]]]
      /\ sem'[i][l] = sem[i][l] + n
      /\ \A j \in Buffers, m \in Locks :
            (j # i \/ m # l) => sem'[j][m] = sem[j][m]
  BY <1>1, AddEffect
<1>3. sem[i][l] \in Int /\ undo[p][i][l] \in Int
  BY FaceHandshakeAssumption DEF TypeOK
<1>4. \A q \in Processes, j \in Buffers, m \in Locks :
         undo'[q][j][m] = IF q = p /\ j = i /\ m = l
                          THEN undo[q][j][m] - n ELSE undo[q][j][m]
  BY <1>1, AddEffect
<1>5. undo'[p][i][l] = undo[p][i][l] - n
  BY <1>4
<1>6. \A q \in Processes, j \in Buffers, m \in Locks :
         (q # p \/ j # i \/ m # l) => undo'[q][j][m] = undo[q][j][m]
  BY <1>4
<1> QED
  BY <1>2, <1>3, <1>5, <1>6 DEF n

(* What a process's death does to them.                                      *)
LEMMA UndoneEffect ==
    ASSUME TypeOK, NEW p \in Processes, Undone(p)
    PROVE  /\ sem' \in [Buffers -> [Locks -> 0 .. SemMax]]
           /\ undo' \in [Processes ->
                            [Buffers -> [Locks -> -SemMax - 1 .. SemMax]]]
           /\ \A j \in Buffers, m \in Locks :
                 /\ sem'[j][m] = Clamp(sem[j][m] + undo[p][j][m])
                 /\ undo[p][j][m] <= 0 => sem'[j][m] <= sem[j][m]
           /\ \A q \in Processes, j \in Buffers, m \in Locks :
                 undo'[q][j][m] = IF q = p THEN 0 ELSE undo[q][j][m]
<1> USE FaceHandshakeAssumption
<1>1. /\ sem \in [Buffers -> [Locks -> 0 .. SemMax]]
      /\ undo \in [Processes -> [Buffers -> [Locks -> -SemMax - 1 .. SemMax]]]
  BY DEF TypeOK
<1>2. ASSUME NEW j \in Buffers, NEW m \in Locks
      PROVE  /\ Clamp(sem[j][m] + undo[p][j][m]) \in 0 .. SemMax
             /\ undo[p][j][m] <= 0 =>
                   Clamp(sem[j][m] + undo[p][j][m]) <= sem[j][m]
  BY <1>1 DEF Clamp
<1>3. sem' = [j \in Buffers |-> [m \in Locks |->
                 Clamp(sem[j][m] + undo[p][j][m])]]
  BY DEF Undone
<1>4. undo' = [undo EXCEPT ![p] = [j \in Buffers |-> [m \in Locks |-> 0]]]
  BY DEF Undone
<1>5. sem' \in [Buffers -> [Locks -> 0 .. SemMax]]
  BY <1>2, <1>3
<1>6. ASSUME NEW j \in Buffers, NEW m \in Locks
      PROVE  /\ sem'[j][m] = Clamp(sem[j][m] + undo[p][j][m])
             /\ undo[p][j][m] <= 0 => sem'[j][m] <= sem[j][m]
  BY <1>2, <1>3
<1>7. [j \in Buffers |-> [m \in Locks |-> 0]]
         \in [Buffers -> [Locks -> -SemMax - 1 .. SemMax]]
  OBVIOUS
<1>8. undo' \in [Processes -> [Buffers -> [Locks -> -SemMax - 1 .. SemMax]]]
  BY <1>1, <1>4, <1>7
<1>9. ASSUME NEW q \in Processes, NEW j \in Buffers, NEW m \in Locks
      PROVE  undo'[q][j][m] = IF q = p THEN 0 ELSE undo[q][j][m]
  BY <1>1, <1>4
<1> QED
  BY <1>5, <1>6, <1>8, <1>9

(* And SETVAL to 0.                                                          *)
LEMMA SetEffect ==
    ASSUME TypeOK, NEW i \in Buffers, NEW l \in Locks, SetVal(i, l)
    PROVE  /\ sem' \in [Buffers -> [Locks -> 0 .. SemMax]]
           /\ undo' \in [Processes ->
                            [Buffers -> [Locks -> -SemMax - 1 .. SemMax]]]
           /\ \A j \in Buffers, m \in Locks :
                 sem'[j][m] = IF j = i /\ m = l THEN 0 ELSE sem[j][m]
           /\ \A q \in Processes, j \in Buffers, m \in Locks :
                 undo'[q][j][m] = IF j = i /\ m = l THEN 0 ELSE undo[q][j][m]
<1> USE FaceHandshakeAssumption
<1>1. /\ sem \in [Buffers -> [Locks -> 0 .. SemMax]]
      /\ undo \in [Processes -> [Buffers -> [Locks -> -SemMax - 1 .. SemMax]]]
  BY DEF TypeOK
<1>2. sem' = [sem EXCEPT ![i] = [sem[i] EXCEPT ![l] = 0]]
  BY <1>1 DEF SetVal
<1>3. undo' = [p \in Processes |->
                  [undo[p] EXCEPT ![i] = [undo[p][i] EXCEPT ![l] = 0]]]
  BY <1>1 DEF SetVal
<1>4. [sem[i] EXCEPT ![l] = 0] \in [Locks -> 0 .. SemMax]
  BY <1>1
<1>5. sem' \in [Buffers -> [Locks -> 0 .. SemMax]]
  BY <1>1, <1>2, <1>4
<1>6. ASSUME NEW p \in Processes
      PROVE  [undo[p] EXCEPT ![i] = [undo[p][i] EXCEPT ![l] = 0]]
                \in [Buffers -> [Locks -> -SemMax - 1 .. SemMax]]
  <2>1. [undo[p][i] EXCEPT ![l] = 0] \in [Locks -> -SemMax - 1 .. SemMax]
    BY <1>1
  <2> QED
    BY <1>1, <2>1
<1>7. undo' \in [Processes -> [Buffers -> [Locks -> -SemMax - 1 .. SemMax]]]
  BY <1>3, <1>6
<1>8. ASSUME NEW j \in Buffers, NEW m \in Locks
      PROVE  sem'[j][m] = IF j = i /\ m = l THEN 0 ELSE sem[j][m]
  BY <1>1, <1>2
<1>9. ASSUME NEW q \in Processes, NEW j \in Buffers, NEW m \in Locks
      PROVE  undo'[q][j][m] = IF j = i /\ m = l THEN 0 ELSE undo[q][j][m]
  BY <1>1, <1>3
<1> QED
  BY <1>5, <1>7, <1>8, <1>9

(* Going round the buffers stays within them.                                *)
LEMMA AfterInBuffers == ASSUME NEW i \in Buffers PROVE After(i) \in Buffers
BY FaceHandshakeAssumption DEF After, Buffers

-----------------------------------------------------------------------------
(* Nothing is done yet.                                                      *)
LEMMA InitInv == Init => IInv
<1> SUFFICES ASSUME Init
             PROVE  IInv
  OBVIOUS
<1> USE FaceHandshakeAssumption
<1>1. TypeOK
  <2>1. /\ sem \in [Buffers -> [Locks -> 0 .. SemMax]]
        /\ undo \in [Processes -> [Buffers -> [Locks -> -SemMax - 1 .. SemMax]]]
    BY DEF Init
  <2>2. rgb \in [Buffers -> Picture] /\ 0 \in Buffers
    BY DEF Init, Picture, NoPicture, Buffers
  <2>3. top \in Picture /\ published \in [first : Picture, last : Picture]
    BY DEF Init, Picture, NoPicture, Nothing
  <2>4. /\ faceBuf \in Buffers /\ camBuf \in Buffers
        /\ released \in 0 .. NBuffers /\ taken \in Nat /\ deaths \in Nat
        /\ loading \in Nat
    BY <2>2 DEF Init
  <2>5. /\ face \in {"none", "scan", "grab", "convert", "mark", "free"}
        /\ cam \in {"scan", "compress", "publish", "free", "down", "setW",
                    "setR", "fork"}
        /\ overtaken \in BOOLEAN
    BY DEF Init
  <2> QED
    BY <2>1, <2>2, <2>3, <2>4, <2>5 DEF TypeOK
<1>2. UndoInv
  BY DEF Init, UndoInv, WriteUndoDown, Processes, Locks, CamRuns
<1>3. HandInv
  <2>1. ASSUME NEW i \in Buffers
        PROVE  Tokens(i) <= 1
    <3>1. sem[i]["R"] = 0 /\ sem[i]["W"] = 0
      BY DEF Init, Locks
    <3>2. One(FaceHas(i)) = 0 /\ One(CamHas(i)) = 0
      BY DEF Init, FaceHas, CamHas, FaceWorks, CamWorks, One
    <3>3. One(i >= released) \in {0, 1}
      BY DEF One
    <3> QED
      BY <3>1, <3>2, <3>3 DEF Tokens
  <2> QED
    BY <2>1 DEF HandInv
<1>4. PictureInv
  BY DEF Init, PictureInv, CamHas, CamWorks, Locks
<1>5. SetInv
  BY DEF Init, SetInv, RSet, WSet
<1>6. DetectorInv
  BY DEF Init, DetectorInv, FaceHas, CamHas, Full, FaceWorks, CamWorks, One,
     Processes, Locks
<1>7. BalanceInv
  <2>1. Trusted /\ Served
    BY DEF Init, Trusted, CamRuns, Served
  <2>2. ASSUME NEW i \in Buffers
        PROVE  Balance(i)
    <3>1. undo["streamer"][i]["R"] = 0 /\ undo["streamer"][i]["W"] = 0
      BY DEF Init, Processes, Locks
    <3>2. One(CamHas(i)) = 0 /\ One(i < released) = 0
      BY DEF Init, CamHas, CamWorks, One, Buffers
    <3> QED
      BY <3>1, <3>2 DEF Balance
  <2> QED
    BY <2>1, <2>2 DEF BalanceInv
<1> QED
  BY <1>1, <1>2, <1>3, <1>4, <1>5, <1>6, <1>7 DEF IInv

(* Each step keeps the types: semop's range checks are what bounds the       *)
(* semaphores and the undo counters.                                         *)
LEMMA TypeStep == TypeOK /\ [Next]_vars => TypeOK'
<1> SUFFICES ASSUME TypeOK, [Next]_vars
             PROVE  TypeOK'
  OBVIOUS
<1> DEFINE SemType ==
      /\ sem \in [Buffers -> [Locks -> 0 .. SemMax]]
      /\ undo \in [Processes -> [Buffers -> [Locks -> -SemMax - 1 .. SemMax]]]
<1>0. /\ "R" \in Locks /\ "W" \in Locks
      /\ "streamer" \in Processes /\ "detector" \in Processes
  BY DEF Locks, Processes
<1>1. CASE UNCHANGED vars
  BY <1>1 DEF vars, semaphores, streamer, detector, TypeOK
<1>2. CASE FaceScans
  <2>1. SemType'
    BY <1>0, <1>2, TakeEffect DEF FaceScans, semaphores, TypeOK
  <2>2. faceBuf' \in Buffers
    BY <1>2, AfterInBuffers DEF FaceScans, TypeOK
  <2> QED
    BY <1>2, <2>1, <2>2 DEF FaceScans, streamer, TypeOK
<1>3. CASE FaceGrabs
  BY <1>3 DEF FaceGrabs, semaphores, streamer, TypeOK
<1>4. CASE FaceConverts
  <2>1. rgb' \in [Buffers -> Picture]
    BY <1>4 DEF FaceConverts, TypeOK, Picture
  <2> QED
    BY <1>4, <2>1 DEF FaceConverts, semaphores, streamer, TypeOK
<1>5. CASE FaceMarks
  <2>1. rgb' \in [Buffers -> Picture]
    BY <1>5 DEF FaceMarks, TypeOK, Picture
  <2> QED
    BY <1>5, <2>1 DEF FaceMarks, semaphores, streamer, TypeOK
<1>6. CASE FaceFrees
  <2>1. SemType'
    BY <1>0, <1>6, FreeEffect DEF FaceFrees, TypeOK
  <2>2. faceBuf' \in Buffers
    BY <1>6, AfterInBuffers DEF FaceFrees, TypeOK
  <2> QED
    BY <1>6, <2>1, <2>2 DEF FaceFrees, streamer, TypeOK
<1>7. CASE FaceDies
  <2>1. SemType'
    BY <1>0, <1>7, UndoneEffect DEF FaceDies
  <2> QED
    BY <1>7, <2>1 DEF FaceDies, streamer, TypeOK
<1>8. CASE RunReleases
  <2>1. released' \in 0 .. NBuffers /\ released \in Buffers
    BY <1>8, FaceHandshakeAssumption DEF RunReleases, TypeOK, Buffers
  <2>2. SemType'
    BY <1>0, <1>8, <2>1, FreeEffect DEF RunReleases, semaphores, TypeOK
  <2> QED
    BY <1>8, <2>1, <2>2 DEF RunReleases, detector, TypeOK
<1>9. CASE CamScans
  <2>1. SemType'
    BY <1>0, <1>9, TakeEffect DEF CamScans, semaphores, TypeOK
  <2>2. camBuf' \in Buffers
    BY <1>9, AfterInBuffers DEF CamScans, TypeOK
  <2> QED
    BY <1>9, <2>1, <2>2 DEF CamScans, detector, TypeOK
<1>10. CASE CamCompresses
  BY <1>10 DEF CamCompresses, semaphores, detector, TypeOK
<1>11. CASE CamPublishes
  BY <1>11 DEF CamPublishes, semaphores, detector, TypeOK
<1>12. CASE CamFrees
  <2>1. SemType'
    BY <1>0, <1>12, FreeEffect DEF CamFrees, TypeOK
  <2>2. camBuf' \in Buffers
    BY <1>12, AfterInBuffers DEF CamFrees, TypeOK
  <2> QED
    BY <1>12, <2>1, <2>2 DEF CamFrees, detector, TypeOK
<1>13. CASE StreamerDies
  <2>1. SemType'
    BY <1>0, <1>13, UndoneEffect DEF StreamerDies
  <2>2. /\ released' \in 0 .. NBuffers
        /\ top' \in Picture /\ published' \in [first : Picture, last : Picture]
    BY <1>13, FaceHandshakeAssumption
       DEF StreamerDies, Picture, NoPicture, Nothing
  <2> QED
    BY <1>13, <2>1, <2>2 DEF StreamerDies, detector, TypeOK
<1>14. CASE StreamerStarts
  <2>1. 0 \in Buffers
    BY FaceHandshakeAssumption DEF Buffers
  <2> QED
    BY <1>14, <2>1 DEF StreamerStarts, semaphores, detector, TypeOK
<1>15. CASE SetsLock
  <2>1. SemType'
    BY <1>0, <1>15, SetEffect DEF SetsLock, TypeOK
  <2>2. camBuf' \in Buffers
    BY <1>15, FaceHandshakeAssumption DEF SetsLock, TypeOK, Buffers
  <2> QED
    BY <1>15, <2>1, <2>2 DEF SetsLock, detector, TypeOK
<1>16. CASE Forks
  <2>1. overtaken' \in BOOLEAN
    BY <1>16 DEF Forks, FaceWorks
  <2> QED
    BY <1>16, <2>1 DEF Forks, semaphores, TypeOK
<1>17. CASE FaceOpens
  <2>1. 0 \in Buffers
    BY FaceHandshakeAssumption DEF Buffers
  <2>2. /\ face' \in {"none", "scan", "grab", "convert", "mark", "free"}
        /\ faceBuf' \in Buffers /\ taken' \in Nat /\ loading' \in Nat
    BY <1>17, <2>1, FaceHandshakeAssumption DEF FaceOpens, TypeOK
  <2> QED
    BY <1>17, <2>2 DEF FaceOpens, semaphores, streamer, TypeOK
<1>18. CASE LoadFails
  BY <1>18 DEF LoadFails, semaphores, streamer, TypeOK
<1> QED
  BY <1>1, <1>2, <1>3, <1>4, <1>5, <1>6, <1>7, <1>8, <1>9, <1>10, <1>11,
     <1>12, <1>13, <1>14, <1>15, <1>16, <1>17, <1>18
     DEF Next, Facedetection, CamThread

(* The plugin's steps leave facedetection's undo counters alone.             *)
LEMMA StreamerKeepsUndo ==
    ASSUME TypeOK, RunReleases \/ CamThread \/ StreamerDies,
           NEW i \in Buffers, NEW l \in Locks
    PROVE  undo'["detector"][i][l] = undo["detector"][i][l]
<1>0. /\ "R" \in Locks /\ "W" \in Locks /\ camBuf \in Buffers
      /\ "streamer" \in Processes /\ "detector" \in Processes
      /\ "streamer" # "detector"
  BY DEF Locks, Processes, TypeOK
<1>1. CASE RunReleases
  <2>1. released \in Buffers
    BY <1>1, FaceHandshakeAssumption DEF RunReleases, TypeOK, Buffers
  <2>2. CASE CanAdd("streamer", released, "R", 1)
    <3>1. Add("streamer", released, "R", 1)
      BY <1>1, <2>2 DEF RunReleases
    <3>2. \A q \in Processes, j \in Buffers, m \in Locks :
             (q # "streamer" \/ j # released \/ m # "R") =>
                 undo'[q][j][m] = undo[q][j][m]
      BY <1>0, <2>1, <2>2, <3>1, FreeEffect
    <3> QED
      BY <1>0, <3>2
  <2>3. CASE ~CanAdd("streamer", released, "R", 1)
    BY <1>1, <2>3 DEF RunReleases, semaphores
  <2> QED
    BY <2>2, <2>3
<1>2. CASE CamScans
  <2>1. CASE CanAdd("streamer", camBuf, "W", -1)
    <3>1. Add("streamer", camBuf, "W", -1)
      BY <1>2, <2>1 DEF CamScans
    <3>2. \A q \in Processes, j \in Buffers, m \in Locks :
             (q # "streamer" \/ j # camBuf \/ m # "W") =>
                 undo'[q][j][m] = undo[q][j][m]
      BY <1>0, <2>1, <3>1, TakeEffect
    <3> QED
      BY <1>0, <3>2
  <2>2. CASE ~CanAdd("streamer", camBuf, "W", -1)
    BY <1>2, <2>2 DEF CamScans, semaphores
  <2> QED
    BY <2>1, <2>2
<1>3. CASE CamFrees
  <2>1. CanAdd("streamer", camBuf, "R", 1) /\ Add("streamer", camBuf, "R", 1)
    BY <1>3 DEF CamFrees
  <2>2. \A q \in Processes, j \in Buffers, m \in Locks :
           (q # "streamer" \/ j # camBuf \/ m # "R") =>
               undo'[q][j][m] = undo[q][j][m]
    BY <1>0, <2>1, FreeEffect
  <2> QED
    BY <1>0, <2>2
<1>4. CASE CamCompresses \/ CamPublishes
  BY <1>4 DEF CamCompresses, CamPublishes, semaphores
<1>5. CASE StreamerDies
  <2>1. \A q \in Processes, j \in Buffers, m \in Locks :
           undo'[q][j][m] = IF q = "streamer" THEN 0 ELSE undo[q][j][m]
    BY <1>0, <1>5, UndoneEffect DEF StreamerDies
  <2> QED
    BY <1>0, <2>1
<1> QED
  BY <1>1, <1>2, <1>3, <1>4, <1>5 DEF CamThread

(* Facedetection's getsem, when it succeeds, ...                             *)
LEMMA FaceTakesLock ==
    ASSUME TypeOK, FaceScans, CanAdd("detector", faceBuf, "R", -1)
    PROVE  /\ face = "scan" /\ face' = "grab" /\ faceBuf' = faceBuf
           /\ sem[faceBuf]["R"] > 0
           /\ sem'[faceBuf]["R"] = sem[faceBuf]["R"] - 1
           /\ undo'["detector"][faceBuf]["R"]
                  = undo["detector"][faceBuf]["R"] + 1
           /\ \A i \in Buffers :
                 /\ sem'[i]["W"] = sem[i]["W"]
                 /\ undo'["detector"][i]["W"] = undo["detector"][i]["W"]
                 /\ i # faceBuf =>
                       /\ sem'[i]["R"] = sem[i]["R"]
                       /\ undo'["detector"][i]["R"] = undo["detector"][i]["R"]
<1>0. /\ "R" \in Locks /\ "W" \in Locks /\ "R" # "W" /\ faceBuf \in Buffers
      /\ "detector" \in Processes
  BY DEF Locks, Processes, TypeOK
<1>1. /\ Add("detector", faceBuf, "R", -1)
      /\ face = "scan" /\ face' = "grab" /\ faceBuf' = faceBuf
  BY DEF FaceScans
<1>2. /\ sem'[faceBuf]["R"] = sem[faceBuf]["R"] - 1
      /\ \A j \in Buffers, m \in Locks :
            (j # faceBuf \/ m # "R") => sem'[j][m] = sem[j][m]
      /\ undo'["detector"][faceBuf]["R"] = undo["detector"][faceBuf]["R"] + 1
      /\ \A q \in Processes, j \in Buffers, m \in Locks :
            (q # "detector" \/ j # faceBuf \/ m # "R") =>
                undo'[q][j][m] = undo[q][j][m]
  BY <1>0, <1>1, TakeEffect
<1>3. sem[faceBuf]["R"] > 0
  <2>1. sem[faceBuf]["R"] \in Nat /\ sem[faceBuf]["R"] - 1 >= 0
    BY <1>0, FaceHandshakeAssumption DEF TypeOK, CanAdd
  <2> QED
    BY <2>1
<1> QED
  BY <1>0, <1>1, <1>2, <1>3

(* ... and its freesem.                                                      *)
LEMMA FaceFreesLock ==
    ASSUME TypeOK, FaceFrees
    PROVE  /\ face = "free" /\ face' = "scan"
           /\ sem'[faceBuf]["W"] = sem[faceBuf]["W"] + 1
           /\ undo'["detector"][faceBuf]["W"]
                  = undo["detector"][faceBuf]["W"] - 1
           /\ \A i \in Buffers :
                 /\ sem'[i]["R"] = sem[i]["R"]
                 /\ undo'["detector"][i]["R"] = undo["detector"][i]["R"]
                 /\ undo'["streamer"][i]["W"] = undo["streamer"][i]["W"]
                 /\ i # faceBuf =>
                       /\ sem'[i]["W"] = sem[i]["W"]
                       /\ undo'["detector"][i]["W"] = undo["detector"][i]["W"]
<1>0. /\ "R" \in Locks /\ "W" \in Locks /\ "R" # "W" /\ faceBuf \in Buffers
      /\ "detector" \in Processes /\ "streamer" \in Processes
      /\ "streamer" # "detector"
  BY DEF Locks, Processes, TypeOK
<1>1. /\ CanAdd("detector", faceBuf, "W", 1) /\ Add("detector", faceBuf, "W", 1)
      /\ face = "free" /\ face' = "scan"
  BY DEF FaceFrees
<1>2. /\ sem'[faceBuf]["W"] = sem[faceBuf]["W"] + 1
      /\ \A j \in Buffers, m \in Locks :
            (j # faceBuf \/ m # "W") => sem'[j][m] = sem[j][m]
      /\ undo'["detector"][faceBuf]["W"] = undo["detector"][faceBuf]["W"] - 1
      /\ \A q \in Processes, j \in Buffers, m \in Locks :
            (q # "detector" \/ j # faceBuf \/ m # "W") =>
                undo'[q][j][m] = undo[q][j][m]
  BY <1>0, <1>1, FreeEffect
<1> QED
  BY <1>0, <1>1, <1>2

(* facedetection only ever frees write locks, and takes read locks.          *)
LEMMA UndoStep == TypeOK /\ UndoInv /\ [Next]_vars => UndoInv'
<1> SUFFICES ASSUME TypeOK, UndoInv, [Next]_vars
             PROVE  UndoInv'
  OBVIOUS
<1>0. /\ "R" \in Locks /\ "W" \in Locks /\ "R" # "W"
      /\ "streamer" \in Processes /\ "detector" \in Processes
      /\ "streamer" # "detector" /\ faceBuf \in Buffers /\ camBuf \in Buffers
      /\ \A i \in Buffers : undo["detector"][i]["W"] \in Int
  BY DEF Locks, Processes, TypeOK
<1>1. /\ WriteUndoDown
      /\ face = "none" => \A j \in Buffers : undo["detector"][j]["W"] = 0
      /\ ~CamRuns => released = 0 /\ published = Nothing
  BY DEF UndoInv
<1>2. ~CamRuns' => released' = 0 /\ published' = Nothing
  BY <1>1 DEF Next, vars, semaphores, streamer, detector, Facedetection,
     CamThread, FaceScans, FaceGrabs, FaceConverts, FaceMarks, FaceFrees,
     FaceDies, FaceOpens, LoadFails, RunReleases, CamScans, CamCompresses,
     CamPublishes, CamFrees, StreamerDies, StreamerStarts, SetsLock, Forks,
     CamRuns, CamWorks
<1> DEFINE Kept == \A j \in Buffers :
                      undo'["detector"][j]["W"] = undo["detector"][j]["W"]
<1>3. ASSUME Kept, face' = "none" => face = "none"
      PROVE  UndoInv'
  BY <1>1, <1>2, <1>3 DEF UndoInv, WriteUndoDown
<1>4. CASE UNCHANGED undo /\ (face' = "none" => face = "none")
  BY <1>3, <1>4
<1>5. CASE FaceScans
  <2>1. Kept
    <3>1. CASE CanAdd("detector", faceBuf, "R", -1)
      BY <1>5, <3>1, FaceTakesLock
    <3>2. CASE ~CanAdd("detector", faceBuf, "R", -1)
      BY <1>5, <3>2 DEF FaceScans, semaphores
    <3> QED
      BY <3>1, <3>2
  <2>2. face' # "none"
    BY <1>5 DEF FaceScans
  <2> QED
    BY <1>3, <2>1, <2>2
<1>6. CASE FaceFrees
  <2>1. /\ face' = "scan"
        /\ undo'["detector"][faceBuf]["W"] = undo["detector"][faceBuf]["W"] - 1
        /\ \A j \in Buffers :
              j # faceBuf =>
                  undo'["detector"][j]["W"] = undo["detector"][j]["W"]
    BY <1>6, FaceFreesLock
  <2>2. ASSUME NEW j \in Buffers
        PROVE  undo'["detector"][j]["W"] <= 0
    BY <1>0, <1>1, <2>1 DEF WriteUndoDown
  <2> QED
    BY <1>2, <2>1, <2>2 DEF UndoInv, WriteUndoDown
<1>7. CASE FaceDies
  <2>1. \A j \in Buffers : undo'["detector"][j]["W"] = 0
    BY <1>0, <1>7, UndoneEffect DEF FaceDies
  <2> QED
    BY <1>2, <2>1 DEF UndoInv, WriteUndoDown
<1>8. CASE RunReleases \/ CamThread \/ StreamerDies
  <2>1. Kept
    BY <1>0, <1>8, StreamerKeepsUndo
  <2>2. face' = face
    BY <1>8 DEF RunReleases, CamThread, CamScans, CamCompresses, CamPublishes,
       CamFrees, StreamerDies, detector
  <2> QED
    BY <1>3, <2>1, <2>2
<1>9. CASE SetsLock
  <2>1. ASSUME NEW j \in Buffers
        PROVE  undo'["detector"][j]["W"] \in {0, undo["detector"][j]["W"]}
    BY <1>0, <1>9, SetEffect DEF SetsLock
  <2>2. face' = face
    BY <1>9 DEF SetsLock, detector
  <2> QED
    BY <1>1, <1>2, <2>1, <2>2 DEF UndoInv, WriteUndoDown
<1> QED
  BY <1>4, <1>5, <1>6, <1>7, <1>8, <1>9
     DEF Next, Facedetection, vars, semaphores, detector, FaceGrabs,
         FaceConverts, FaceMarks, FaceOpens, LoadFails, StreamerStarts, Forks

(* A facedetection that dies before it has freed a write lock gives back the *)
(* read lock it has, to the one that is loading.                             *)
LEMMA DeathKeeps ==
    ASSUME TypeOK, DetectorInv, HandInv, Trusted, FaceDies, Trusted', Served',
           NEW i \in Buffers
    PROVE  /\ undo["detector"][i]["W"] = 0 /\ ~Full(i)
           /\ sem'[i]["R"] = sem[i]["R"] + One(FaceHas(i))
           /\ sem'[i]["W"] = sem[i]["W"]
<1> DEFINE r == sem[i]["R"]
           w == sem[i]["W"]
           a == undo["detector"][i]["R"]
           h == One(FaceHas(i))
<1>1. Served /\ loading > 0
  BY DEF FaceDies, Served
<1>2. undo["detector"][i]["W"] = 0
  BY <1>1 DEF FaceDies, Trusted
<1>3. ~Full(i) /\ a = h
  <2>1. /\ a + undo["detector"][i]["W"] = h
        /\ undo["detector"][i]["W"] = 0 => ~Full(i)
    BY <1>1 DEF DetectorInv
  <2>2. a \in Int
    BY FaceHandshakeAssumption DEF TypeOK, Locks, Processes
  <2> QED
    BY <1>2, <2>1, <2>2
<1>4. /\ r \in 0 .. SemMax /\ w \in 0 .. SemMax /\ h \in {0, 1}
      /\ One(CamHas(i)) \in {0, 1} /\ One(i >= released) \in {0, 1}
      /\ SemMax \in Nat \ {0}
  BY FaceHandshakeAssumption DEF TypeOK, Locks, One
<1>5. r + w + h <= 1
  <2>1. r + w + h + One(CamHas(i)) + One(i >= released) <= 1
    BY <1>1 DEF HandInv, Tokens
  <2> QED
    BY <1>4, <2>1
<1>6. sem'[i]["R"] = Clamp(r + a) /\ sem'[i]["W"] = Clamp(w + 0)
  <2>1. /\ Undone("detector") /\ "R" \in Locks /\ "W" \in Locks
        /\ "detector" \in Processes
    BY DEF FaceDies, Locks, Processes
  <2> QED
    BY <1>2, <2>1, UndoneEffect
<1> HIDE DEF r, w, a, h
<1>7. Clamp(r + a) = r + h /\ Clamp(w + 0) = w
  BY <1>3, <1>4, <1>5 DEF Clamp
<1> QED
  BY <1>2, <1>3, <1>6, <1>7 DEF r, w, h

(* Each step only moves a buffer's token, or takes it away.                  *)
LEMMA HandStep ==
    TypeOK /\ SetInv /\ DetectorInv /\ HandInv /\ [Next]_vars => HandInv'
<1> SUFFICES ASSUME TypeOK, SetInv, DetectorInv, HandInv, [Next]_vars,
                    Trusted', Served', NEW i \in Buffers
             PROVE  Tokens(i)' <= 1
  BY DEF HandInv
<1>0. /\ "R" \in Locks /\ "W" \in Locks /\ "R" # "W"
      /\ "streamer" \in Processes /\ "detector" \in Processes
      /\ faceBuf \in Buffers /\ camBuf \in Buffers /\ released \in Nat
      /\ sem[i]["R"] \in Nat /\ sem[i]["W"] \in Nat /\ i \in Nat
  BY FaceHandshakeAssumption DEF Locks, Processes, TypeOK, Buffers
<1>1. Trusted /\ Served => Tokens(i) <= 1
  BY DEF HandInv
<1> USE DEF Tokens, FaceHas, CamHas, FaceWorks, CamWorks, CamRuns, One, Trusted,
            Served
<1>2. CASE UNCHANGED <<sem, streamer, loading, face, faceBuf, overtaken>>
  BY <1>1, <1>2 DEF streamer
<1>3. CASE FaceScans
  <2>1. CASE CanAdd("detector", faceBuf, "R", -1)
    <3>1. /\ sem'[faceBuf]["R"] = sem[faceBuf]["R"] - 1
          /\ sem'[i]["W"] = sem[i]["W"]
          /\ i # faceBuf => sem'[i]["R"] = sem[i]["R"]
      <4>1. Add("detector", faceBuf, "R", -1)
        BY <1>3, <2>1 DEF FaceScans
      <4>2. /\ sem'[faceBuf]["R"] = sem[faceBuf]["R"] - 1
            /\ \A j \in Buffers, m \in Locks :
                  (j # faceBuf \/ m # "R") => sem'[j][m] = sem[j][m]
        BY <1>0, <2>1, <4>1, TakeEffect
      <4>3. sem[faceBuf]["R"] \in Int
        BY <1>0 DEF TypeOK
      <4> QED
        BY <1>0, <4>2, <4>3
    <3>2. /\ face = "scan" /\ face' = "grab" /\ faceBuf' = faceBuf
          /\ UNCHANGED <<loading, cam, camBuf, released, overtaken>>
      BY <1>3, <2>1 DEF FaceScans, streamer
    <3> QED
      BY <1>0, <1>1, <3>1, <3>2
  <2>2. CASE ~CanAdd("detector", faceBuf, "R", -1)
    BY <1>1, <1>3, <2>2 DEF FaceScans, streamer, semaphores
  <2> QED
    BY <2>1, <2>2
<1>4. CASE FaceGrabs \/ FaceConverts \/ FaceMarks
  BY <1>1, <1>4 DEF FaceGrabs, FaceConverts, FaceMarks, streamer, semaphores
<1>5. CASE FaceFrees
  <2>1. /\ sem'[faceBuf]["W"] = sem[faceBuf]["W"] + 1
        /\ sem'[i]["R"] = sem[i]["R"]
        /\ i # faceBuf => sem'[i]["W"] = sem[i]["W"]
    BY <1>0, <1>5, FreeEffect DEF FaceFrees
  <2>2. /\ face = "free" /\ face' = "scan"
        /\ UNCHANGED <<loading, cam, camBuf, released, overtaken>>
    BY <1>5 DEF FaceFrees, streamer
  <2> QED
    BY <1>0, <1>1, <2>1, <2>2
<1>6. CASE FaceDies
  <2>1. /\ UNCHANGED <<cam, camBuf, released, loading>>
        /\ loading > 0 /\ face # "none" /\ face' = "none" /\ Trusted
    BY <1>6 DEF FaceDies, streamer
  <2>2. /\ sem'[i]["R"] = sem[i]["R"] + One(FaceHas(i))
        /\ sem'[i]["W"] = sem[i]["W"]
    BY <1>6, <2>1, DeathKeeps
  <2> QED
    BY <1>0, <1>1, <2>1, <2>2
<1>7. CASE RunReleases
  <2>1. released \in Buffers /\ released' = released + 1
    BY <1>7, FaceHandshakeAssumption DEF RunReleases, TypeOK, Buffers
  <2>2. /\ sem'[i]["W"] = sem[i]["W"]
        /\ i # released => sem'[i]["R"] = sem[i]["R"]
        /\ i = released => sem'[i]["R"] \in {sem[i]["R"], sem[i]["R"] + 1}
    BY <1>0, <1>7, <2>1, FreeEffect DEF RunReleases, semaphores
  <2>3. UNCHANGED <<loading, face, faceBuf, cam, camBuf, overtaken>>
    BY <1>7 DEF RunReleases, detector
  <2> QED
    BY <1>0, <1>1, <2>1, <2>2, <2>3
<1>8. CASE CamScans
  <2>1. CASE CanAdd("streamer", camBuf, "W", -1)
    <3>1. /\ sem'[camBuf]["W"] = sem[camBuf]["W"] - 1
          /\ sem'[i]["R"] = sem[i]["R"]
          /\ i # camBuf => sem'[i]["W"] = sem[i]["W"]
      <4>1. Add("streamer", camBuf, "W", -1)
        BY <1>8, <2>1 DEF CamScans
      <4>2. /\ sem'[camBuf]["W"] = sem[camBuf]["W"] - 1
            /\ \A j \in Buffers, m \in Locks :
                  (j # camBuf \/ m # "W") => sem'[j][m] = sem[j][m]
        BY <1>0, <2>1, <4>1, TakeEffect
      <4>3. sem[camBuf]["W"] \in Int
        BY <1>0 DEF TypeOK
      <4> QED
        BY <1>0, <4>2, <4>3
    <3>2. /\ cam = "scan" /\ cam' = "compress" /\ camBuf' = camBuf
          /\ UNCHANGED <<loading, face, faceBuf, released, overtaken>>
      BY <1>8, <2>1 DEF CamScans, detector
    <3> QED
      BY <1>0, <1>1, <3>1, <3>2
  <2>2. CASE ~CanAdd("streamer", camBuf, "W", -1)
    BY <1>1, <1>8, <2>2 DEF CamScans, detector, semaphores
  <2> QED
    BY <2>1, <2>2
<1>9. CASE CamCompresses \/ CamPublishes
  BY <1>1, <1>9 DEF CamCompresses, CamPublishes, detector, semaphores
<1>10. CASE CamFrees
  <2>1. /\ sem'[camBuf]["R"] = sem[camBuf]["R"] + 1
        /\ sem'[i]["W"] = sem[i]["W"]
        /\ i # camBuf => sem'[i]["R"] = sem[i]["R"]
    BY <1>0, <1>10, FreeEffect DEF CamFrees
  <2>2. /\ cam = "free" /\ cam' = "scan"
        /\ UNCHANGED <<loading, face, faceBuf, released, overtaken>>
    BY <1>10 DEF CamFrees, detector
  <2> QED
    BY <1>0, <1>1, <2>1, <2>2
<1>11. CASE StreamerDies
  BY <1>11 DEF StreamerDies
<1>12. CASE StreamerStarts \/ SetsLock
  BY <1>12 DEF StreamerStarts, SetsLock
<1>13. CASE Forks
  <2>1. /\ cam = "fork" /\ cam' = "scan" /\ ~FaceWorks /\ ~(sem[i]["W"] > 0)
        /\ UNCHANGED <<sem, face>>
    BY <1>13 DEF Forks, semaphores
  <2>2. sem[i]["R"] = 0 /\ sem[i]["W"] = 0
    BY <1>0, <2>1 DEF SetInv, RSet, WSet
  <2> QED
    BY <1>0, <2>1, <2>2
<1>14. CASE FaceOpens
  <2>1. Served /\ UNCHANGED <<sem, cam, camBuf, released, overtaken>>
    BY <1>14 DEF FaceOpens, semaphores, streamer
  <2>2. FaceHas(i)' = FaceHas(i)
    BY <1>14 DEF FaceOpens
  <2> QED
    BY <1>1, <2>1, <2>2
<1>15. CASE LoadFails
  <2>1. Served /\ UNCHANGED <<sem, cam, camBuf, released, overtaken, face,
                              faceBuf>>
    BY <1>15 DEF LoadFails, semaphores, streamer
  <2> QED
    BY <1>1, <2>1
<1> QED
  BY <1>2, <1>3, <1>4, <1>5, <1>6, <1>7, <1>8, <1>9, <1>10, <1>11, <1>12,
     <1>13, <1>14, <1>15
     DEF Next, Facedetection, CamThread, vars, semaphores, streamer, detector

(* Nobody takes a lock that input_init has set.                              *)
LEMMA SetStep == TypeOK /\ SetInv /\ [Next]_vars => SetInv'
<1> SUFFICES ASSUME TypeOK, SetInv, [Next]_vars, NEW i \in Buffers
             PROVE  /\ (RSet(i) => sem[i]["R"] = 0
                                      /\ undo["detector"][i]["R"] = 0)'
                    /\ (WSet(i) => sem[i]["W"] + undo["detector"][i]["W"] = 0)'
  BY DEF SetInv
<1>0. /\ "R" \in Locks /\ "W" \in Locks /\ "R" # "W"
      /\ "detector" \in Processes
      /\ faceBuf \in Buffers /\ camBuf \in Buffers
      /\ sem[i]["R"] \in Nat /\ sem[i]["W"] \in Nat
      /\ undo["detector"][i]["W"] \in Int
  BY FaceHandshakeAssumption DEF Locks, Processes, TypeOK
<1>1. /\ RSet(i) => sem[i]["R"] = 0 /\ undo["detector"][i]["R"] = 0
      /\ WSet(i) => sem[i]["W"] + undo["detector"][i]["W"] = 0
  BY DEF SetInv
<1>2. CASE UNCHANGED <<semaphores, cam, camBuf>>
  BY <1>1, <1>2 DEF semaphores, RSet, WSet
<1>3. CASE FaceScans
  <2>1. CASE CanAdd("detector", faceBuf, "R", -1)
    <3>1. cam' = cam /\ camBuf' = camBuf
      BY <1>3 DEF FaceScans, streamer
    <3>2. /\ sem[faceBuf]["R"] > 0
          /\ sem'[i]["W"] = sem[i]["W"]
          /\ undo'["detector"][i]["W"] = undo["detector"][i]["W"]
          /\ i # faceBuf => /\ sem'[i]["R"] = sem[i]["R"]
                            /\ undo'["detector"][i]["R"]
                                   = undo["detector"][i]["R"]
      BY <1>3, <2>1, FaceTakesLock
    <3>3. i = faceBuf => ~RSet(i)
      BY <1>0, <1>1, <3>2
    <3> QED
      BY <1>1, <3>1, <3>2, <3>3 DEF RSet, WSet
  <2>2. CASE ~CanAdd("detector", faceBuf, "R", -1)
    BY <1>2, <1>3, <2>2 DEF FaceScans, streamer
  <2> QED
    BY <2>1, <2>2
<1>4. CASE FaceFrees
  <2>1. cam' = cam /\ camBuf' = camBuf
    BY <1>4 DEF FaceFrees, streamer
  <2>2. /\ sem'[i]["R"] = sem[i]["R"]
        /\ undo'["detector"][i]["R"] = undo["detector"][i]["R"]
        /\ i # faceBuf =>
              /\ sem'[i]["W"] = sem[i]["W"]
              /\ undo'["detector"][i]["W"] = undo["detector"][i]["W"]
        /\ i = faceBuf =>
              /\ sem'[i]["W"] = sem[i]["W"] + 1
              /\ undo'["detector"][i]["W"] = undo["detector"][i]["W"] - 1
    BY <1>4, FaceFreesLock
  <2>3. sem'[i]["W"] + undo'["detector"][i]["W"]
            = sem[i]["W"] + undo["detector"][i]["W"]
    BY <1>0, <2>2
  <2> QED
    BY <1>1, <2>1, <2>2, <2>3 DEF RSet, WSet
<1>5. CASE FaceDies
  <2>1. cam' = cam /\ camBuf' = camBuf
    BY <1>5 DEF FaceDies, streamer
  <2>2. /\ sem'[i]["R"] = Clamp(sem[i]["R"] + undo["detector"][i]["R"])
        /\ sem'[i]["W"] = Clamp(sem[i]["W"] + undo["detector"][i]["W"])
        /\ undo'["detector"][i]["R"] = 0 /\ undo'["detector"][i]["W"] = 0
    BY <1>0, <1>5, UndoneEffect DEF FaceDies
  <2>3. Clamp(0) = 0
    BY FaceHandshakeAssumption DEF Clamp
  <2> QED
    BY <1>0, <1>1, <2>1, <2>2, <2>3 DEF RSet, WSet
<1>6. CASE \/ RunReleases \/ CamThread \/ StreamerDies \/ StreamerStarts
           \/ Forks
  <2>1. ~RSet(i)' /\ ~WSet(i)'
    BY <1>6 DEF RunReleases, CamThread, CamScans, CamCompresses, CamPublishes,
       CamFrees, StreamerDies, StreamerStarts, Forks, CamRuns, CamWorks, RSet,
       WSet, Buffers
  <2> QED
    BY <2>1
<1>7. CASE SetsLock
  <2>1. CASE cam = "setW"
    <3>1. SetVal(camBuf, "W") /\ cam' = "setR" /\ camBuf' = camBuf
      BY <1>7, <2>1 DEF SetsLock
    <3>2. /\ sem'[i]["R"] = sem[i]["R"]
          /\ undo'["detector"][i]["R"] = undo["detector"][i]["R"]
          /\ sem'[i]["W"] = IF i = camBuf THEN 0 ELSE sem[i]["W"]
          /\ undo'["detector"][i]["W"]
                 = IF i = camBuf THEN 0 ELSE undo["detector"][i]["W"]
      BY <1>0, <3>1, SetEffect
    <3> QED
      BY <1>0, <1>1, <2>1, <3>1, <3>2 DEF RSet, WSet
  <2>2. CASE cam = "setR"
    <3>1. /\ SetVal(camBuf, "R")
          /\ \/ camBuf < NBuffers - 1 /\ cam' = "setW" /\ camBuf' = camBuf + 1
             \/ camBuf = NBuffers - 1 /\ cam' = "fork"
      BY <1>0, <1>7, <2>2, FaceHandshakeAssumption DEF SetsLock, Buffers
    <3>2. /\ sem'[i]["W"] = sem[i]["W"]
          /\ undo'["detector"][i]["W"] = undo["detector"][i]["W"]
          /\ sem'[i]["R"] = IF i = camBuf THEN 0 ELSE sem[i]["R"]
          /\ undo'["detector"][i]["R"]
                 = IF i = camBuf THEN 0 ELSE undo["detector"][i]["R"]
      BY <1>0, <3>1, SetEffect
    <3>3. (RSet(i)' \/ WSet(i)') => (i = camBuf \/ i < camBuf)
      BY <1>0, <3>1, FaceHandshakeAssumption DEF RSet, WSet, Buffers
    <3> QED
      BY <1>1, <2>2, <3>2, <3>3 DEF RSet, WSet
  <2> QED
    BY <1>7, <2>1, <2>2 DEF SetsLock
<1> QED
  BY <1>2, <1>3, <1>4, <1>5, <1>6, <1>7
     DEF Next, Facedetection, vars, streamer, FaceGrabs, FaceConverts,
         FaceMarks, FaceOpens, LoadFails

(* The plugin fills no buffer.                                               *)
LEMMA StreamerFillsNone ==
    ASSUME TypeOK, RunReleases \/ CamThread, NEW i \in Buffers, Full(i)'
    PROVE  Full(i)
<1>0. /\ "R" \in Locks /\ "W" \in Locks /\ "R" # "W" /\ camBuf \in Buffers
      /\ "streamer" \in Processes
      /\ sem[i]["W"] \in Nat
  BY FaceHandshakeAssumption DEF Locks, Processes, TypeOK
<1> USE DEF Full, CamHas, CamWorks
<1>1. CASE RunReleases
  <2>1. released \in Buffers /\ UNCHANGED <<cam, camBuf>>
    BY <1>1, FaceHandshakeAssumption DEF RunReleases, TypeOK, Buffers
  <2>2. CASE CanAdd("streamer", released, "R", 1)
    <3>1. Add("streamer", released, "R", 1)
      BY <1>1, <2>2 DEF RunReleases
    <3>2. sem'[i]["W"] = sem[i]["W"]
      BY <1>0, <2>1, <2>2, <3>1, FreeEffect
    <3> QED
      BY <2>1, <3>2
  <2>3. CASE ~CanAdd("streamer", released, "R", 1)
    BY <1>1, <2>1, <2>3 DEF RunReleases, semaphores
  <2> QED
    BY <2>2, <2>3
<1>2. CASE CamScans
  <2>1. CASE CanAdd("streamer", camBuf, "W", -1)
    <3>1. /\ Add("streamer", camBuf, "W", -1) /\ cam' = "compress"
          /\ camBuf' = camBuf
      BY <1>2, <2>1 DEF CamScans
    <3>2. sem[camBuf]["W"] > 0
      BY <1>0, <2>1, FaceHandshakeAssumption DEF CanAdd, TypeOK
    <3>3. i # camBuf => sem'[i]["W"] = sem[i]["W"]
      BY <1>0, <2>1, <3>1, TakeEffect
    <3> QED
      BY <3>1, <3>2, <3>3
  <2>2. CASE ~CanAdd("streamer", camBuf, "W", -1)
    BY <1>2, <2>2 DEF CamScans, semaphores
  <2> QED
    BY <2>1, <2>2
<1>3. CASE CamCompresses \/ CamPublishes
  BY <1>3 DEF CamCompresses, CamPublishes, semaphores
<1>4. CASE CamFrees
  <2>1. /\ CanAdd("streamer", camBuf, "R", 1) /\ Add("streamer", camBuf, "R", 1)
        /\ cam' = "scan"
    BY <1>4 DEF CamFrees
  <2>2. sem'[i]["W"] = sem[i]["W"]
    BY <1>0, <2>1, FreeEffect
  <2> QED
    BY <2>1, <2>2
<1> QED
  BY <1>1, <1>2, <1>3, <1>4 DEF CamThread

(* Each of facedetection's operations is counted, and a successor starts     *)
(* with nothing counted and nothing full.                                    *)
LEMMA DetectorStep ==
    TypeOK /\ UndoInv /\ HandInv /\ SetInv /\ DetectorInv /\ [Next]_vars
        => DetectorInv'
<1> DEFINE r(i) == undo["detector"][i]["R"]
           w(i) == undo["detector"][i]["W"]
<1> SUFFICES ASSUME TypeOK, UndoInv, HandInv, SetInv, DetectorInv,
                    [Next]_vars, Trusted', NEW i \in Buffers
             PROVE  /\ r(i)' + w(i)' = One(FaceHas(i))'
                    /\ Served' /\ w(i)' = 0 => ~Full(i)'
  BY DEF DetectorInv
<1>0. /\ "R" \in Locks /\ "W" \in Locks /\ "R" # "W"
      /\ "detector" \in Processes /\ faceBuf \in Buffers
      /\ r(i) \in Int /\ w(i) \in Int /\ sem[i]["W"] \in Nat
  BY FaceHandshakeAssumption DEF Locks, Processes, TypeOK
<1>1. Trusted => /\ r(i) + w(i) = One(FaceHas(i))
                 /\ Served /\ w(i) = 0 => ~Full(i)
  BY DEF DetectorInv
<1>2. ASSUME Trusted, r(i)' = r(i), w(i)' = w(i), FaceHas(i)' = FaceHas(i),
             Served' => Served, Full(i)' => Full(i)
      PROVE  /\ r(i)' + w(i)' = One(FaceHas(i))'
             /\ Served' /\ w(i)' = 0 => ~Full(i)'
  BY <1>1, <1>2 DEF One
<1>3. CASE UNCHANGED <<semaphores, streamer, detector, overtaken>>
  BY <1>2, <1>3 DEF semaphores, streamer, detector, Trusted, CamRuns, CamWorks,
     FaceHas, FaceWorks, Full, CamHas, Served
<1>4. CASE FaceScans
  <2>1. Trusted /\ UNCHANGED <<cam, camBuf>> /\ Served
    BY <1>4 DEF FaceScans, streamer, Trusted, CamRuns, CamWorks, Served
  <2>2. CASE CanAdd("detector", faceBuf, "R", -1)
    <3>1. /\ face = "scan" /\ face' = "grab" /\ faceBuf' = faceBuf
          /\ sem'[i]["W"] = sem[i]["W"] /\ w(i)' = w(i)
          /\ i # faceBuf => r(i)' = r(i)
          /\ i = faceBuf => r(i)' = r(i) + 1
      BY <1>4, <2>2, FaceTakesLock
    <3>2. Full(i)' = Full(i)
      BY <2>1, <3>1 DEF Full, CamHas, CamWorks
    <3>3. One(FaceHas(i)) = 0 /\ One(FaceHas(i))' = IF i = faceBuf THEN 1 ELSE 0
      BY <3>1 DEF One, FaceHas, FaceWorks
    <3> HIDE DEF r, w
    <3> QED
      BY <1>0, <1>1, <2>1, <3>1, <3>2, <3>3
  <2>3. CASE ~CanAdd("detector", faceBuf, "R", -1)
    <3>1. /\ r(i)' = r(i) /\ w(i)' = w(i) /\ Full(i)' = Full(i)
          /\ FaceHas(i)' = FaceHas(i)
      BY <1>4, <2>1, <2>3 DEF FaceScans, semaphores, Full, CamHas, CamWorks,
         FaceHas, FaceWorks
    <3> QED
      BY <1>2, <2>1, <3>1
  <2> QED
    BY <2>2, <2>3
<1>5. CASE FaceGrabs \/ FaceConverts \/ FaceMarks
  <2>1. /\ Trusted /\ Served /\ r(i)' = r(i) /\ w(i)' = w(i)
        /\ Full(i)' = Full(i) /\ FaceHas(i)' = FaceHas(i)
    BY <1>5 DEF FaceGrabs, FaceConverts, FaceMarks, semaphores, streamer,
       Trusted, Served, CamRuns, CamWorks, Full, CamHas, FaceHas, FaceWorks
  <2> QED
    BY <1>2, <2>1
<1>6. CASE FaceFrees
  <2>1. Trusted /\ UNCHANGED <<cam, camBuf>> /\ Served
    BY <1>6 DEF FaceFrees, streamer, Trusted, CamRuns, CamWorks, Served
  <2>2. /\ face = "free" /\ face' = "scan" /\ r(i)' = r(i)
        /\ i # faceBuf => w(i)' = w(i) /\ sem'[i]["W"] = sem[i]["W"]
        /\ i = faceBuf => w(i)' = w(i) - 1
    BY <1>6, FaceFreesLock
  <2>3. w(i) <= 0
    BY DEF UndoInv, WriteUndoDown
  <2>4. i # faceBuf => Full(i)' = Full(i)
    BY <2>1, <2>2 DEF Full, CamHas, CamWorks
  <2>5. One(FaceHas(i))' = 0 /\ One(FaceHas(i)) = IF i = faceBuf THEN 1 ELSE 0
    BY <2>2 DEF One, FaceHas, FaceWorks
  <2> HIDE DEF r, w
  <2> QED
    BY <1>0, <1>1, <2>1, <2>2, <2>3, <2>4, <2>5
<1>7. CASE FaceDies
  <2>1. Trusted /\ UNCHANGED <<cam, camBuf>> /\ face' = "none"
    BY <1>7 DEF FaceDies, streamer, Trusted, CamRuns, CamWorks
  <2>2. r(i)' = 0 /\ w(i)' = 0
    BY <1>0, <1>7, UndoneEffect DEF FaceDies
  <2>3. One(FaceHas(i))' = 0
    BY <2>1 DEF One, FaceHas, FaceWorks
  <2>4. ASSUME Served'
        PROVE  ~Full(i)'
    <3>1. ~Full(i) /\ sem'[i]["W"] = sem[i]["W"]
      BY <1>7, <2>1, <2>4, DeathKeeps
    <3> QED
      BY <2>1, <3>1 DEF Full, CamHas, CamWorks
  <2> QED
    BY <2>2, <2>3, <2>4
<1>8. CASE RunReleases \/ CamThread
  <2>1. /\ Trusted /\ UNCHANGED detector
    BY <1>8 DEF RunReleases, CamThread, CamScans, CamCompresses, CamPublishes,
       CamFrees, Trusted, CamRuns, CamWorks
  <2>2. r(i)' = r(i) /\ w(i)' = w(i)
    BY <1>0, <1>8, StreamerKeepsUndo
  <2>3. Full(i)' => Full(i)
    BY <1>8, StreamerFillsNone
  <2> QED
    BY <1>2, <2>1, <2>2, <2>3 DEF detector, FaceHas, FaceWorks, Served
<1>9. CASE StreamerDies \/ StreamerStarts \/ SetsLock
  BY <1>9 DEF StreamerDies, StreamerStarts, SetsLock, Trusted, CamRuns, CamWorks
<1>10. CASE Forks
  <2>1. /\ cam = "fork" /\ cam' = "scan" /\ ~FaceWorks /\ ~(sem[i]["W"] > 0)
        /\ UNCHANGED <<semaphores, face>>
    BY <1>10 DEF Forks, Trusted
  <2>2. r(i) = 0 /\ w(i) = 0 /\ sem[i]["W"] = 0
    BY <1>0, <2>1 DEF SetInv, RSet, WSet
  <2>3. ~FaceHas(i)' /\ ~Full(i)'
    BY <2>1, <2>2 DEF FaceHas, FaceWorks, Full, CamHas, CamWorks, semaphores
  <2> QED
    BY <2>1, <2>2, <2>3 DEF One, semaphores
<1>11. CASE FaceOpens \/ LoadFails
  <2>1. /\ UNCHANGED <<semaphores, streamer, overtaken>>
        /\ loading > 0 /\ FaceHas(i)' = FaceHas(i)
    BY <1>11 DEF FaceOpens, LoadFails, FaceHas, FaceWorks
  <2> QED
    BY <1>2, <2>1 DEF semaphores, streamer, Trusted, CamRuns, CamWorks, Full,
       CamHas, Served
<1> QED
  BY <1>3, <1>4, <1>5, <1>6, <1>7, <1>8, <1>9, <1>10, <1>11
     DEF Next, Facedetection, vars

(* The read lock of a buffer that input_run has not freed yet is 0, and so   *)
(* are the plugin's counters together: freesem works.                        *)
LEMMA FirstFreeWorks ==
    ASSUME TypeOK, HandInv, Trusted, Served,
           released \in Buffers, Balance(released)
    PROVE  CanAdd("streamer", released, "R", 1)
<1> DEFINE r == sem[released]["R"]
           w == sem[released]["W"]
           a == undo["streamer"][released]["R"]
           b == undo["streamer"][released]["W"]
           h == One(FaceHas(released))
           c == One(CamHas(released))
<1>1. /\ r \in Nat /\ w \in Nat
      /\ a \in -SemMax - 1 .. SemMax /\ b \in -SemMax - 1 .. SemMax
      /\ h \in {0, 1} /\ c \in {0, 1} /\ SemMax \in Nat \ {0}
  BY FaceHandshakeAssumption DEF TypeOK, Locks, Processes, One
<1>2. released \in Nat
  BY FaceHandshakeAssumption DEF TypeOK
<1>3. r + w + h + c + 1 <= 1
  <2>1. Tokens(released) <= 1
    BY DEF HandInv
  <2>2. One(released >= released) = 1
    BY <1>2 DEF One
  <2> QED
    BY <2>1, <2>2 DEF Tokens
<1>4. a + b = c - 0
  <2>1. One(released < released) = 0
    BY <1>2 DEF One
  <2> QED
    BY <2>1 DEF Balance
<1> SUFFICES r + 1 \in 0 .. SemMax /\ a - 1 \in -SemMax - 1 .. SemMax
  BY DEF CanAdd
<1> HIDE DEF r, w, a, b, h, c
<1>5. r = 0 /\ c = 0
  BY <1>1, <1>3
<1> QED
  BY <1>1, <1>4, <1>5

(* Every lock freed lowers one counter of a buffer, every lock taken raises  *)
(* the other one.  Nobody looks whether input_run's freesem works: it does.  *)
LEMMA BalanceStep ==
    TypeOK /\ HandInv /\ BalanceInv /\ [Next]_vars => BalanceInv'
<1> SUFFICES ASSUME TypeOK, HandInv, BalanceInv, [Next]_vars, deaths' = 0
             PROVE  Trusted' /\ Served' /\ \A i \in Buffers : Balance(i)'
  BY DEF BalanceInv
<1>0. /\ "R" \in Locks /\ "W" \in Locks /\ "R" # "W"
      /\ "streamer" \in Processes /\ "detector" \in Processes
      /\ "streamer" # "detector"
      /\ faceBuf \in Buffers /\ camBuf \in Buffers /\ released \in Nat
      /\ \A i \in Buffers : i \in Nat
  BY FaceHandshakeAssumption DEF Locks, Processes, TypeOK, Buffers
<1>1. deaths \in Nat
  BY DEF TypeOK
<1>2. /\ deaths = 0 /\ Trusted /\ Served
      /\ \A i \in Buffers : Balance(i)
  <2>1. deaths' = deaths \/ deaths' = deaths + 1
    BY DEF Next, Facedetection, CamThread, vars, FaceScans, FaceGrabs,
       FaceConverts, FaceMarks, FaceFrees, FaceDies, RunReleases, CamScans,
       CamCompresses, CamPublishes, CamFrees, StreamerDies, StreamerStarts,
       SetsLock, Forks, FaceOpens, LoadFails
  <2> QED
    BY <1>1, <2>1 DEF BalanceInv
<1>3. /\ ~FaceDies /\ ~StreamerDies /\ ~StreamerStarts /\ ~SetsLock /\ ~Forks
      /\ ~LoadFails
  BY <1>2 DEF FaceDies, StreamerDies, StreamerStarts, SetsLock, Forks,
     LoadFails, Trusted, CamRuns, CamWorks
<1>4. Trusted' /\ Served'
  BY <1>2, <1>3
     DEF Next, Facedetection, CamThread, vars, streamer, detector, Trusted,
         CamRuns, CamWorks, Served, FaceScans, FaceGrabs, FaceConverts,
         FaceMarks, FaceFrees, RunReleases, CamScans, CamCompresses,
         CamPublishes, CamFrees, FaceOpens
<1> SUFFICES ASSUME NEW i \in Buffers
             PROVE  Balance(i)'
  BY <1>4
<1> DEFINE sR == undo["streamer"][i]["R"]
           sW == undo["streamer"][i]["W"]
<1>5. sR \in Int /\ sW \in Int
  BY <1>0, FaceHandshakeAssumption DEF TypeOK
<1>6. sR + sW = One(CamHas(i)) - One(i < released)
  BY <1>2 DEF Balance
<1> SUFFICES sR' + sW' = One(CamHas(i))' - One(i < released)'
  BY DEF Balance
<1> DEFINE Same == sR' = sR /\ sW' = sW
<1>7. UNCHANGED undo => Same
  OBVIOUS
<1> USE DEF CamHas, CamWorks, One
<1>8. CASE Same /\ UNCHANGED streamer
  <2> HIDE DEF sR, sW
  <2> QED
    BY <1>6, <1>8 DEF streamer
<1>9. CASE FaceScans
  <2>1. Same
    <3>1. CASE CanAdd("detector", faceBuf, "R", -1)
      <4>1. Add("detector", faceBuf, "R", -1)
        BY <1>9, <3>1 DEF FaceScans
      <4>2. \A q \in Processes, j \in Buffers, m \in Locks :
               (q # "detector" \/ j # faceBuf \/ m # "R") =>
                   undo'[q][j][m] = undo[q][j][m]
        BY <1>0, <3>1, <4>1, TakeEffect
      <4> QED
        BY <1>0, <4>2
    <3>2. CASE ~CanAdd("detector", faceBuf, "R", -1)
      BY <1>7, <1>9, <3>2 DEF FaceScans, semaphores
    <3> QED
      BY <3>1, <3>2
  <2> QED
    BY <1>8, <1>9, <2>1 DEF FaceScans
<1>10. CASE FaceFrees
  <2>1. Same
    <3>1. \A q \in Processes, j \in Buffers, m \in Locks :
             (q # "detector" \/ j # faceBuf \/ m # "W") =>
                 undo'[q][j][m] = undo[q][j][m]
      BY <1>0, <1>10, FreeEffect DEF FaceFrees
    <3> QED
      BY <1>0, <3>1
  <2> QED
    BY <1>8, <1>10, <2>1 DEF FaceFrees
<1>11. CASE \/ FaceOpens \/ FaceGrabs \/ FaceConverts \/ FaceMarks
            \/ UNCHANGED vars
  <2>1. UNCHANGED <<undo, streamer>>
    BY <1>11 DEF FaceOpens, FaceGrabs, FaceConverts, FaceMarks, vars, semaphores
  <2> QED
    BY <1>7, <1>8, <2>1
<1>12. CASE RunReleases
  <2>1. /\ released \in Buffers /\ released' = released + 1
        /\ UNCHANGED <<cam, camBuf>>
    BY <1>12, FaceHandshakeAssumption
       DEF RunReleases, TypeOK, Buffers, detector
  <2>2. CanAdd("streamer", released, "R", 1)
    BY <1>0, <1>2, <2>1, FirstFreeWorks
  <2>3. Add("streamer", released, "R", 1)
    BY <1>12, <2>2 DEF RunReleases
  <2>4. /\ undo'["streamer"][released]["R"]
              = undo["streamer"][released]["R"] - 1
        /\ \A q \in Processes, j \in Buffers, m \in Locks :
              (q # "streamer" \/ j # released \/ m # "R") =>
                  undo'[q][j][m] = undo[q][j][m]
    BY <1>0, <2>1, <2>2, <2>3, FreeEffect
  <2>5. /\ i = released => sR' = sR - 1
        /\ i # released => sR' = sR
        /\ sW' = sW
    BY <1>0, <2>1, <2>4
  <2>6. i \in Int /\ released \in Int
    BY <1>0
  <2> HIDE DEF sR, sW
  <2> QED
    BY <1>5, <1>6, <2>1, <2>5, <2>6
<1>13. CASE CamScans /\ CanAdd("streamer", camBuf, "W", -1)
  <2>1. Add("streamer", camBuf, "W", -1)
    BY <1>13 DEF CamScans
  <2>2. /\ undo'["streamer"][camBuf]["W"] = undo["streamer"][camBuf]["W"] + 1
        /\ \A q \in Processes, j \in Buffers, m \in Locks :
              (q # "streamer" \/ j # camBuf \/ m # "W") =>
                  undo'[q][j][m] = undo[q][j][m]
    BY <1>0, <1>13, <2>1, TakeEffect
  <2>3. /\ i = camBuf => sW' = sW + 1
        /\ i # camBuf => sW' = sW
        /\ sR' = sR
    BY <1>0, <2>2
  <2>4. /\ cam = "scan" /\ cam' = "compress"
        /\ UNCHANGED <<camBuf, released>>
    BY <1>13 DEF CamScans, detector
  <2> HIDE DEF sR, sW
  <2> QED
    BY <1>5, <1>6, <2>3, <2>4
<1>14. CASE CamScans /\ ~CanAdd("streamer", camBuf, "W", -1)
  <2>1. /\ cam = "scan" /\ cam' = "scan"
        /\ UNCHANGED <<undo, released>>
    BY <1>14 DEF CamScans, semaphores, detector
  <2>2. Same
    BY <1>7, <2>1
  <2> HIDE DEF sR, sW
  <2> QED
    BY <1>6, <2>1, <2>2
<1>15. CASE CamCompresses \/ CamPublishes
  <2>1. /\ CamWorks /\ CamWorks'
        /\ UNCHANGED <<undo, camBuf, released>>
    BY <1>15 DEF CamCompresses, CamPublishes, semaphores, detector
  <2>2. Same
    BY <1>7, <2>1
  <2> HIDE DEF sR, sW
  <2> QED
    BY <1>6, <2>1, <2>2
<1>16. CASE CamFrees
  <2>1. /\ undo'["streamer"][camBuf]["R"] = undo["streamer"][camBuf]["R"] - 1
        /\ \A q \in Processes, j \in Buffers, m \in Locks :
              (q # "streamer" \/ j # camBuf \/ m # "R") =>
                  undo'[q][j][m] = undo[q][j][m]
    BY <1>0, <1>16, FreeEffect DEF CamFrees
  <2>2. /\ i = camBuf => sR' = sR - 1
        /\ i # camBuf => sR' = sR
        /\ sW' = sW
    BY <1>0, <2>1
  <2>3. /\ cam = "free" /\ cam' = "scan"
        /\ UNCHANGED released
    BY <1>16 DEF CamFrees, detector
  <2> HIDE DEF sR, sW
  <2> QED
    BY <1>5, <1>6, <2>2, <2>3
<1> QED
  BY <1>3, <1>9, <1>10, <1>11, <1>12, <1>13, <1>14, <1>15, <1>16
     DEF Next, Facedetection, CamThread

(* While facedetection has a buffer, it is not ready for cam_thread, which   *)
(* does not have it either.                                                  *)
LEMMA OneHolder ==
    ASSUME TypeOK, HandInv, Trusted, FaceWorks
    PROVE  sem[faceBuf]["W"] = 0 /\ ~CamHas(faceBuf)
<1>1. Tokens(faceBuf) <= 1
  BY DEF HandInv, Served, TypeOK, FaceWorks
<1>2. /\ sem[faceBuf]["R"] \in Nat /\ sem[faceBuf]["W"] \in Nat
      /\ One(CamHas(faceBuf)) \in {0, 1} /\ One(faceBuf >= released) \in {0, 1}
  BY FaceHandshakeAssumption DEF TypeOK, Locks, One
<1>3. One(FaceHas(faceBuf)) = 1
  BY DEF One, FaceHas
<1>4. sem[faceBuf]["W"] = 0 /\ One(CamHas(faceBuf)) = 0
  BY <1>1, <1>2, <1>3 DEF Tokens
<1> QED
  BY <1>4 DEF One

(* So cam_thread's picture does not change under it, and it is marked.       *)
LEMMA PictureStep == IInv /\ [Next]_vars => PictureInv'
<1> SUFFICES ASSUME IInv, [Next]_vars, Trusted'
             PROVE  /\ (face = "free" => rgb[faceBuf].marked)'
                    /\ \A i \in Buffers :
                          (sem[i]["W"] > 0 \/ CamHas(i) => rgb[i].marked)'
                    /\ (cam = "publish" => top = rgb[camBuf])'
                    /\ (published # Nothing =>
                           /\ published.first = published.last
                           /\ published.last.marked)'
  BY DEF PictureInv
<1>0. /\ TypeOK /\ UndoInv /\ HandInv /\ PictureInv
      /\ "R" \in Locks /\ "W" \in Locks /\ "R" # "W"
      /\ "streamer" \in Processes /\ "detector" \in Processes
      /\ faceBuf \in Buffers /\ camBuf \in Buffers
      /\ rgb \in [Buffers -> Picture]
      /\ \A i \in Buffers : sem[i]["W"] \in Nat
  BY FaceHandshakeAssumption DEF IInv, TypeOK, Locks, Processes
<1> DEFINE Ready(i) == sem[i]["W"] > 0 \/ CamHas(i)
<1>1. ASSUME Trusted
      PROVE  /\ face = "free" => rgb[faceBuf].marked
             /\ \A i \in Buffers : Ready(i) => rgb[i].marked
             /\ cam = "publish" => top = rgb[camBuf]
             /\ published # Nothing =>
                    published.first = published.last /\ published.last.marked
  BY <1>0, <1>1 DEF PictureInv
<1>2. CASE UNCHANGED <<sem, rgb, streamer, face, faceBuf, overtaken>>
  BY <1>1, <1>2 DEF streamer, Trusted, CamRuns, CamHas, CamWorks
<1>3. CASE FaceScans
  <2>1. /\ Trusted /\ face' \in {"scan", "grab"}
        /\ UNCHANGED <<rgb, cam, camBuf, top, published>>
    BY <1>3 DEF FaceScans, streamer, Trusted, CamRuns, CamWorks
  <2>2. \A i \in Buffers : sem'[i]["W"] = sem[i]["W"]
    <3>1. CASE CanAdd("detector", faceBuf, "R", -1)
      <4>1. Add("detector", faceBuf, "R", -1)
        BY <1>3, <3>1 DEF FaceScans
      <4> QED
        BY <1>0, <3>1, <4>1, TakeEffect
    <3>2. CASE ~CanAdd("detector", faceBuf, "R", -1)
      BY <1>3, <3>2 DEF FaceScans, semaphores
    <3> QED
      BY <3>1, <3>2
  <2> QED
    BY <1>1, <2>1, <2>2 DEF CamHas, CamWorks
<1>4. CASE FaceGrabs
  BY <1>1, <1>4 DEF FaceGrabs, semaphores, streamer, Trusted, CamRuns, CamHas,
     CamWorks
<1>5. CASE FaceConverts \/ FaceMarks
  <2>1. /\ Trusted /\ FaceWorks
        /\ UNCHANGED <<sem, cam, camBuf, top, published, faceBuf>>
    BY <1>5 DEF FaceConverts, FaceMarks, semaphores, streamer, Trusted,
       CamRuns, CamWorks,
       FaceWorks
  <2>2. ~Ready(faceBuf)
    BY <1>0, <2>1, OneHolder
  <2>3. /\ \A i \in Buffers : i # faceBuf => rgb'[i] = rgb[i]
        /\ face' = "free" => rgb'[faceBuf].marked
    BY <1>0, <1>5 DEF FaceConverts, FaceMarks, Picture
  <2>4. \A i \in Buffers : Ready(i) => rgb'[i].marked
    BY <1>1, <2>1, <2>2, <2>3
  <2>5. cam = "publish" => top = rgb'[camBuf]
    BY <1>0, <1>1, <2>1, <2>2, <2>3 DEF CamHas, CamWorks
  <2> QED
    BY <1>1, <2>1, <2>3, <2>4, <2>5 DEF CamHas, CamWorks
<1>6. CASE FaceFrees
  <2>1. /\ Trusted /\ face = "free" /\ face' = "scan"
        /\ UNCHANGED <<rgb, cam, camBuf, top, published>>
    BY <1>6 DEF FaceFrees, streamer, Trusted, CamRuns, CamWorks
  <2>2. \A i \in Buffers : i # faceBuf => sem'[i]["W"] = sem[i]["W"]
    BY <1>0, <1>6, FreeEffect DEF FaceFrees
  <2>3. \A i \in Buffers : Ready(i)' => i = faceBuf \/ Ready(i)
    BY <2>1, <2>2 DEF CamHas, CamWorks
  <2> QED
    BY <1>1, <2>1, <2>3
<1>7. CASE FaceDies
  <2>1. Trusted /\ face' = "none" /\ UNCHANGED <<rgb, cam, camBuf, top, published>>
    BY <1>7 DEF FaceDies, streamer, Trusted, CamRuns, CamWorks
  <2>2. ASSUME NEW i \in Buffers
        PROVE  sem'[i]["W"] <= sem[i]["W"] /\ sem'[i]["W"] \in Nat
    <3>1. Undone("detector") /\ undo["detector"][i]["W"] <= 0
      BY <1>0, <1>7 DEF FaceDies, UndoInv, WriteUndoDown
    <3>2. /\ sem' \in [Buffers -> [Locks -> 0 .. SemMax]]
          /\ sem'[i]["W"] <= sem[i]["W"]
      BY <1>0, <3>1, UndoneEffect
    <3> QED
      BY <1>0, <3>2, FaceHandshakeAssumption
  <2>3. \A i \in Buffers : Ready(i)' => Ready(i)
    BY <1>0, <2>1, <2>2 DEF CamHas, CamWorks
  <2> QED
    BY <1>1, <2>1, <2>3
<1>8. CASE RunReleases
  <2>1. /\ Trusted /\ released \in Buffers
        /\ UNCHANGED <<rgb, cam, camBuf, top, published, face, faceBuf>>
    BY <1>0, <1>8, FaceHandshakeAssumption
       DEF RunReleases, detector, Trusted, CamRuns, CamWorks, TypeOK, Buffers
  <2>2. \A i \in Buffers : sem'[i]["W"] = sem[i]["W"]
    <3>1. CASE CanAdd("streamer", released, "R", 1)
      <4>1. Add("streamer", released, "R", 1)
        BY <1>8, <3>1 DEF RunReleases
      <4> QED
        BY <1>0, <2>1, <3>1, <4>1, FreeEffect
    <3>2. CASE ~CanAdd("streamer", released, "R", 1)
      BY <1>8, <3>2 DEF RunReleases, semaphores
    <3> QED
      BY <3>1, <3>2
  <2> QED
    BY <1>1, <2>1, <2>2 DEF CamHas, CamWorks
<1>9. CASE CamScans
  <2>1. /\ Trusted /\ UNCHANGED <<rgb, top, published, face, faceBuf>>
        /\ cam' # "publish"
    BY <1>9 DEF CamScans, detector, Trusted, CamRuns, CamWorks
  <2>2. CASE CanAdd("streamer", camBuf, "W", -1)
    <3>1. Add("streamer", camBuf, "W", -1) /\ camBuf' = camBuf
      BY <1>9, <2>2 DEF CamScans
    <3>2. sem[camBuf]["W"] > 0
      BY <1>0, <2>2, FaceHandshakeAssumption DEF CanAdd
    <3>3. /\ sem'[camBuf]["W"] = sem[camBuf]["W"] - 1
          /\ \A j \in Buffers, m \in Locks :
                (j # camBuf \/ m # "W") => sem'[j][m] = sem[j][m]
      BY <1>0, <2>2, <3>1, TakeEffect
    <3>4. \A i \in Buffers : i # camBuf => sem'[i]["W"] = sem[i]["W"]
      BY <1>0, <3>3
    <3>5. \A i \in Buffers : Ready(i)' => Ready(i)
      BY <1>9, <3>1, <3>2, <3>4 DEF CamHas, CamWorks
    <3> QED
      BY <1>1, <2>1, <3>5
  <2>3. CASE ~CanAdd("streamer", camBuf, "W", -1)
    <3>1. sem' = sem /\ cam' = "scan"
      BY <1>9, <2>3 DEF CamScans, semaphores
    <3> QED
      BY <1>1, <2>1, <3>1 DEF CamHas, CamWorks
  <2> QED
    BY <2>2, <2>3
<1>10. CASE CamCompresses
  <2>1. /\ Trusted /\ CamWorks /\ CamWorks' /\ top' = rgb[camBuf]
        /\ UNCHANGED <<sem, rgb, camBuf, published, face, faceBuf>>
    BY <1>10 DEF CamCompresses, semaphores, detector, Trusted, CamRuns,
       CamWorks
  <2> QED
    BY <1>1, <2>1 DEF CamHas
<1>11. CASE CamPublishes
  <2>1. /\ Trusted /\ CamWorks /\ CamWorks' /\ cam = "publish" /\ cam' = "free"
        /\ published' = [first |-> top, last |-> rgb[camBuf]]
        /\ UNCHANGED <<sem, rgb, camBuf, face, faceBuf>>
    BY <1>11 DEF CamPublishes, semaphores, detector, Trusted, CamRuns,
       CamWorks
  <2>2. rgb[camBuf].marked /\ top = rgb[camBuf]
    BY <1>0, <1>1, <2>1 DEF CamHas
  <2> QED
    BY <1>1, <2>1, <2>2 DEF CamHas
<1>12. CASE CamFrees
  <2>1. /\ Trusted /\ cam' = "scan"
        /\ UNCHANGED <<rgb, top, published, face, faceBuf>>
    BY <1>12 DEF CamFrees, detector, Trusted, CamRuns, CamWorks
  <2>2. \A i \in Buffers : sem'[i]["W"] = sem[i]["W"]
    BY <1>0, <1>12, FreeEffect DEF CamFrees
  <2> QED
    BY <1>1, <2>1, <2>2 DEF CamHas, CamWorks
<1>13. CASE StreamerDies \/ StreamerStarts \/ SetsLock
  BY <1>13 DEF StreamerDies, StreamerStarts, SetsLock, Trusted, CamRuns,
     CamWorks
<1>14. CASE Forks
  <2>1. /\ \A i \in Buffers : ~(sem'[i]["W"] > 0)
        /\ face' # "free" /\ cam' = "scan"
    BY <1>14 DEF Forks, semaphores, Trusted, CamRuns, CamWorks, FaceWorks
  <2>2. published' = Nothing
    BY <1>0, <1>14 DEF Forks, UndoInv, CamRuns, CamWorks
  <2> QED
    BY <2>1, <2>2 DEF CamHas, CamWorks
<1>15. CASE FaceOpens
  <2>1. /\ Trusted /\ UNCHANGED <<semaphores, rgb, streamer>>
        /\ face' = "free" => face = "free" /\ faceBuf' = faceBuf
    BY <1>15 DEF FaceOpens, streamer, Trusted, CamRuns, CamWorks
  <2> QED
    BY <1>1, <2>1 DEF semaphores, streamer, CamHas, CamWorks
<1> QED
  BY <1>2, <1>3, <1>4, <1>5, <1>6, <1>7, <1>8, <1>9, <1>10, <1>11, <1>12,
     <1>13, <1>14, <1>15 DEF Next, Facedetection, CamThread, vars, semaphores,
     streamer, detector, LoadFails

-----------------------------------------------------------------------------
(* Every step keeps all the parts.                                           *)
LEMMA Steps == IInv /\ [Next]_vars => IInv'
BY TypeStep, UndoStep, HandStep, SetStep, DetectorStep, BalanceStep, PictureStep
   DEF IInv

(* They hold of every state: the tokens keep the processes apart,            *)
(* and the undo counters keep a death from making a token.                   *)
THEOREM Invariance == Spec => []IInv
BY InitInv, Steps, PTL DEF Spec

(* semop's range checks and the kernel's clamping at a death bound the       *)
(* semaphores and the undo counters, whatever the processes do.              *)
THEOREM TypeCorrect == Spec => []TypeOK
<1>1. IInv => TypeOK
  BY DEF IInv
<1> QED
  BY Invariance, <1>1, PTL

(* A published picture is whole and was searched for faces, for any number   *)
(* of buffers and of deaths, unless mjpg_streamer came back in the middle of *)
(* a picture or facedetection left its undo to a successor.                  *)
THEOREM MarkedPictures == Spec => []PublishesMarkedPictures
<1>1. IInv => PublishesMarkedPictures
  BY DEF IInv, UndoInv, PictureInv, Trusted, PublishesMarkedPictures
<1> QED
  BY Invariance, <1>1, PTL

(* "while(freesem(...)<0);" succeeds at once: for any number of buffers and  *)
(* any range of the semaphores, as long as nobody has died.                  *)
THEOREM NeverSpins == Spec => []FreesAtOnce
<1>1. ASSUME IInv, deaths = 0, face = "free"
      PROVE  CanAdd("detector", faceBuf, "W", 1)
  <2> DEFINE w == sem[faceBuf]["W"]
             a == undo["detector"][faceBuf]["R"]
             b == undo["detector"][faceBuf]["W"]
  <2>1. /\ SemMax \in Nat \ {0}
        /\ a \in -SemMax - 1 .. SemMax /\ b \in -SemMax - 1 .. SemMax
    BY <1>1, FaceHandshakeAssumption DEF IInv, TypeOK, Locks, Processes
  <2>2. Trusted /\ faceBuf \in Buffers
    BY <1>1 DEF IInv, TypeOK, BalanceInv
  <2>3. w = 0
    BY <1>1, <2>2, OneHolder DEF IInv, FaceWorks
  <2>4. a + b = 1
    BY <1>1, <2>2 DEF IInv, DetectorInv, One, FaceHas, FaceWorks
  <2> SUFFICES w + 1 \in 0 .. SemMax /\ b - 1 \in -SemMax - 1 .. SemMax
    BY DEF CanAdd
  <2> HIDE DEF w, a, b
  <2> QED
    BY <2>1, <2>3, <2>4
<1>2. ASSUME IInv, deaths = 0, cam = "free"
      PROVE  CanAdd("streamer", camBuf, "R", 1)
  <2> DEFINE r == sem[camBuf]["R"]
             w == sem[camBuf]["W"]
             a == undo["streamer"][camBuf]["R"]
             b == undo["streamer"][camBuf]["W"]
             h == One(FaceHas(camBuf))
             u == One(camBuf >= released)
             v == One(camBuf < released)
  <2>1. /\ SemMax \in Nat \ {0} /\ r \in Nat /\ w \in Nat
        /\ a \in -SemMax - 1 .. SemMax /\ b \in -SemMax - 1 .. SemMax
        /\ h \in {0, 1} /\ u \in {0, 1} /\ v \in {0, 1}
    BY <1>2, FaceHandshakeAssumption DEF IInv, TypeOK, Locks, Processes, One
  <2>2. /\ Balance(camBuf) /\ Trusted /\ Served /\ camBuf \in Buffers
    BY <1>2 DEF IInv, TypeOK, BalanceInv
  <2>3. One(CamHas(camBuf)) = 1
    BY <1>2 DEF One, CamHas, CamWorks
  <2>4. r + w + h + 1 + u <= 1
    BY <1>2, <2>2, <2>3 DEF IInv, HandInv, Tokens
  <2>5. a + b = 1 - v
    BY <2>2, <2>3 DEF Balance
  <2> SUFFICES r + 1 \in 0 .. SemMax /\ a - 1 \in -SemMax - 1 .. SemMax
    BY DEF CanAdd
  <2> HIDE DEF r, w, a, b, h, u, v
  <2> QED
    BY <2>1, <2>4, <2>5
<1>3. IInv => FreesAtOnce
  BY <1>1, <1>2 DEF FreesAtOnce
<1> QED
  BY Invariance, <1>3, PTL

-----------------------------------------------------------------------------
(***************************************************************************)
(* The order of the pictures, with the two buffers of the code.  A picture *)
(* that waits for cam_thread is never more than one frame older than the   *)
(* one published last, because facedetection has only the other buffer.    *)
(***************************************************************************)

\* cam_thread has the buffer, or could take it: its undo counter has room.
Ready(i) == CamHas(i) \/ (sem[i]["W"] > 0 /\ undo["streamer"][i]["W"] < SemMax)

\* Facedetection has a buffer, and a frame for it.
Filled(i) == face \in {"convert", "mark", "free"} /\ faceBuf = i

\* The buffer cam_thread gets to first holds, or will hold, at most the frame
\* after that of the buffer it gets to next.
NotLapped(i) ==
    (Ready(i) /\ camBuf # i /\ cam # "free") =>
        /\ Full(camBuf) => rgb[camBuf].frame <= rgb[i].frame + 1
        /\ (~Full(camBuf) /\ face # "none") =>
               taken <= rgb[i].frame + One(Filled(camBuf))

\* A write lock is 1 at most, and 0 while cam_thread has it.
WriteInv == Trusted => \A i \in Buffers : sem[i]["W"] + One(CamHas(i)) <= 1

\* No buffer holds a frame that facedetection has not taken yet.
TakenInv == \A i \in Buffers : rgb[i].frame <= taken

\* What is ready is at most one frame older than the picture published last.
AgeInv ==
    Trusted =>
        /\ face \in {"mark", "free"} => rgb[faceBuf].frame = taken
        /\ published.last.frame <= taken
        /\ \A i \in Buffers :
              Ready(i) => published.last.frame <= rgb[i].frame + 1
        /\ \A i \in Buffers : NotLapped(i)

OrderInv == IInv /\ WriteInv /\ TakenInv /\ AgeInv

SameWrites ==
    \A i \in Buffers :
        /\ sem'[i]["W"] = sem[i]["W"]
        /\ undo'["streamer"][i]["W"] = undo["streamer"][i]["W"]

(* There is one other buffer, and it is the next one.                        *)
LEMMA TwoBuffers ==
    ASSUME NBuffers = 2, NEW i \in Buffers, NEW j \in Buffers, NEW k \in Buffers
    PROVE  /\ (i # k /\ j # k) => i = j
           /\ After(i) # i
BY DEF Buffers, After

(* What the steps below use of the types.                                    *)
LEMMA OrderTypes ==
    ASSUME TypeOK
    PROVE  /\ "R" \in Locks /\ "W" \in Locks /\ "R" # "W"
           /\ "streamer" \in Processes /\ "detector" \in Processes
           /\ "streamer" # "detector"
           /\ faceBuf \in Buffers /\ camBuf \in Buffers /\ taken \in Nat
           /\ rgb \in [Buffers -> Picture]
           /\ \A i \in Buffers : sem[i]["W"] \in Nat /\ rgb[i].frame \in Nat
           /\ published.last.frame \in Nat
<1>1. /\ "R" \in Locks /\ "W" \in Locks
      /\ "streamer" \in Processes /\ "detector" \in Processes
  BY DEF Locks, Processes
<1>2. \A i \in Buffers : sem[i]["W"] \in Nat
  BY <1>1, FaceHandshakeAssumption DEF TypeOK
<1>3. \A i \in Buffers : rgb[i].frame \in Nat
  BY DEF TypeOK, Picture
<1>4. published.last.frame \in Nat
  BY DEF TypeOK, Picture
<1> QED
  BY <1>1, <1>2, <1>3, <1>4 DEF TypeOK

(* Only getsem by cam_thread, freesem by facedetection, a death, and SETVAL  *)
(* by a new mjpg_streamer change a write lock or the plugin's counter of one.*)
LEMMA WritesKept ==
    ASSUME TypeOK, [Next]_vars, ~StreamerDies, ~SetsLock, ~FaceDies,
           ~FaceFrees, ~(CamScans /\ CanAdd("streamer", camBuf, "W", -1))
    PROVE  SameWrites
<1>0. /\ "R" \in Locks /\ "W" \in Locks /\ "R" # "W"
      /\ "streamer" \in Processes /\ "detector" \in Processes
      /\ faceBuf \in Buffers /\ camBuf \in Buffers
  BY OrderTypes
<1>1. CASE UNCHANGED semaphores
  BY <1>1 DEF SameWrites, semaphores
<1>2. ASSUME NEW p \in Processes, NEW i \in Buffers,
             \A j \in Buffers, m \in Locks :
                (j # i \/ m # "R") => sem'[j][m] = sem[j][m],
             \A q \in Processes, j \in Buffers, m \in Locks :
                (q # p \/ j # i \/ m # "R") => undo'[q][j][m] = undo[q][j][m]
      PROVE  SameWrites
  BY <1>0, <1>2 DEF SameWrites
<1>3. CASE FaceScans
  <2>1. CASE CanAdd("detector", faceBuf, "R", -1)
    <3>1. Add("detector", faceBuf, "R", -1)
      BY <1>3, <2>1 DEF FaceScans
    <3>2. /\ \A j \in Buffers, m \in Locks :
                (j # faceBuf \/ m # "R") => sem'[j][m] = sem[j][m]
          /\ \A q \in Processes, j \in Buffers, m \in Locks :
                (q # "detector" \/ j # faceBuf \/ m # "R") =>
                    undo'[q][j][m] = undo[q][j][m]
      BY <1>0, <2>1, <3>1, TakeEffect
    <3> QED
      BY <1>0, <3>2 DEF SameWrites
  <2>2. CASE ~CanAdd("detector", faceBuf, "R", -1)
    BY <1>1, <1>3, <2>2 DEF FaceScans
  <2> QED
    BY <2>1, <2>2
<1>4. CASE RunReleases
  <2>1. released \in Buffers
    BY <1>4, FaceHandshakeAssumption DEF RunReleases, TypeOK, Buffers
  <2>2. CASE CanAdd("streamer", released, "R", 1)
    <3>1. Add("streamer", released, "R", 1)
      BY <1>4, <2>2 DEF RunReleases
    <3>2. /\ \A j \in Buffers, m \in Locks :
                (j # released \/ m # "R") => sem'[j][m] = sem[j][m]
          /\ \A q \in Processes, j \in Buffers, m \in Locks :
                (q # "streamer" \/ j # released \/ m # "R") =>
                    undo'[q][j][m] = undo[q][j][m]
      BY <1>0, <2>1, <2>2, <3>1, FreeEffect
    <3> QED
      BY <1>0, <3>2 DEF SameWrites
  <2>3. CASE ~CanAdd("streamer", released, "R", 1)
    BY <1>1, <1>4, <2>3 DEF RunReleases
  <2> QED
    BY <2>2, <2>3
<1>5. CASE CamFrees
  <2>1. CanAdd("streamer", camBuf, "R", 1) /\ Add("streamer", camBuf, "R", 1)
    BY <1>5 DEF CamFrees
  <2> QED
    BY <1>0, <1>2, <2>1, FreeEffect
<1> QED
  BY <1>1, <1>3, <1>4, <1>5
     DEF Next, Facedetection, CamThread, vars, FaceGrabs, FaceConverts,
         FaceMarks, FaceOpens, LoadFails, CamScans, CamCompresses,
         CamPublishes, StreamerStarts, Forks

(* getsem by cam_thread, when it succeeds.                                   *)
LEMMA CamTakesLock ==
    ASSUME TypeOK, CamScans, CanAdd("streamer", camBuf, "W", -1)
    PROVE  /\ sem'[camBuf]["W"] = sem[camBuf]["W"] - 1 /\ sem[camBuf]["W"] > 0
           /\ undo["streamer"][camBuf]["W"] < SemMax
           /\ cam = "scan" /\ cam' = "compress" /\ camBuf' = camBuf
           /\ \A i \in Buffers :
                 i # camBuf =>
                     /\ sem'[i]["W"] = sem[i]["W"]
                     /\ undo'["streamer"][i]["W"] = undo["streamer"][i]["W"]
<1>0. /\ "W" \in Locks /\ "streamer" \in Processes /\ camBuf \in Buffers
      /\ sem[camBuf]["W"] \in Nat
  BY OrderTypes
<1>1. /\ Add("streamer", camBuf, "W", -1)
      /\ cam = "scan" /\ cam' = "compress" /\ camBuf' = camBuf
  BY DEF CamScans
<1>2. /\ sem'[camBuf]["W"] = sem[camBuf]["W"] - 1
      /\ \A j \in Buffers, m \in Locks :
            (j # camBuf \/ m # "W") => sem'[j][m] = sem[j][m]
      /\ \A q \in Processes, j \in Buffers, m \in Locks :
            (q # "streamer" \/ j # camBuf \/ m # "W") =>
                undo'[q][j][m] = undo[q][j][m]
  BY <1>0, <1>1, TakeEffect
<1>3. sem[camBuf]["W"] > 0 /\ undo["streamer"][camBuf]["W"] < SemMax
  <2> DEFINE w == sem[camBuf]["W"]
             u == undo["streamer"][camBuf]["W"]
  <2>1. w \in Nat /\ u \in Int /\ SemMax \in Nat
    BY <1>0, FaceHandshakeAssumption DEF TypeOK
  <2>2. w - 1 >= 0 /\ u + 1 <= SemMax
    BY <2>1 DEF CanAdd
  <2> SUFFICES w > 0 /\ u < SemMax
    OBVIOUS
  <2> HIDE DEF w, u
  <2> QED
    BY <2>1, <2>2
<1> QED
  BY <1>0, <1>1, <1>2, <1>3

(* Facedetection's death makes no write lock free.                           *)
LEMMA DeathLowersWriteLocks ==
    ASSUME TypeOK, UndoInv, FaceDies, NEW i \in Buffers
    PROVE  /\ sem'[i]["W"] <= sem[i]["W"]
           /\ undo'["streamer"][i]["W"] = undo["streamer"][i]["W"]
<1>1. Undone("detector") /\ undo["detector"][i]["W"] <= 0
  BY DEF FaceDies, UndoInv, WriteUndoDown
<1>2. /\ "W" \in Locks /\ "detector" \in Processes /\ "streamer" \in Processes
      /\ "streamer" # "detector"
  BY DEF Locks, Processes
<1>3. sem'[i]["W"] <= sem[i]["W"]
  BY <1>1, <1>2, UndoneEffect
<1>4. undo'["streamer"][i]["W"] =
          IF "streamer" = "detector" THEN 0 ELSE undo["streamer"][i]["W"]
  <2>1. \A q \in Processes, j \in Buffers, m \in Locks :
           undo'[q][j][m] = IF q = "detector" THEN 0 ELSE undo[q][j][m]
    BY <1>1, <1>2, UndoneEffect
  <2> QED
    BY <1>2, <2>1
<1> QED
  BY <1>2, <1>3, <1>4

(* A write lock is 1 at most as long as there is a facedetection or one is   *)
(* coming, by the tokens; otherwise nobody frees one.                        *)
LEMMA WriteStep == IInv /\ WriteInv /\ [Next]_vars => WriteInv'
<1> SUFFICES ASSUME IInv, WriteInv, [Next]_vars, Trusted', NEW i \in Buffers
             PROVE  sem'[i]["W"] + One(CamHas(i))' <= 1
  BY DEF WriteInv
<1>0. IInv' /\ TypeOK /\ UndoInv /\ TypeOK'
  BY Steps DEF IInv
<1>1. CASE Served'
  <2> DEFINE r == sem'[i]["R"]
             w == sem'[i]["W"]
             h == One(FaceHas(i))'
             c == One(CamHas(i))'
             u == One(i >= released)'
  <2>1. r \in Nat /\ w \in Nat /\ h \in {0, 1} /\ u \in {0, 1} /\ c \in {0, 1}
    BY <1>0, FaceHandshakeAssumption DEF TypeOK, Locks, One
  <2>2. r + w + h + c + u <= 1
    BY <1>0, <1>1 DEF IInv, HandInv, Tokens
  <2> HIDE DEF r, w, h, c, u
  <2>3. w + c <= 1
    BY <2>1, <2>2
  <2> QED
    BY <2>3 DEF w, c
<1>2. CASE ~Served'
  <2>0. sem[i]["W"] \in Nat /\ sem'[i]["W"] \in Nat /\ camBuf \in Buffers
    BY <1>0, OrderTypes, FaceHandshakeAssumption DEF TypeOK, Locks
  <2>1. /\ ~StreamerDies /\ ~StreamerStarts /\ ~SetsLock /\ ~Forks
        /\ ~FaceFrees /\ ~FaceOpens
    <3>1. ~StreamerDies /\ ~StreamerStarts /\ ~SetsLock
      BY DEF StreamerDies, StreamerStarts, SetsLock, Trusted, CamRuns,
         CamWorks
    <3>2. ~Forks /\ ~FaceFrees
      BY <1>0, <1>2 DEF Forks, FaceFrees, Served, TypeOK
    <3>3. ~FaceOpens
      BY <1>2 DEF FaceOpens, Served
    <3> QED
      BY <3>1, <3>2, <3>3
  <2>2. Trusted
    <3>1. CASE \/ FaceScans \/ FaceGrabs \/ FaceConverts \/ FaceMarks
               \/ FaceDies \/ LoadFails \/ UNCHANGED vars
      <4>1. UNCHANGED <<cam, camBuf, released>>
        BY <3>1 DEF vars, streamer, FaceScans, FaceGrabs, FaceConverts,
           FaceMarks, FaceDies, LoadFails
      <4>2. ~overtaken
        BY <3>1 DEF Trusted, vars, FaceScans, FaceGrabs, FaceConverts,
           FaceMarks, FaceDies, LoadFails
      <4> QED
        BY <4>1, <4>2 DEF Trusted, CamRuns, CamWorks
    <3>2. CASE RunReleases \/ CamThread
      BY <3>2 DEF RunReleases, CamThread, CamScans, CamCompresses,
         CamPublishes, CamFrees, Trusted, CamRuns, CamWorks
    <3> QED
      BY <2>1, <3>1, <3>2 DEF Next, Facedetection
  <2>3. sem[i]["W"] + One(CamHas(i)) <= 1
    BY <2>2 DEF WriteInv
  <2>4. CASE FaceDies
    <3>1. sem'[i]["W"] <= sem[i]["W"]
      BY <1>0, <2>4, DeathLowersWriteLocks
    <3>2. cam' = cam /\ camBuf' = camBuf
      BY <2>4 DEF FaceDies, streamer
    <3> QED
      BY <2>0, <2>3, <3>1, <3>2 DEF One, CamHas, CamWorks
  <2>5. CASE CamScans /\ CanAdd("streamer", camBuf, "W", -1)
    <3>1. /\ sem'[camBuf]["W"] = sem[camBuf]["W"] - 1 /\ camBuf' = camBuf
          /\ cam = "scan" /\ cam' = "compress"
          /\ i # camBuf => sem'[i]["W"] = sem[i]["W"]
      BY <1>0, <2>5, CamTakesLock
    <3> QED
      BY <2>0, <2>3, <3>1 DEF One, CamHas, CamWorks
  <2>6. CASE ~FaceDies /\ ~(CamScans /\ CanAdd("streamer", camBuf, "W", -1))
    <3>1. sem'[i]["W"] = sem[i]["W"]
      BY <1>0, <2>1, <2>6, WritesKept DEF SameWrites
    <3>2. CamHas(i)' => CamHas(i)
      BY <2>1, <2>6 DEF Next, Facedetection, CamThread, vars, streamer,
         FaceScans, FaceGrabs, FaceConverts, FaceMarks, RunReleases, CamScans,
         CamCompresses, CamPublishes, CamFrees, LoadFails, CamHas, CamWorks
    <3> QED
      BY <2>0, <2>3, <3>1, <3>2 DEF One
  <2> QED
    BY <2>4, <2>5, <2>6
<1> QED
  BY <1>1, <1>2

(* The frames in the buffers are no newer than the last one taken.           *)
LEMMA TakenStep == TypeOK /\ TakenInv /\ [Next]_vars => TakenInv'
<1> SUFFICES ASSUME TypeOK, TakenInv, [Next]_vars, NEW i \in Buffers
             PROVE  rgb'[i].frame <= taken'
  BY DEF TakenInv
<1>0. /\ faceBuf \in Buffers /\ taken \in Nat /\ rgb \in [Buffers -> Picture]
      /\ rgb[i].frame \in Nat /\ rgb[i].frame <= taken
  BY OrderTypes DEF TakenInv
<1>1. CASE FaceConverts
  BY <1>0, <1>1 DEF FaceConverts
<1>2. CASE FaceMarks
  <2>1. rgb'[i].frame = rgb[i].frame /\ taken' = taken
    BY <1>0, <1>2 DEF FaceMarks, Picture
  <2> QED
    BY <1>0, <2>1
<1>3. CASE FaceGrabs
  BY <1>0, <1>3 DEF FaceGrabs
<1>4. CASE UNCHANGED <<rgb, taken>>
  BY <1>0, <1>4
<1>5. CASE FaceOpens
  BY <1>0, <1>5, FaceHandshakeAssumption DEF FaceOpens
<1> QED
  BY <1>1, <1>2, <1>3, <1>4, <1>5
     DEF Next, Facedetection, CamThread, vars, detector, FaceScans, FaceFrees,
         FaceDies, RunReleases, CamScans, CamCompresses, CamPublishes,
         CamFrees, StreamerDies, StreamerStarts, SetsLock, Forks, LoadFails

(* A step that leaves the pictures and who waits for them alone.             *)
LEMMA AgeKept ==
    ASSUME AgeInv, Trusted, UNCHANGED <<taken, camBuf, published>>,
           \A i \in Buffers :
               /\ rgb'[i].frame = rgb[i].frame /\ Full(i)' = Full(i)
               /\ Ready(i)' = Ready(i) /\ Filled(i)' = Filled(i),
           camBuf \in Buffers,
           cam' = "free" <=> cam = "free",
           face = "none" => face' = "none",
           face' \in {"mark", "free"} => rgb'[faceBuf'].frame = taken'
    PROVE  AgeInv'
<1>1. /\ published.last.frame <= taken
      /\ \A i \in Buffers :
            Ready(i) => published.last.frame <= rgb[i].frame + 1
      /\ \A i \in Buffers : NotLapped(i)
  BY DEF AgeInv
<1>2. \A i \in Buffers :
         Ready(i)' => published'.last.frame <= rgb'[i].frame + 1
  BY <1>1
<1>3. ASSUME NEW i \in Buffers
      PROVE  NotLapped(i)'
  BY <1>1 DEF NotLapped, One
<1> QED
  BY <1>1, <1>2, <1>3 DEF AgeInv

(* While facedetection has a buffer it is not ready for cam_thread.          *)
LEMMA FaceHoldsEmpty ==
    ASSUME IInv, Trusted, FaceWorks
    PROVE  ~Full(faceBuf) /\ ~Ready(faceBuf)
<1>1. sem[faceBuf]["W"] = 0 /\ ~CamHas(faceBuf)
  BY OneHolder DEF IInv
<1> QED
  BY <1>1 DEF Full, Ready

(* A new frame for the other buffer is the next one at most.                 *)
LEMMA GrabStep ==
    ASSUME NBuffers = 2, OrderInv, FaceGrabs, Trusted'
    PROVE  AgeInv'
<1>1. /\ face = "grab" /\ face' = "convert" /\ taken' \in {taken, taken + 1}
      /\ UNCHANGED <<semaphores, rgb, cam, camBuf, published, faceBuf>>
      /\ Trusted
  BY DEF FaceGrabs, streamer, Trusted, CamRuns, CamWorks
<1>2. /\ faceBuf \in Buffers /\ camBuf \in Buffers /\ taken \in Nat
      /\ \A i \in Buffers : rgb[i].frame \in Nat
      /\ published.last.frame \in Nat
  BY OrderTypes DEF OrderInv, IInv
<1>3. ~Ready(faceBuf)
  BY <1>1, FaceHoldsEmpty DEF OrderInv, FaceWorks
<1>4. /\ published.last.frame <= taken
      /\ \A i \in Buffers :
            Ready(i) => published.last.frame <= rgb[i].frame + 1
      /\ \A i \in Buffers : NotLapped(i)
  BY <1>1 DEF OrderInv, AgeInv
<1>5. \A i \in Buffers : Ready(i)' = Ready(i) /\ Full(i)' = Full(i)
  BY <1>1 DEF Ready, Full, CamHas, CamWorks, semaphores
<1>6. ASSUME NEW i \in Buffers
      PROVE  NotLapped(i)'
  <2> SUFFICES ASSUME Ready(i), camBuf # i, cam # "free"
               PROVE  /\ Full(camBuf) =>
                             rgb[camBuf].frame <= rgb[i].frame + 1
                      /\ ~Full(camBuf) =>
                             taken' <= rgb[i].frame + One(Filled(camBuf))'
    BY <1>1, <1>2, <1>5 DEF NotLapped
  <2>1. faceBuf = camBuf
    BY <1>2, <1>3, TwoBuffers
  <2>2. One(Filled(camBuf)) = 0 /\ One(Filled(camBuf))' = 1
    BY <1>1, <2>1 DEF One, Filled
  <2> QED
    BY <1>1, <1>2, <1>4, <2>2 DEF NotLapped
<1> QED
  BY <1>1, <1>2, <1>4, <1>5, <1>6 DEF AgeInv

(* The frame is converted into a buffer that nobody waits for.               *)
LEMMA ConvertStep ==
    ASSUME OrderInv, FaceConverts, Trusted'
    PROVE  AgeInv'
<1>1. /\ face = "convert" /\ face' = "mark" /\ FaceWorks
      /\ rgb' = [rgb EXCEPT ![faceBuf] = [frame |-> taken, marked |-> FALSE]]
      /\ UNCHANGED <<semaphores, cam, camBuf, published, faceBuf, taken>>
      /\ Trusted
  BY DEF FaceConverts, streamer, Trusted, CamRuns, CamWorks, FaceWorks
<1>2. /\ faceBuf \in Buffers /\ camBuf \in Buffers
      /\ rgb \in [Buffers -> Picture]
  BY OrderTypes DEF OrderInv, IInv
<1>3. ~Full(faceBuf) /\ ~Ready(faceBuf)
  BY <1>1, FaceHoldsEmpty DEF OrderInv
<1>4. /\ published.last.frame <= taken
      /\ \A i \in Buffers :
            Ready(i) => published.last.frame <= rgb[i].frame + 1
      /\ \A i \in Buffers : NotLapped(i)
  BY <1>1 DEF OrderInv, AgeInv
<1>5. \A i \in Buffers : /\ Ready(i)' = Ready(i) /\ Full(i)' = Full(i)
                         /\ Filled(i)' = Filled(i)
                         /\ i # faceBuf => rgb'[i].frame = rgb[i].frame
  BY <1>1, <1>2 DEF Ready, Full, CamHas, CamWorks, semaphores, Filled
<1>6. rgb'[faceBuf].frame = taken
  BY <1>1, <1>2
<1>7. ASSUME NEW i \in Buffers
      PROVE  NotLapped(i)'
  BY <1>1, <1>2, <1>3, <1>4, <1>5 DEF NotLapped, One
<1>8. \A i \in Buffers :
         Ready(i)' => published'.last.frame <= rgb'[i].frame + 1
  BY <1>1, <1>3, <1>4, <1>5
<1> QED
  BY <1>1, <1>4, <1>6, <1>7, <1>8 DEF AgeInv

(* The buffer facedetection frees holds the last frame taken.                *)
LEMMA FaceFreeStep ==
    ASSUME NBuffers = 2, OrderInv, FaceFrees, Trusted'
    PROVE  AgeInv'
<1>1. /\ face = "free" /\ face' = "scan" /\ FaceWorks
      /\ UNCHANGED <<rgb, cam, camBuf, published, taken>>
      /\ Trusted
  BY DEF FaceFrees, streamer, Trusted, CamRuns, CamWorks, FaceWorks
<1>2. /\ faceBuf \in Buffers /\ camBuf \in Buffers /\ taken \in Nat
      /\ \A i \in Buffers : sem[i]["W"] \in Nat /\ rgb[i].frame \in Nat
      /\ published.last.frame \in Nat
  BY OrderTypes DEF OrderInv, IInv
<1>3. ~Full(faceBuf)
  BY <1>1, FaceHoldsEmpty DEF OrderInv
<1>4. /\ published.last.frame <= taken /\ rgb[faceBuf].frame = taken
      /\ \A i \in Buffers :
            Ready(i) => published.last.frame <= rgb[i].frame + 1
      /\ \A i \in Buffers : NotLapped(i) /\ rgb[i].frame <= taken
  BY <1>1 DEF OrderInv, AgeInv, TakenInv
<1>5. /\ \A i \in Buffers :
            /\ i # faceBuf => Ready(i)' = Ready(i) /\ Full(i)' = Full(i)
            /\ i = faceBuf => Full(i)'
  <2>1. /\ sem'[faceBuf]["W"] = sem[faceBuf]["W"] + 1
        /\ \A i \in Buffers :
              /\ i # faceBuf => sem'[i]["W"] = sem[i]["W"]
              /\ undo'["streamer"][i]["W"] = undo["streamer"][i]["W"]
    BY FaceFreesLock DEF OrderInv, IInv
  <2>2. sem'[faceBuf]["W"] > 0
    BY <1>2, <2>1
  <2>3. \A i \in Buffers : CamHas(i)' = CamHas(i)
    BY <1>1 DEF CamHas, CamWorks
  <2>4. \A i \in Buffers : i = faceBuf => Full(i)'
    BY <2>2 DEF Full
  <2> QED
    BY <2>1, <2>3, <2>4 DEF Ready, Full
<1>6. \A i \in Buffers : One(Filled(i))' = 0
  BY <1>1 DEF Filled, One
<1>7. \A i \in Buffers :
         Ready(i)' => published'.last.frame <= rgb'[i].frame + 1
  BY <1>1, <1>2, <1>4, <1>5
<1>8. ASSUME NEW i \in Buffers
      PROVE  NotLapped(i)'
  <2> SUFFICES ASSUME Ready(i)', camBuf # i, cam # "free"
               PROVE  /\ Full(camBuf)' =>
                             rgb[camBuf].frame <= rgb[i].frame + 1
                      /\ ~Full(camBuf)' => taken <= rgb[i].frame
    BY <1>1, <1>2, <1>6 DEF NotLapped
  <2>1. CASE i = faceBuf
    BY <1>2, <1>4, <2>1
  <2>2. CASE i # faceBuf
    <3>1. camBuf = faceBuf /\ Ready(i)
      BY <1>2, <1>5, <2>2, TwoBuffers
    <3>2. taken <= rgb[i].frame + One(Filled(camBuf))
      <4>1. NotLapped(i) /\ camBuf # i /\ cam # "free" /\ face # "none"
        BY <1>1, <1>4
      <4>2. Ready(i) /\ ~Full(camBuf)
        BY <1>3, <3>1
      <4> QED
        BY <4>1, <4>2 DEF NotLapped
    <3>3. One(Filled(camBuf)) \in {0, 1}
      BY DEF One
    <3>4. rgb[camBuf].frame <= rgb[i].frame + 1
      BY <1>2, <1>4, <3>1, <3>2, <3>3
    <3>5. Full(camBuf)'
      BY <1>1, <1>2, <1>5, <3>1 DEF Full, CamHas, CamWorks
    <3> QED
      BY <3>4, <3>5
  <2> QED
    BY <2>1, <2>2
<1> QED
  BY <1>1, <1>2, <1>4, <1>7, <1>8 DEF AgeInv

(* cam_thread takes the buffer it has come to, passes over one that it       *)
(* cannot take, publishes the one it has, and goes on to the other.          *)
LEMMA CamStep ==
    ASSUME NBuffers = 2, OrderInv, CamScans \/ CamPublishes \/ CamFrees,
           [Next]_vars, Trusted'
    PROVE  AgeInv'
<1>1. /\ Trusted /\ ~StreamerDies /\ ~SetsLock /\ ~FaceDies /\ ~FaceFrees
      /\ UNCHANGED <<rgb, face, faceBuf, taken>>
  BY DEF CamScans, CamPublishes, CamFrees, detector, Trusted, CamRuns,
     CamWorks, StreamerDies, SetsLock, FaceDies, FaceFrees
<1>2. /\ camBuf \in Buffers /\ taken \in Nat /\ TypeOK
      /\ \A i \in Buffers : sem[i]["W"] \in Nat /\ rgb[i].frame \in Nat
      /\ published.last.frame \in Nat
  BY OrderTypes DEF OrderInv, IInv
<1>3. /\ face \in {"mark", "free"} => rgb[faceBuf].frame = taken
      /\ published.last.frame <= taken
      /\ \A i \in Buffers :
            Ready(i) => published.last.frame <= rgb[i].frame + 1
      /\ \A i \in Buffers : NotLapped(i) /\ rgb[i].frame <= taken
      /\ \A i \in Buffers : sem[i]["W"] + One(CamHas(i)) <= 1
  BY <1>1 DEF OrderInv, AgeInv, TakenInv, WriteInv
<1>4. \A i \in Buffers : Filled(i)' = Filled(i)
  BY <1>1 DEF Filled
<1>5. CASE CamScans /\ CanAdd("streamer", camBuf, "W", -1)
  <2>1. /\ sem[camBuf]["W"] > 0 /\ undo["streamer"][camBuf]["W"] < SemMax
        /\ cam = "scan" /\ cam' = "compress" /\ camBuf' = camBuf
        /\ \A i \in Buffers :
              i # camBuf =>
                  /\ sem'[i]["W"] = sem[i]["W"]
                  /\ undo'["streamer"][i]["W"] = undo["streamer"][i]["W"]
    BY <1>2, <1>5, CamTakesLock
  <2>2. ASSUME NEW i \in Buffers
        PROVE  Ready(i)' = Ready(i) /\ Full(i)' = Full(i)
    <3>1. CASE i = camBuf
      BY <2>1, <3>1 DEF Ready, Full, CamHas, CamWorks
    <3>2. CASE i # camBuf
      BY <2>1, <3>2 DEF Ready, Full, CamHas, CamWorks
    <3> QED
      BY <3>1, <3>2
  <2>3. published' = published
    BY <1>5 DEF CamScans
  <2> QED
    BY <1>1, <1>2, <1>3, <1>4, <2>1, <2>2, <2>3, AgeKept DEF OrderInv
<1>6. CASE CamScans /\ ~CanAdd("streamer", camBuf, "W", -1)
  <2>1. /\ cam = "scan" /\ cam' = "scan" /\ camBuf' = After(camBuf)
        /\ published' = published /\ UNCHANGED semaphores
    BY <1>6 DEF CamScans
  <2>2. ~Ready(camBuf)
    <3> DEFINE w == sem[camBuf]["W"]
               u == undo["streamer"][camBuf]["W"]
    <3>1. /\ w \in 0 .. SemMax /\ u \in -SemMax - 1 .. SemMax
          /\ SemMax \in Nat \ {0}
      BY <1>2, FaceHandshakeAssumption DEF TypeOK, Locks, Processes
    <3>2. ~(w + (-1) \in 0 .. SemMax /\ u - (-1) \in -SemMax - 1 .. SemMax)
      BY <1>6 DEF CanAdd
    <3> SUFFICES ~(w > 0 /\ u < SemMax)
      BY <2>1 DEF Ready, CamHas, CamWorks
    <3> HIDE DEF w, u
    <3> QED
      BY <3>1, <3>2
  <2>3. \A i \in Buffers : Ready(i)' = Ready(i)
    BY <2>1 DEF Ready, CamHas, CamWorks, semaphores
  <2>4. ASSUME NEW i \in Buffers
        PROVE  NotLapped(i)'
    <3> SUFFICES ASSUME Ready(i), After(camBuf) # i
                 PROVE  FALSE
      BY <2>1, <2>3 DEF NotLapped
    <3>1. i = camBuf
      BY <1>2, TwoBuffers, AfterInBuffers
    <3> QED
      BY <2>2, <3>1
  <2> QED
    BY <1>1, <1>3, <2>1, <2>3, <2>4 DEF AgeInv
<1>7. CASE CamPublishes
  <2>1. /\ cam = "publish" /\ cam' = "free"
        /\ published' = [first |-> top, last |-> rgb[camBuf]]
        /\ UNCHANGED <<semaphores, camBuf>>
    BY <1>7 DEF CamPublishes
  <2>2. /\ published'.last.frame = rgb[camBuf].frame /\ Full(camBuf)
        /\ \A i \in Buffers : Ready(i)' = Ready(i)
    BY <2>1 DEF Full, Ready, CamHas, CamWorks, semaphores
  <2>3. ASSUME NEW i \in Buffers, Ready(i)
        PROVE  rgb[camBuf].frame <= rgb[i].frame + 1
    <3>1. CASE i = camBuf
      BY <1>2, <3>1
    <3>2. CASE i # camBuf
      BY <1>3, <2>1, <2>2, <2>3, <3>2 DEF NotLapped
    <3> QED
      BY <3>1, <3>2
  <2>4. \A i \in Buffers : NotLapped(i)'
    BY <2>1 DEF NotLapped
  <2> QED
    BY <1>1, <1>2, <1>3, <2>2, <2>3, <2>4 DEF AgeInv
<1>8. CASE CamFrees
  <2>1. /\ cam = "free" /\ cam' = "scan" /\ camBuf' = After(camBuf)
        /\ published' = published
    BY <1>8 DEF CamFrees
  <2>2. SameWrites
    BY <1>1, <1>2, <2>1, WritesKept DEF CamScans
  <2>3. sem[camBuf]["W"] = 0
    <3>1. One(CamHas(camBuf)) = 1
      BY <2>1 DEF One, CamHas, CamWorks
    <3>2. sem[camBuf]["W"] + One(CamHas(camBuf)) <= 1 /\ sem[camBuf]["W"] \in Nat
      BY <1>2, <1>3
    <3> QED
      BY <3>1, <3>2
  <2>4. \A i \in Buffers : Ready(i)' => Ready(i) /\ i # camBuf
    BY <2>1, <2>2, <2>3 DEF SameWrites, Ready, CamHas, CamWorks
  <2>5. ASSUME NEW i \in Buffers
        PROVE  NotLapped(i)'
    <3> SUFFICES ASSUME Ready(i)', After(camBuf) # i
                 PROVE  FALSE
      BY <2>1 DEF NotLapped
    <3>1. i = camBuf
      BY <1>2, TwoBuffers, AfterInBuffers
    <3> QED
      BY <2>4, <3>1
  <2> QED
    BY <1>1, <1>3, <2>1, <2>4, <2>5 DEF AgeInv
<1> QED
  BY <1>5, <1>6, <1>7, <1>8

(* Every step keeps the order of the two buffers' frames.                    *)
LEMMA AgeStep ==
    ASSUME NBuffers = 2
    PROVE  OrderInv /\ [Next]_vars => AgeInv'
<1> SUFFICES ASSUME OrderInv, [Next]_vars, Trusted'
             PROVE  AgeInv'
  BY DEF AgeInv
<1>0. /\ camBuf \in Buffers /\ taken \in Nat /\ rgb \in [Buffers -> Picture]
      /\ faceBuf \in Buffers /\ TypeOK /\ TypeOK' /\ UndoInv
      /\ \A i \in Buffers : sem[i]["W"] \in Nat /\ rgb[i].frame \in Nat
  BY OrderTypes, TypeStep DEF OrderInv, IInv
<1>1. CASE FaceGrabs
  BY <1>1, GrabStep
<1>2. CASE FaceConverts
  BY <1>2, ConvertStep
<1>3. CASE FaceFrees
  BY <1>3, FaceFreeStep
<1>4. CASE CamScans \/ CamPublishes \/ CamFrees
  BY <1>4, CamStep
<1>5. CASE StreamerDies \/ StreamerStarts \/ SetsLock
  BY <1>5 DEF StreamerDies, StreamerStarts, SetsLock, Trusted, CamRuns,
     CamWorks
<1>6. CASE Forks
  <2>1. \A i \in Buffers : ~Ready(i)'
    BY <1>6 DEF Forks, semaphores, Trusted, CamRuns, Ready, CamHas, CamWorks
  <2>2. face' \notin {"mark", "free"}
    BY <1>6 DEF Forks, Trusted, CamRuns, CamWorks, FaceWorks
  <2>3. published'.last.frame = 0 /\ taken' = taken
    BY <1>6 DEF Forks, OrderInv, IInv, UndoInv, CamRuns, CamWorks, Nothing,
       NoPicture
  <2> QED
    BY <1>0, <2>1, <2>2, <2>3 DEF AgeInv, NotLapped
<1>7. CASE FaceDies
  <2>1. /\ Trusted /\ face' = "none"
        /\ UNCHANGED <<rgb, cam, camBuf, published, taken>>
    BY <1>7 DEF FaceDies, streamer, Trusted, CamRuns, CamWorks
  <2>2. ASSUME NEW i \in Buffers
        PROVE  (Ready(i)' => Ready(i)) /\ (Full(i)' => Full(i))
    <3>1. /\ sem'[i]["W"] <= sem[i]["W"]
          /\ undo'["streamer"][i]["W"] = undo["streamer"][i]["W"]
      BY <1>0, <1>7, DeathLowersWriteLocks
    <3>2. CamHas(i)' = CamHas(i)
      BY <2>1 DEF CamHas, CamWorks
    <3>3. sem'[i]["W"] > 0 => sem[i]["W"] > 0
      <4>1. sem[i]["W"] \in Int /\ sem'[i]["W"] \in Int
        BY <1>0, FaceHandshakeAssumption DEF TypeOK, Locks
      <4> QED
        BY <3>1, <4>1
    <3> QED
      BY <3>1, <3>2, <3>3 DEF Ready, Full
  <2>3. /\ published.last.frame <= taken
        /\ \A i \in Buffers :
              Ready(i) => published.last.frame <= rgb[i].frame + 1
        /\ \A i \in Buffers : NotLapped(i)
    BY <2>1 DEF OrderInv, AgeInv
  <2>4. ASSUME NEW i \in Buffers
        PROVE  NotLapped(i)'
    <3>1. Full(camBuf)' => Full(camBuf)
      BY <1>0, <2>1, <2>2 DEF Full
    <3> QED
      BY <2>1, <2>2, <2>3, <3>1 DEF NotLapped
  <2>5. \A i \in Buffers :
           Ready(i)' => published'.last.frame <= rgb'[i].frame + 1
    BY <2>1, <2>2, <2>3
  <2> QED
    BY <2>1, <2>3, <2>4, <2>5 DEF AgeInv
<1>8. CASE FaceOpens /\ face = "none"
  <2>1. /\ Trusted /\ Served /\ face' = "scan" /\ taken' = taken + NBuffers
        /\ UNCHANGED <<semaphores, streamer>>
    BY <1>8 DEF FaceOpens, streamer, Trusted, CamRuns, CamWorks, Served
  <2>2. \A i \in Buffers : ~Full(i)
    BY <1>8, <2>1 DEF OrderInv, IInv, UndoInv, DetectorInv
  <2>3. \A i \in Buffers : ~Ready(i)'
    BY <2>1, <2>2 DEF Full, Ready, CamHas, CamWorks, semaphores, streamer
  <2>4. published'.last.frame <= taken'
    <3>1. published.last.frame <= taken /\ published.last.frame \in Nat
      BY <1>0, <2>1, OrderTypes DEF OrderInv, AgeInv
    <3> QED
      BY <1>0, <2>1, <3>1 DEF streamer
  <2> QED
    BY <2>1, <2>3, <2>4 DEF AgeInv, NotLapped
<1>9. CASE \/ FaceScans \/ FaceMarks \/ RunReleases \/ CamCompresses
           \/ LoadFails \/ (FaceOpens /\ face # "none") \/ UNCHANGED vars
  <2>1. /\ Trusted /\ UNCHANGED <<taken, camBuf, published>>
        /\ ~StreamerDies /\ ~SetsLock /\ ~FaceDies /\ ~FaceFrees
        /\ (CamWorks' <=> CamWorks) /\ (cam' = "free" <=> cam = "free")
        /\ face = "none" <=> face' = "none"
        /\ ~(CamScans /\ CanAdd("streamer", camBuf, "W", -1))
    <3>1. Trusted /\ UNCHANGED <<taken, camBuf, published>>
      BY <1>9 DEF FaceScans, FaceMarks, RunReleases, CamCompresses, LoadFails,
         FaceOpens, vars, streamer, detector, Trusted, CamRuns, CamWorks
    <3>2. /\ (CamWorks' <=> CamWorks) /\ (cam' = "free" <=> cam = "free")
          /\ face = "none" <=> face' = "none"
          /\ face # "none" \/ UNCHANGED face
      BY <1>9 DEF FaceScans, FaceMarks, RunReleases, CamCompresses, LoadFails,
         FaceOpens, vars, streamer, detector, CamWorks
    <3>3. ~StreamerDies /\ ~SetsLock /\ ~FaceDies
      BY <3>1, <3>2 DEF StreamerDies, SetsLock, FaceDies, Trusted, CamRuns,
         CamWorks
    <3>4. ~FaceFrees /\ ~(CamScans /\ CanAdd("streamer", camBuf, "W", -1))
      BY <1>9 DEF FaceScans, FaceMarks, RunReleases, CamCompresses, LoadFails,
         FaceOpens, vars, streamer, detector, FaceFrees, CamScans
    <3> QED
      BY <3>1, <3>2, <3>3, <3>4
  <2>2. ASSUME NEW i \in Buffers
        PROVE  rgb'[i].frame = rgb[i].frame /\ Filled(i)' = Filled(i)
    <3>1. CASE FaceMarks
      BY <1>0, <3>1 DEF FaceMarks, Picture, Filled
    <3>2. CASE \/ FaceScans \/ RunReleases \/ CamCompresses
               \/ LoadFails \/ (FaceOpens /\ face # "none")
               \/ UNCHANGED vars
      BY <3>2 DEF FaceScans, RunReleases, CamCompresses, LoadFails, FaceOpens,
         vars, detector, Filled
    <3> QED
      BY <1>9, <3>1, <3>2
  <2>3. SameWrites
    BY <1>0, <2>1, WritesKept
  <2>4. \A i \in Buffers : Full(i)' = Full(i) /\ Ready(i)' = Ready(i)
    BY <2>1, <2>3 DEF SameWrites, Full, Ready, CamHas
  <2>5. face' \in {"mark", "free"} => rgb'[faceBuf'].frame = taken'
    <3>1. face \in {"mark", "free"} => rgb[faceBuf].frame = taken
      BY <2>1 DEF OrderInv, AgeInv
    <3>2. face' \in {"mark", "free"} =>
              face \in {"mark", "free"} /\ faceBuf' = faceBuf
      BY <1>9 DEF FaceScans, FaceMarks, RunReleases, CamCompresses, LoadFails,
         FaceOpens, vars, detector
    <3> QED
      BY <1>0, <2>1, <2>2, <3>1, <3>2
  <2> QED
    BY <1>0, <2>1, <2>2, <2>4, <2>5, AgeKept DEF OrderInv
<1> QED
  BY <1>1, <1>2, <1>3, <1>4, <1>5, <1>6, <1>7, <1>8, <1>9
     DEF Next, Facedetection, CamThread

(* A picture published after a newer one is the frame just before it: with   *)
(* the two buffers of the code, for any range of the semaphores and any      *)
(* number of deaths, with the exceptions of MarkedPictures.                  *)
THEOREM NeverFar ==
    ASSUME NBuffers = 2
    PROVE  Spec => NeverFarBack
<1>1. Init => OrderInv
  <2> SUFFICES ASSUME Init
               PROVE  OrderInv
    OBVIOUS
  <2>1. IInv /\ TypeOK
    BY InitInv DEF IInv
  <2>2. \A i \in Buffers :
           /\ sem[i]["W"] = 0 /\ ~CamHas(i) /\ ~Ready(i) /\ rgb[i].frame = 0
    BY DEF Init, Locks, CamHas, CamWorks, Ready, NoPicture
  <2>3. WriteInv
    BY <2>2 DEF WriteInv, One
  <2>4. TakenInv
    BY <2>2 DEF Init, TakenInv
  <2>5. AgeInv
    BY <2>2 DEF Init, AgeInv, NotLapped, Nothing, NoPicture
  <2> QED
    BY <2>1, <2>3, <2>4, <2>5 DEF OrderInv
<1>2. OrderInv /\ [Next]_vars => OrderInv'
  BY Steps, WriteStep, TakenStep, AgeStep DEF OrderInv, IInv
<1>3. ASSUME OrderInv, [Next]_vars, ~overtaken, published' # Nothing
      PROVE  published'.last.frame >= published.last.frame - 1
  <2>1. /\ camBuf \in Buffers /\ published.last.frame \in Nat
        /\ \A i \in Buffers : rgb[i].frame \in Nat
    BY <1>3, OrderTypes DEF OrderInv, IInv
  <2>2. CASE CamPublishes
    <3>1. /\ published'.last.frame = rgb[camBuf].frame
          /\ Trusted /\ CamHas(camBuf)
      BY <1>3, <2>2 DEF CamPublishes, Trusted, CamRuns, CamHas, CamWorks
    <3>2. published.last.frame <= rgb[camBuf].frame + 1
      BY <1>3, <2>1, <3>1 DEF OrderInv, AgeInv, Ready
    <3> QED
      BY <2>1, <3>1, <3>2
  <2>3. CASE UNCHANGED published
    BY <2>1, <2>3
  <2>4. ~StreamerDies
    BY <1>3 DEF StreamerDies
  <2> QED
    BY <1>3, <2>2, <2>3, <2>4
       DEF Next, Facedetection, CamThread, vars, streamer, FaceScans,
           FaceGrabs, FaceConverts, FaceMarks, FaceFrees, FaceDies,
           RunReleases, CamScans, CamCompresses, CamFrees, StreamerStarts,
           SetsLock, Forks, FaceOpens, LoadFails
<1>4. OrderInv /\ [Next]_vars
        => [(~overtaken /\ published' # Nothing) =>
               published'.last.frame >= published.last.frame - 1]_vars
  BY <1>3
<1> QED
  BY <1>1, <1>2, <1>4, PTL DEF Spec, NeverFarBack

=============================================================================
