---------------------------- MODULE FaceHandshake ----------------------------
(***************************************************************************)
(* mjpg_streamer with the plugin input_opencv, and the process             *)
(* facedetection it starts.  Facedetection owns the camera: it writes each *)
(* frame into one of NBuffers shared buffers and marks the faces in it;    *)
(* the plugin's cam_thread compresses the result for the HTTP clients.     *)
(* Each buffer has two System V semaphores: R_LOCK, taken by facedetection *)
(* and freed by the plugin, and W_LOCK, the other way round.  Every        *)
(* operation is IPC_NOWAIT|SEM_UNDO: the kernel adds up what each process  *)
(* would have to undo, in a counter no wider than the semaphore.           *)
(*                                                                         *)
(* Either process may die and leave the other; nobody restarts             *)
(* facedetection but a new mjpg_streamer, which starts one in any case: it *)
(* loads its cascade first, and gives up when it finds the camera taken.   *)
(***************************************************************************)
EXTENDS Integers

CONSTANTS NBuffers,  \* buffer_n: 2
          SemMax,    \* SEMVMX and SEMAEM: 32767
          MaxDeaths  \* bound: processes that die

ASSUME FaceHandshakeAssumption ==
    NBuffers \in Nat \ {0} /\ SemMax \in Nat \ {0} /\ MaxDeaths \in Nat

VARIABLES
    sem,       \* the value of each buffer's semaphores
    undo,      \* semadj: what each process's death would add to them
    rgb,       \* the picture in each shared buffer
    taken,     \* frames facedetection has got from the camera
    loading,   \* facedetections started that have not come to the camera yet
    face,      \* where the one that has the camera is; "none" without one
    faceBuf,   \* its i
    cam,       \* where input_init or cam_thread is; "down": no mjpg_streamer
    camBuf,    \* its i
    released,  \* buffers input_run has freed the read lock of
    top,       \* the picture cam_thread began to compress
    published, \* the picture in in[ID].buf: its first and its last lines
    deaths,    \* processes that have died
    overtaken  \* history: a picture was under way when mjpg_streamer came
               \* back, or facedetection left its undo to a successor

semaphores == <<sem, undo>>
streamer   == <<cam, camBuf, released, top, published>>
detector   == <<loading, face, faceBuf, taken>>
vars == <<semaphores, rgb, streamer, detector, deaths, overtaken>>

Buffers == 0 .. NBuffers - 1
Locks == {"R", "W"}
Processes == {"streamer", "detector"}
NoPicture == [frame |-> 0, marked |-> FALSE]
Nothing == [first |-> NoPicture, last |-> NoPicture]
After(i) == (i + 1) % NBuffers

FaceWorks == face \in {"grab", "convert", "mark", "free"}
CamWorks == cam \in {"compress", "publish", "free"}
CamRuns == CamWorks \/ cam = "scan"     \* input_init is over

\* input_init has set all semaphores to 0 and started facedetection.
Init ==
    /\ sem = [i \in Buffers |-> [l \in Locks |-> 0]]
    /\ undo = [p \in Processes |-> [i \in Buffers |-> [l \in Locks |-> 0]]]
    /\ rgb = [i \in Buffers |-> NoPicture]
    /\ loading = 1 /\ face = "none" /\ faceBuf = 0 /\ taken = 0
    /\ cam = "scan" /\ camBuf = 0 /\ released = 0
    /\ top = NoPicture /\ published = Nothing
    /\ deaths = 0 /\ overtaken = FALSE

-----------------------------------------------------------------------------
(***************************************************************************)
(* semop, semctl and exit.                                                 *)
(***************************************************************************)

\* semop by -1 or +1: EAGAIN or ERANGE leave everything as it is.
CanAdd(p, i, l, n) ==
    /\ sem[i][l] + n \in 0 .. SemMax
    /\ undo[p][i][l] - n \in -SemMax - 1 .. SemMax

Add(p, i, l, n) ==
    /\ sem' = [sem EXCEPT ![i][l] = @ + n]
    /\ undo' = [undo EXCEPT ![p][i][l] = @ - n]

\* At a process's death its undo counters are added, within the range.
Clamp(n) == IF n < 0 THEN 0 ELSE IF n > SemMax THEN SemMax ELSE n

Undone(p) ==
    /\ sem' = [i \in Buffers |-> [l \in Locks |->
                  Clamp(sem[i][l] + undo[p][i][l])]]
    /\ undo' = [undo EXCEPT ![p] = [i \in Buffers |-> [l \in Locks |-> 0]]]

\* semctl's SETVAL to 0 makes every process forget its undo counter, too.
SetVal(i, l) ==
    /\ sem' = [sem EXCEPT ![i][l] = 0]
    /\ undo' = [p \in Processes |-> [undo[p] EXCEPT ![i][l] = 0]]

-----------------------------------------------------------------------------
(***************************************************************************)
(* facedetection.                                                          *)
(***************************************************************************)
\* facedetection has loaded its cascade and comes to the camera.  The driver
\* refuses it to a second process, which exits; the first gets two frames.
FaceOpens ==
    /\ loading > 0
    /\ loading' = loading - 1
    /\ IF face = "none"
         THEN face' = "scan" /\ faceBuf' = 0 /\ taken' = taken + NBuffers
         ELSE UNCHANGED <<face, faceBuf, taken>>
    /\ UNCHANGED <<semaphores, rgb, streamer, deaths, overtaken>>

\* The cascade or the program is not there, or the process dies before it has
\* the camera.
LoadFails ==
    /\ loading > 0 /\ deaths < MaxDeaths
    /\ loading' = loading - 1 /\ deaths' = deaths + 1
    /\ UNCHANGED <<semaphores, rgb, streamer, face, faceBuf, taken, overtaken>>

FaceScans ==
    /\ face = "scan"
    /\ IF CanAdd("detector", faceBuf, "R", -1)
         THEN /\ Add("detector", faceBuf, "R", -1)
              /\ face' = "grab"
              /\ UNCHANGED faceBuf
         ELSE /\ faceBuf' = After(faceBuf)
              /\ UNCHANGED <<semaphores, face>>
    /\ UNCHANGED <<rgb, streamer, loading, taken, deaths, overtaken>>

\* unget_frame gives the one buffer the driver works with back to it, and
\* get_frame waits for the next frame there.  Nobody looks whether VIDIOC_DQBUF
\* has failed: then the driver still has the buffer, which holds the old frame
\* or the next one, and gives it out again the next time.
FaceGrabs ==
    /\ face = "grab"
    /\ taken' \in {taken, taken + 1}
    /\ face' = "convert"
    /\ UNCHANGED <<semaphores, rgb, streamer, loading, faceBuf, deaths,
                   overtaken>>

\* convert_yuv_to_rgb_buffer, into the shared buffer
FaceConverts ==
    /\ face = "convert"
    /\ rgb' = [rgb EXCEPT ![faceBuf] = [frame |-> taken, marked |-> FALSE]]
    /\ face' = "mark"
    /\ UNCHANGED <<semaphores, streamer, loading, faceBuf, taken, deaths,
                   overtaken>>

\* Mutant: the write lock is freed before the picture is searched for faces.
FaceMarksLate ==
    /\ face = "mark"
    /\ \/ Add("detector", faceBuf, "W", 1) /\ UNCHANGED <<rgb, face>>
       \/ /\ rgb' = [rgb EXCEPT ![faceBuf].marked = TRUE]
          /\ face' = "free"
          /\ UNCHANGED semaphores
    /\ UNCHANGED <<streamer, loading, faceBuf, taken, deaths, overtaken>>

\* Function facedetection: faces are marked in the picture, or what was
\* recognised is written into it and said aloud.
FaceMarks ==
    /\ face = "mark"
    /\ rgb' = [rgb EXCEPT ![faceBuf].marked = TRUE]
    /\ face' = "free"
    /\ UNCHANGED <<semaphores, streamer, loading, faceBuf, taken, deaths,
                   overtaken>>

\* Mutant: facedetection gives back the lock it took.
FaceFreesRead ==
    /\ face = "free"
    /\ CanAdd("detector", faceBuf, "R", 1)
    /\ Add("detector", faceBuf, "R", 1)
    /\ face' = "scan" /\ faceBuf' = After(faceBuf)
    /\ UNCHANGED <<rgb, streamer, loading, taken, deaths, overtaken>>

\* while(freesem(...)<0);
FaceFrees ==
    /\ face = "free"
    /\ CanAdd("detector", faceBuf, "W", 1)
    /\ Add("detector", faceBuf, "W", 1)
    /\ face' = "scan" /\ faceBuf' = After(faceBuf)
    /\ UNCHANGED <<rgb, streamer, loading, taken, deaths, overtaken>>

Facedetection ==
    FaceScans \/ FaceGrabs \/ FaceConverts \/ FaceMarks \/ FaceFrees

\* A fault, a signal, or no memory.
FaceDies ==
    /\ face # "none"
    /\ deaths < MaxDeaths
    /\ deaths' = deaths + 1
    /\ face' = "none"
    /\ Undone("detector")
    /\ overtaken' = (overtaken \/ (/\ loading > 0
                                   /\ \E i \in Buffers :
                                         undo["detector"][i]["W"] # 0))
    /\ UNCHANGED <<rgb, streamer, loading, faceBuf, taken>>

-----------------------------------------------------------------------------
(***************************************************************************)
(* mjpg_streamer: input_run on its main thread, and cam_thread.            *)
(***************************************************************************)

\* Mutant: the read lock's semaphore starts with 1 as well.
RunReleasesTwice ==
    /\ CamRuns /\ released < NBuffers
    /\ released' = released + 1
    /\ Add("streamer", released, "R", 2)
    /\ UNCHANGED <<rgb, cam, camBuf, top, published, detector, deaths,
                   overtaken>>

\* input_run has started cam_thread and frees one read lock after the other; it
\* does not look whether that worked.
RunReleases ==
    /\ CamRuns /\ released < NBuffers
    /\ released' = released + 1
    /\ IF CanAdd("streamer", released, "R", 1)
         THEN Add("streamer", released, "R", 1)
         ELSE UNCHANGED semaphores
    /\ UNCHANGED <<rgb, cam, camBuf, top, published, detector, deaths,
                   overtaken>>

CamScans ==
    /\ cam = "scan"
    /\ IF CanAdd("streamer", camBuf, "W", -1)
         THEN /\ Add("streamer", camBuf, "W", -1)
              /\ cam' = "compress"
              /\ UNCHANGED camBuf
         ELSE /\ camBuf' = After(camBuf)
              /\ UNCHANGED <<semaphores, cam>>
    /\ UNCHANGED <<rgb, released, top, published, detector, deaths, overtaken>>

\* compress_bmp_to_jpeg, under db, reads the first lines of the picture ...
CamCompresses ==
    /\ cam = "compress"
    /\ top' = rgb[camBuf]
    /\ cam' = "publish"
    /\ UNCHANGED <<semaphores, rgb, camBuf, released, published, detector,
                   deaths, overtaken>>

\* ... and the last ones; then db_update is broadcast.
CamPublishes ==
    /\ cam = "publish"
    /\ published' = [first |-> top, last |-> rgb[camBuf]]
    /\ cam' = "free"
    /\ UNCHANGED <<semaphores, rgb, camBuf, released, top, detector, deaths,
                   overtaken>>

\* Mutant: after a picture cam_thread begins with the first buffer again.
CamFreesAndRestarts ==
    /\ cam = "free"
    /\ CanAdd("streamer", camBuf, "R", 1)
    /\ Add("streamer", camBuf, "R", 1)
    /\ cam' = "scan" /\ camBuf' = 0
    /\ UNCHANGED <<rgb, released, top, published, detector, deaths, overtaken>>

\* while(freesem(...)<0);
CamFrees ==
    /\ cam = "free"
    /\ CanAdd("streamer", camBuf, "R", 1)
    /\ Add("streamer", camBuf, "R", 1)
    /\ cam' = "scan" /\ camBuf' = After(camBuf)
    /\ UNCHANGED <<rgb, released, top, published, detector, deaths, overtaken>>

CamThread == CamScans \/ CamCompresses \/ CamPublishes \/ CamFrees

\* A signal to mjpg_streamer alone, or a fault; facedetection goes on.
StreamerDies ==
    /\ cam # "down"
    /\ deaths < MaxDeaths
    /\ deaths' = deaths + 1
    /\ cam' = "down" /\ released' = 0
    /\ top' = NoPicture /\ published' = Nothing
    /\ Undone("streamer")
    /\ UNCHANGED <<rgb, camBuf, detector, overtaken>>

\* A new mjpg_streamer: input_init has attached the buffers.
StreamerStarts ==
    /\ cam = "down"
    /\ cam' = "setW" /\ camBuf' = 0
    /\ UNCHANGED <<semaphores, rgb, released, top, published, detector, deaths,
                   overtaken>>

\* input_init sets W_LOCK, then R_LOCK, of one buffer after the other.
SetsLock ==
    /\ \/ cam = "setW" /\ SetVal(camBuf, "W") /\ cam' = "setR" /\ camBuf' = camBuf
       \/ /\ cam = "setR" /\ SetVal(camBuf, "R")
          /\ IF camBuf < NBuffers - 1
               THEN cam' = "setW" /\ camBuf' = camBuf + 1
               ELSE cam' = "fork" /\ camBuf' = 0
    /\ UNCHANGED <<rgb, released, top, published, detector, deaths, overtaken>>

\* input_init forks, and the child becomes facedetection.
Forks ==
    /\ cam = "fork"
    /\ cam' = "scan"
    /\ loading' = loading + 1
    /\ overtaken' = (FaceWorks \/ \E i \in Buffers : sem[i]["W"] > 0)
    /\ UNCHANGED <<semaphores, rgb, camBuf, released, top, published, face,
                   faceBuf, taken, deaths>>

Next ==
    \/ FaceOpens \/ LoadFails \/ Facedetection \/ FaceDies
    \/ RunReleases \/ CamThread
    \/ StreamerDies \/ StreamerStarts \/ SetsLock \/ Forks

\* As long as none has died, both programs run and the camera delivers frames.
Fairness ==
    /\ WF_vars(deaths = 0 /\ (FaceOpens \/ Facedetection))
    /\ WF_vars(deaths = 0 /\ RunReleases)
    /\ WF_vars(deaths = 0 /\ CamThread)

Spec == Init /\ [][Next]_vars
FairSpec == Spec /\ Fairness

-----------------------------------------------------------------------------
Picture == [frame : Nat, marked : BOOLEAN]

TypeOK ==
    /\ sem \in [Buffers -> [Locks -> 0 .. SemMax]]
    /\ undo \in [Processes -> [Buffers -> [Locks -> -SemMax - 1 .. SemMax]]]
    /\ rgb \in [Buffers -> Picture]
    /\ taken \in Nat
    /\ loading \in Nat
    /\ face \in {"none", "scan", "grab", "convert", "mark", "free"}
    /\ cam \in {"scan", "compress", "publish", "free", "down", "setW", "setR",
                "fork"}
    /\ faceBuf \in Buffers /\ camBuf \in Buffers
    /\ released \in 0 .. NBuffers
    /\ top \in Picture
    /\ published \in [first : Picture, last : Picture]
    /\ deaths \in Nat /\ overtaken \in BOOLEAN

(* A picture is published whole and after it was searched for faces, though  *)
(* either process may die at any step and mjpg_streamer come back, unless it *)
(* comes back in the middle of a picture, or a facedetection dies that has   *)
(* freed write locks while its successor is loading: what it gives back lets *)
(* the successor into a buffer twice, or into one cam_thread has.            *)
PublishesMarkedPictures ==
    (~overtaken /\ published # Nothing) =>
        published.first = published.last /\ published.last.marked

(* The two programs go round the buffers independently, so a picture may be  *)
(* published after a newer one, but with the two buffers of the code only    *)
(* after the very next, with the same two exceptions.                        *)
NeverFarBack ==
    [][(~overtaken /\ published' # Nothing) =>
        published'.last.frame >= published.last.frame - 1]_vars

(* "while(freesem(...)<0);" never spins: the plugin frees one lock more than *)
(* it takes, and a counter reaches one further down than up.                 *)
FreesAtOnce ==
    deaths = 0 =>
        /\ face = "free" => CanAdd("detector", faceBuf, "W", 1)
        /\ cam = "free" => CanAdd("streamer", camBuf, "R", 1)

(* Every picture facedetection has finished is published, up to the last one *)
(* the undo counters allow, unless one of the programs dies.                 *)
EveryPictureIsPublished ==
    \A i \in Buffers :
        (face = "free" /\ faceBuf = i)
            ~> ((cam = "publish" /\ camBuf = i) \/ deaths > 0)

(* "this thread worker grabs a frame and copies it to the global buffer"     *)
(* (input_uvc.c), again and again as long as both programs live.             *)
StreamGoesOn == []<>(cam = "publish" \/ deaths > 0)

=============================================================================
