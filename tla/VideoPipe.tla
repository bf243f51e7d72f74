------------------------------ MODULE VideoPipe ------------------------------
(***************************************************************************)
(* The shared picture buffer of mjpg_streamer as the robot runs it: one    *)
(* camera thread (input_uvc cam_thread) publishes frames into              *)
(* global.in[0], any number of detached HTTP client threads (output_http   *)
(* client_thread) wait on the condition variable db_update and copy the    *)
(* newest frame, and main's signal_handler takes everything down.          *)
(*                                                                         *)
(* A frame is its number: 1, 2, ... in the order the camera delivers them, *)
(* 0 for memory no frame was written to.  No guard of the code looks at a  *)
(* frame, so Numbered = FALSE numbers none of them: the same control, over *)
(* runs of any length, which is what the liveness properties are about.    *)
(***************************************************************************)
EXTENDS Naturals

CONSTANTS Clients,     \* connections the HTTP server can be serving at once
          MaxFrames,   \* bound: the camera delivers at most this many
          Numbered,    \* frames are told apart
          Cam,         \* the camera thread, as an owner of db
          Nobody,      \* db is not held
          DropsSmall   \* minimum_size > 0: small frames are dropped

ASSUME VideoPipeAssumption ==
    /\ MaxFrames \in Nat /\ Numbered \in BOOLEAN
    /\ Cam \notin Clients /\ Nobody \notin Clients /\ Cam # Nobody
    /\ DropsSmall \in BOOLEAN

VARIABLES
    up,          \* the process has not called exit()
    stop,        \* global.stop
    main,        \* where main is: pause(), or a stage of signal_handler
    cam,         \* program counter of cam_thread
    camCancel,   \* pthread_cancel(cams[0].threadID) is pending
    grabbed,     \* the frame in videoIn (picture and buf.timestamp)
    srv,         \* server_thread is in its accept loop, or has left it
    srvCancel,   \* pthread_cancel(servers[0].threadID) is pending
    db,          \* owner of the mutex in[0].db
    waiters,     \* clients blocked on in[0].db_update
    in,          \* in[0].size, in[0].timestamp and in[0].buf
    released,    \* resources given back: "buf", "db", "plugins"
    pc,          \* program counter of each client_thread
    kind,        \* req.type of each client
    asked,       \* history: the frame in in[0].buf when the client began to wait
    out          \* the client's private copy: frame_size, timestamp, frame

camVars    == <<cam, camCancel, grabbed>>
serverVars == <<srv, srvCancel>>
clientVars == <<pc, kind, asked, out>>
vars == <<up, stop, main, camVars, serverVars, db, waiters, in, released,
          clientVars>>

NoFrame == 0
WholePicture(n) == [size |-> n, stamp |-> n, body |-> n]
Empty == WholePicture(NoFrame)
Whole(r) == r.size = r.body /\ r.stamp = r.body

\* A destroyed mutex is not taken: glibc's lock and wait calls return EINVAL at
\* once, and no caller looks at their result.
Destroyed == "db" \in released
Lock(t) == db = Nobody /\ db' = IF Destroyed THEN Nobody ELSE t

CamWriting == cam \in {"copy", "stamp", "signal", "unlock"}
Reading(c) == pc[c] \in {"header", "body", "unlock"}

Init ==
    /\ up = TRUE /\ stop = FALSE /\ main = "pause"
    /\ cam = "poll" /\ camCancel = FALSE /\ grabbed = NoFrame
    /\ srv = "serving" /\ srvCancel = FALSE
    /\ db = Nobody /\ waiters = {}
    /\ in = Empty /\ released = {}
    /\ pc = [c \in Clients |-> "none"]
    /\ kind = [c \in Clients |-> "other"]
    /\ asked = [c \in Clients |-> NoFrame]
    /\ out = [c \in Clients |-> Empty]

-----------------------------------------------------------------------------
(***************************************************************************)
(* cam_thread.                                                             *)
(***************************************************************************)
CamStep(from, to) == cam = from /\ cam' = to

\* while(!pglobal->stop)
CamPolls ==
    /\ cam = "poll"
    /\ cam' = IF stop THEN "cleanup" ELSE "grab"
    /\ UNCHANGED <<up, stop, main, camCancel, grabbed, serverVars, db, waiters,
                   in, released, clientVars>>

\* uvcGrab succeeded: the picture and its timestamp are in videoIn.  A frame
\* smaller than minimum_size sends the thread back to the loop test.
CamGrabs ==
    /\ cam = "grab"
    /\ Numbered => grabbed < MaxFrames
    /\ grabbed' = IF Numbered THEN grabbed + 1 ELSE NoFrame
    /\ \/ cam' = "lock"
       \/ DropsSmall /\ cam' = "poll"
    /\ UNCHANGED <<up, stop, main, camCancel, serverVars, db, waiters, in,
                   released, clientVars>>

\* uvcGrab failed: exit(EXIT_FAILURE) takes the whole process down.
CamGrabFails ==
    /\ cam = "grab"
    /\ up' = FALSE
    /\ UNCHANGED <<stop, main, camVars, serverVars, db, waiters, in, released,
                   clientVars>>

CamLocks ==
    /\ CamStep("lock", "copy")
    /\ Lock(Cam)
    /\ UNCHANGED <<up, stop, main, camCancel, grabbed, serverVars, waiters, in,
                   released, clientVars>>

\* compress_yuyv_to_jpeg or memcpy_picture fills buf, its result becomes size.
CamCopies ==
    /\ CamStep("copy", "stamp")
    /\ in' = [in EXCEPT !.body = grabbed, !.size = grabbed]
    /\ UNCHANGED <<up, stop, main, camCancel, grabbed, serverVars, db, waiters,
                   released, clientVars>>

\* Mutant: the timestamp is copied only once, with the first picture.
CamStampsOnce ==
    /\ CamStep("stamp", "signal")
    /\ in' = [in EXCEPT !.stamp = IF @ = NoFrame THEN grabbed ELSE @]
    /\ UNCHANGED <<up, stop, main, camCancel, grabbed, serverVars, db, waiters,
                   released, clientVars>>

CamStamps ==
    /\ CamStep("stamp", "signal")
    /\ in' = [in EXCEPT !.stamp = grabbed]
    /\ UNCHANGED <<up, stop, main, camCancel, grabbed, serverVars, db, waiters,
                   released, clientVars>>

\* Mutant: the broadcast is missing (say, on one of two branches).
CamBroadcastsNothing ==
    /\ CamStep("signal", "unlock")
    /\ UNCHANGED <<up, stop, main, camCancel, grabbed, serverVars, db, waiters,
                   in, released, clientVars>>

CamBroadcasts ==
    /\ CamStep("signal", "unlock")
    /\ waiters' = {}
    /\ UNCHANGED <<up, stop, main, camCancel, grabbed, serverVars, db, in,
                   released, clientVars>>

CamUnlocks ==
    /\ CamStep("unlock", "poll")
    /\ db' = Nobody
    /\ UNCHANGED <<up, stop, main, camCancel, grabbed, serverVars, waiters, in,
                   released, clientVars>>

\* Mutant: a cancellation point (a message, say) between lock and unlock.
CamCancelledHoldingDb ==
    /\ camCancel
    /\ cam \in {"poll", "grab", "copy"}
    /\ cam' = "cleanup"
    /\ UNCHANGED <<up, stop, main, camCancel, grabbed, serverVars, db, waiters,
                   in, released, clientVars>>

\* The cancellation points of the loop are outside the critical section: the
\* usleep calls and the messages uvcGrab prints.
CamCancelled ==
    /\ camCancel
    /\ cam \in {"poll", "grab"}
    /\ cam' = "cleanup"
    /\ UNCHANGED <<up, stop, main, camCancel, grabbed, serverVars, db, waiters,
                   in, released, clientVars>>

\* cam_cleanup frees the picture buffer without taking db.
CamCleansUp ==
    /\ CamStep("cleanup", "gone")
    /\ released' = released \cup {"buf"}
    /\ UNCHANGED <<up, stop, main, camCancel, grabbed, serverVars, db, waiters, in,
                   clientVars>>

CamThread ==
    \/ CamPolls \/ CamGrabs \/ CamGrabFails \/ CamLocks \/ CamCopies
    \/ CamStamps \/ CamBroadcasts \/ CamUnlocks \/ CamCancelled \/ CamCleansUp

-----------------------------------------------------------------------------
(***************************************************************************)
(* server_thread, and client_thread up to the dispatch of the request.     *)
(***************************************************************************)

\* select, accept, pthread_create; then while(!pglobal->stop) is evaluated.
Accept(c) ==
    /\ srv = "serving"
    /\ pc[c] = "none"
    /\ pc' = [pc EXCEPT ![c] = "request"]
    /\ srv' = IF stop THEN "closed" ELSE "serving"
    /\ UNCHANGED <<up, stop, main, camVars, srvCancel, db, waiters, in,
                   released, kind, asked, out>>

\* select is a cancellation point; server_cleanup closes the sockets.
ServerCancelled ==
    /\ srvCancel /\ srv = "serving"
    /\ srv' = "closed"
    /\ UNCHANGED <<up, stop, main, camVars, srvCancel, db, waiters, in,
                   released, clientVars>>

\* The connection is closed and its thread ends.
Hangup(c) ==
    /\ pc' = [pc EXCEPT ![c] = "none"]
    /\ kind' = [kind EXCEPT ![c] = "other"]
    /\ asked' = [asked EXCEPT ![c] = NoFrame]
    /\ out' = [out EXCEPT ![c] = Empty]

\* The request line is read and dispatched.  Requests that never touch the
\* picture buffer (files, JSON, errors, a read timeout) end the connection.
Dispatch(c) ==
    /\ pc[c] = "request"
    /\ \/ /\ pc' = [pc EXCEPT ![c] = "lock"]
          /\ kind' = [kind EXCEPT ![c] = "snapshot"]
          /\ UNCHANGED <<asked, out>>
       \/ /\ pc' = [pc EXCEPT ![c] = "loop"]       \* stream header written
          /\ kind' = [kind EXCEPT ![c] = "stream"]
          /\ UNCHANGED <<asked, out>>
       \/ Hangup(c)
    /\ UNCHANGED <<up, stop, main, camVars, serverVars, db, waiters, in,
                   released>>

\* send_stream: while(!pglobal->stop)
StreamLoop(c) ==
    /\ pc[c] = "loop"
    /\ IF stop
         THEN Hangup(c)
         ELSE /\ pc' = [pc EXCEPT ![c] = "lock"]
              /\ UNCHANGED <<kind, asked, out>>
    /\ UNCHANGED <<up, stop, main, camVars, serverVars, db, waiters, in,
                   released>>

-----------------------------------------------------------------------------
(***************************************************************************)
(* The part send_snapshot and send_stream share.                           *)
(***************************************************************************)

\* Mutant: the buffer is copied at once when it already holds a picture.
ClientTakesWhatIsThere(c) ==
    /\ pc[c] = "lock"
    /\ db = Nobody
    /\ asked' = [asked EXCEPT ![c] = in.body]
    /\ IF Destroyed \/ in.size # NoFrame
         THEN /\ pc' = [pc EXCEPT ![c] = "header"]
              /\ db' = IF Destroyed THEN Nobody ELSE c
              /\ UNCHANGED waiters
         ELSE /\ pc' = [pc EXCEPT ![c] = "wait"]
              /\ waiters' = waiters \cup {c}
              /\ UNCHANGED db
    /\ UNCHANGED <<up, stop, main, camVars, serverVars, in, released, kind,
                   out>>

\* pthread_mutex_lock, then pthread_cond_wait, which gives db back.
ClientWaits(c) ==
    /\ pc[c] = "lock"
    /\ db = Nobody
    /\ asked' = [asked EXCEPT ![c] = in.body]
    /\ IF Destroyed
         THEN /\ pc' = [pc EXCEPT ![c] = "header"]
              /\ UNCHANGED waiters
         ELSE /\ pc' = [pc EXCEPT ![c] = "wait"]
              /\ waiters' = waiters \cup {c}
    /\ UNCHANGED <<up, stop, main, camVars, serverVars, db, in, released, kind,
                   out>>

\* Mutant: the wait ends without a broadcast.
ClientWakesUnasked(c) ==
    /\ pc[c] = "wait"
    /\ Lock(c)
    /\ waiters' = waiters \ {c}
    /\ pc' = [pc EXCEPT ![c] = "header"]
    /\ UNCHANGED <<up, stop, main, camVars, serverVars, in, released, kind,
                   asked, out>>

\* pthread_cond_wait returns: woken by a broadcast, and db is taken again.
ClientWakes(c) ==
    /\ pc[c] = "wait"
    /\ c \notin waiters
    /\ Lock(c)
    /\ pc' = [pc EXCEPT ![c] = "header"]
    /\ UNCHANGED <<up, stop, main, camVars, serverVars, waiters, in, released,
                   kind, asked, out>>

\* Mutant: db is given back before the picture is copied.
ClientCopiesUnlocked(c) ==
    /\ pc[c] = "header"
    /\ out' = [out EXCEPT ![c].size = in.size, ![c].stamp = in.stamp]
    /\ pc' = [pc EXCEPT ![c] = "body"]
    /\ db' = Nobody
    /\ UNCHANGED <<up, stop, main, camVars, serverVars, waiters, in, released,
                   kind, asked>>

\* frame_size and timestamp are read and the private buffer has room.
ClientReadsHeader(c) ==
    /\ pc[c] = "header"
    /\ out' = [out EXCEPT ![c].size = in.size, ![c].stamp = in.stamp]
    /\ pc' = [pc EXCEPT ![c] = "body"]
    /\ UNCHANGED <<up, stop, main, camVars, serverVars, db, waiters, in,
                   released, kind, asked>>

\* Mutant: the error path returns without unlocking.
ClientOutOfMemoryKeepsDb(c) ==
    /\ pc[c] = "header"
    /\ Hangup(c)
    /\ UNCHANGED <<up, stop, main, camVars, serverVars, db, waiters, in,
                   released>>

\* malloc or realloc failed: unlock, error 500, the connection ends.
ClientOutOfMemory(c) ==
    /\ pc[c] = "header"
    /\ db' = Nobody
    /\ Hangup(c)
    /\ UNCHANGED <<up, stop, main, camVars, serverVars, waiters, in, released>>

\* memcpy out of in[0].buf; once that is freed it may hold anything.
ClientCopies(c) ==
    /\ pc[c] = "body"
    /\ \E b \in {in.body} \cup (IF "buf" \in released THEN {NoFrame} ELSE {}) :
          out' = [out EXCEPT ![c].body = b]
    /\ pc' = [pc EXCEPT ![c] = "unlock"]
    /\ UNCHANGED <<up, stop, main, camVars, serverVars, db, waiters, in,
                   released, kind, asked>>

ClientUnlocks(c) ==
    /\ pc[c] = "unlock"
    /\ db' = Nobody
    /\ pc' = [pc EXCEPT ![c] = "write"]
    /\ UNCHANGED <<up, stop, main, camVars, serverVars, waiters, in, released,
                   kind, asked, out>>

\* The copy goes out on the socket without db being held.
ClientWrites(c) ==
    /\ pc[c] = "write"
    /\ \/ /\ kind[c] = "stream"
          /\ pc' = [pc EXCEPT ![c] = "loop"]
          /\ UNCHANGED <<kind, asked, out>>
       \/ Hangup(c)                 \* a snapshot, or the write failed
    /\ UNCHANGED <<up, stop, main, camVars, serverVars, db, waiters, in,
                   released>>

ClientThread(c) ==
    \/ Dispatch(c) \/ StreamLoop(c) \/ ClientWaits(c) \/ ClientWakes(c)
    \/ ClientReadsHeader(c) \/ ClientOutOfMemory(c) \/ ClientCopies(c)
    \/ ClientUnlocks(c) \/ ClientWrites(c)

-----------------------------------------------------------------------------
(***************************************************************************)
(* signal_handler, on the main thread.  Its two one-second sleeps order    *)
(* nothing, so any number of steps of the others falls between its stages. *)
(***************************************************************************)
MainStep(from, to) == main = from /\ main' = to

Signalled ==
    /\ MainStep("pause", "stopInput")
    /\ stop' = TRUE
    /\ UNCHANGED <<up, camVars, serverVars, db, waiters, in, released,
                   clientVars>>

InputStop ==
    /\ MainStep("stopInput", "stopOutput")
    /\ camCancel' = TRUE
    /\ UNCHANGED <<up, stop, cam, grabbed, serverVars, db, waiters, in,
                   released, clientVars>>

OutputStop ==
    /\ MainStep("stopOutput", "destroy")
    /\ srvCancel' = TRUE
    /\ UNCHANGED <<up, stop, camVars, srv, db, waiters, in, released,
                   clientVars>>

\* pthread_cond_destroy and pthread_mutex_destroy refuse (EBUSY) while a thread
\* holds db or is inside pthread_cond_wait; their results are not looked at.
DestroyDb ==
    /\ MainStep("destroy", "close")
    /\ released' = IF db = Nobody /\ \A c \in Clients : pc[c] # "wait"
                   THEN released \cup {"db"} ELSE released
    /\ UNCHANGED <<up, stop, camVars, serverVars, db, waiters, in, clientVars>>

\* dlclose of the plugins, then exit(0).
ClosePlugins ==
    /\ MainStep("close", "exit")
    /\ released' = released \cup {"plugins"}
    /\ UNCHANGED <<up, stop, camVars, serverVars, db, waiters, in, clientVars>>

\* Mutant: the process stays until every client thread has ended, polling.
ExitAfterClients ==
    /\ main = "exit"
    /\ up' = \E c \in Clients : pc[c] # "none"
    /\ UNCHANGED <<stop, main, camVars, serverVars, db, waiters, in, released,
                   clientVars>>

Exit ==
    /\ main = "exit"
    /\ up' = FALSE
    /\ UNCHANGED <<stop, main, camVars, serverVars, db, waiters, in, released,
                   clientVars>>

SignalHandler ==
    \/ Signalled \/ InputStop \/ OutputStop \/ DestroyDb \/ ClosePlugins \/ Exit

Next ==
    \/ /\ up
       /\ \/ CamThread
          \/ ServerCancelled
          \/ \E c \in Clients : Accept(c) \/ ClientThread(c)
          \/ SignalHandler
    \/ ~up /\ UNCHANGED vars

\* The camera keeps delivering frames and every runnable thread is scheduled.
\* db is released by its holder and retaken only after a frame time, so a
\* thread that keeps finding it free gets it (strong fairness).  Nothing is
\* assumed of the peers: a client's socket may block for ever.
Fairness ==
    /\ WF_vars(up /\ (CamPolls \/ CamCopies \/ CamStamps \/ CamBroadcasts
                         \/ CamUnlocks \/ CamCleansUp))
    /\ WF_vars(up /\ CamGrabs)
    /\ SF_vars(up /\ CamLocks)
    /\ WF_vars(up /\ (InputStop \/ OutputStop \/ DestroyDb \/ ClosePlugins
                         \/ Exit))
    /\ \A c \in Clients :
         /\ SF_vars(up /\ ClientWaits(c))
         /\ SF_vars(up /\ ClientWakes(c))
         /\ WF_vars(up /\ (ClientReadsHeader(c) \/ ClientOutOfMemory(c)
                              \/ ClientCopies(c) \/ ClientUnlocks(c)
                              \/ StreamLoop(c)))

Spec == Init /\ [][Next]_vars
FairSpec == Spec /\ Fairness

-----------------------------------------------------------------------------
(***************************************************************************)
(* What is asked of the pipe.  Intact: neither the buffer nor its mutex    *)
(* has been given back by the shutdown.                                    *)
(***************************************************************************)
Intact == {"buf", "db"} \cap released = {}

Picture == [size : Nat, stamp : Nat, body : Nat]

TypeOK ==
    /\ up \in BOOLEAN /\ stop \in BOOLEAN
    /\ main \in {"pause", "stopInput", "stopOutput", "destroy", "close", "exit"}
    /\ cam \in {"poll", "grab", "lock", "copy", "stamp", "signal", "unlock",
                "cleanup", "gone"}
    /\ camCancel \in BOOLEAN /\ grabbed \in Nat
    /\ srv \in {"serving", "closed"} /\ srvCancel \in BOOLEAN
    /\ db \in Clients \cup {Cam, Nobody}
    /\ waiters \in SUBSET Clients
    /\ in \in Picture
    /\ released \in SUBSET {"buf", "db", "plugins"}
    /\ pc \in [Clients -> {"none", "request", "loop", "lock", "wait", "header",
                           "body", "unlock", "write"}]
    /\ kind \in [Clients -> {"other", "snapshot", "stream"}]
    /\ asked \in [Clients -> Nat]
    /\ out \in [Clients -> Picture]

(* db covers every access to the picture buffer: while it is intact, the     *)
(* camera never writes it while a client reads it, and a thread that writes  *)
(* or reads it owns db (cam_thread against send_snapshot and send_stream).   *)
Exclusive ==
    Intact => /\ CamWriting <=> db = Cam
              /\ \A c \in Clients : Reading(c) <=> db = c

(* The bytes, the Content-Length and the X-Timestamp a client sends belong   *)
(* to one frame: no torn picture and no picture under another's timestamp.   *)
DeliversWholeFrames ==
    Intact => \A c \in Clients : pc[c] = "write" => Whole(out[c])

(* "wait for a fresh frame": what a client sends was published after it      *)
(* began to wait, never the picture that was already in the buffer.          *)
DeliversFreshFrames ==
    Intact => \A c \in Clients :
                 pc[c] = "write" => out[c].body > asked[c]

(* What a connection copies is strictly newer than what it sent before: a    *)
(* stream neither repeats a frame nor goes back, however its wakeups, its    *)
(* slow writes and the camera interleave.                                    *)
StreamMovesForward ==
    [][\A c \in Clients :
          (Intact /\ pc[c] = "body" /\ pc'[c] = "unlock")
              => out'[c].body > out[c].body]_vars

(* However the camera thread ends (loop test, cancellation at any of its     *)
(* cancellation points), it does not take db with it.                        *)
CamLeavesDbFree == cam \in {"cleanup", "gone"} => db # Cam

(* The camera is never held up for good by the clients: neither a slow       *)
(* socket nor a failed allocation keeps db from it.                          *)
CameraGetsThrough == (up /\ cam = "lock") ~> (~up \/ cam # "lock")

(* A client that waits for a frame gets one as long as the program is not    *)
(* being stopped: no wakeup is lost between its lock, wait and relock.       *)
WaitersAreServed ==
    \A c \in Clients :
        (pc[c] = "wait") ~> (~up \/ stop \/ pc[c] \in {"header", "body"})

(* A stop signal always ends the process: no stage of the shutdown waits for *)
(* a camera thread or a client that may never move again.                    *)
ShutdownNeverHangs == stop ~> ~up

(* "this mutex and the conditional variable are used to synchronize access   *)
(* to the global picture buffer" (mjpg_streamer.c): a client that holds db   *)
(* to copy the picture copies out of a buffer that has not been freed.       *)
HeldBufferIsAllocated ==
    \A c \in Clients : Reading(c) /\ db = c => "buf" \notin released

-----------------------------------------------------------------------------
(***************************************************************************)
(* The pipe implements FrameFeed.  A client is waiting from pthread_cond_  *)
(* wait until its copy is complete; a copy whose body is still to come is  *)
(* the one it had before.                                                  *)
(***************************************************************************)
FeedPhase == [c \in Clients |->
                CASE pc[c] \in {"wait", "header", "body"} -> "waiting"
                  [] pc[c] \in {"unlock", "write"} -> "served"
                  [] OTHER -> "idle"]
FeedGot == [c \in Clients |->
                IF pc[c] = "body" THEN WholePicture(out[c].body) ELSE out[c]]

Feed == INSTANCE FrameFeed WITH
    latest <- in.body, intact <- Intact, phase <- FeedPhase, since <- asked,
    got <- FeedGot

(* Every behaviour of cam_thread, the clients and the shutdown is one the    *)
(* frame feed allows.                                                        *)
ImplementsFeed == Feed!Spec

=============================================================================
