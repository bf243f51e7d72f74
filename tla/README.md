# Verification of fs-zrobot

fs-zrobot is the software of a small robot on a Zynq board (two ARM cores, Linux
3.6.0-digilent, SMP and preemptible): kernel drivers for wheels, sensors, servos and an
arm, C libraries over them, applications that drive the car, and a web page with the
robot's camera picture. This directory holds TLA+ models of the parts that keep state
between steps of several actors, TLC runs over small instances of them, and TLAPS proofs
for every size.

Abbreviations of paths, all below `src/root/`:

| short | path |
|---|---|
| `MJ`   | `mjpeg_face_leaf_detection/mjpg-streamer/mjpg_streamer.c` |
| `UVC`  | `.../mjpg-streamer/plugins/input_uvc/input_uvc.c` |
| `V4L`  | `.../mjpg-streamer/plugins/input_uvc/v4l2uvc.c` |
| `HTTPD`| `.../mjpg-streamer/plugins/output_http/httpd.c` |
| `OPT`  | `zrobot_drivers/optical/optical_driver.c` |
| `API`  | `APIForKit/zrcar_api/api/zrcar.c` |
| `TCP`  | `APPForCar/zrtcp_app/tcp_server.c` |
| `FP`   | `.../mjpg-streamer/plugins/input_opencv/input_uvc.c` |
| `FD`   | `mjpeg_face_leaf_detection/face_leaf_detection/facedetection.cpp` |
| `US`   | `zrobot_drivers/ultrasonic/ultrasonic_driver.c` |
| `CAR`  | `APPForCar/zrcar_app/` |
| `ARM`  | `APIForKit/zrarm_api/api/` |
| `BOA`  | `boa-master/src/` |

## 1. Inventory

### Video pipeline (`MJ`, `UVC`, `HTTPD`): modelled
*State*: one `input` struct `in[0]` with the newest picture (`buf`, `size`,
`timestamp`), its mutex `db` and condition variable `db_update`; the flag `stop`; the
thread ids of the camera and the server thread.
*Operations*: `cam_thread` grabs, locks, fills, stamps, broadcasts, unlocks; each
connection has a detached `client_thread` that runs `send_snapshot` or `send_stream`
(lock, wait, copy, unlock, write); `signal_handler` sets `stop`, cancels the camera and
server threads, destroys mutex and condition variable, closes the plugins and exits.
*Interaction*: shared memory under one mutex; cancellation; no joins.
*Hard*: every interleaving of a camera, any number of clients and a shutdown; a
`pthread_cond_wait` without a predicate; cancellation points; buffers that are freed
while used.
*Correct when*: a client only ever sends one whole picture under its own header; it is
one published after it asked; a stream never repeats or goes back; no thread takes `db`
to its grave; no wakeup is lost; the camera is not starved; a signal ends the program.

### Camera capture (`V4L`, `UVC`): modelled
*State*: `struct vdIn` (ring `mem[]`, `buf`, `tmpbuffer`/`framebuffer`,
`streamingState`) and the kernel's two buffer queues.
*Operations*: `uvcGrab` (DQBUF, check, copy, QBUF); `setResolution` (pause, STREAMOFF,
unmap, close, reopen, map, queue, enable), on a client's thread.
*Hard*: a ring that must not lose a buffer; two threads on one `struct vdIn` without a
lock, each step of one between any two of the other; every ioctl may fail.
*Correct when*: the ring is conserved, pictures are published whole, in order and with
their own timestamp, and the capture never stalls.

### Optical sensors (`OPT`, `API`): modelled
*State*: semaphore `sem`, `optical_readmask`, the interrupt line, the AXI GPIO's data,
status and enable registers.
*Operations*: `optical_open`, `optical_release`, `optical_ioctl` (set mask, get one, get
all, wait and read), the interrupt handler; `zrcar_opt_*` on top.
*Hard*: several processes over unprotected globals; an edge-triggered interrupt; a
semaphore that every `open` initialises anew.
*Correct when*: a process reads the sensor it named, the interrupt cannot fall silent,
the handler never runs for a closed device, a waiter is woken.

### Remote control and wheels (`TCP`, `zrtcp.c`, `stop.c`, wheel driver, `zrcar_wheel_*`): modelled
*State*: the server's 64-byte `buf`, one connection, and two speed registers.
*Operations*: `recv` into `buf`; a command (control 1792, length 1024, angle, speed)
becomes a left and a right speed, set by two calls that each open the device, write a
register and close it. `stop.c` and the other car programs set the same registers.
*Hard*: TCP is a byte stream, and `recv`'s count is only tested for 0 and -1; two
programs' pairs of calls interleave; each call may fail and nobody looks.
*Correct when*: every pair driven is one that was sent, in order, and both wheels belong
to one command.

### Face and leaf detection (`FP`, `FD`): modelled
*State*: two shared RGB buffers, two System V semaphores for each (`R_LOCK`, `W_LOCK`),
and in the kernel, for each process, what its death would undo.
*Operations*: `input_init` sets the semaphores to 0 and starts `facedetection`, which
loads its cascade before it comes to the camera; `input_run` frees the read locks;
`facedetection` takes a read lock, writes and marks a picture, frees the write lock;
`cam_thread` takes that, compresses the picture for the clients, frees the read lock. All
operations are `IPC_NOWAIT|SEM_UNDO`.
*Hard*: two processes in step through counters only; either may die and have its
operations undone; a new plugin finds an old `facedetection` at any point, and the new
`facedetection` it starts takes over if the old one dies in time.
*Correct when*: what is published is whole and was searched; no picture is far behind a
newer one; the stream goes on.

### Car applications (`CAR`) and ultrasonic ranging (`US`): modelled
*State*: the two wheel speeds, the last reading (`optical_data`, `ult_data`), the
manoeuvres of the current round; the ready bits and echoes of the ultrasonic core.
*Operations*: `optical.c` reads the line sensors and sets both wheels every 0.2 s;
`ultrasonic.c` measures three distances and backs away from what is near; `stop.c` sets
both wheels to 0.
*Interaction*: `optical.c` opens, reads and closes the optical device for every reading,
between the calls of any other process; both set the wheels like `tcp_server` does.
*Hard*: an open that is refused leaves the reading as it was and nobody looks; the
driver waits for each echo without a limit.
*Correct when*: the wheels turn as the last reading asks for; a car that lost its line
stops; one with an obstacle before it backs away.

### Robot arm (`ARM`, `uarm` driver): modelled
*State*: registers that cannot be read back (pump, valve, four servos), a limit switch,
each program's `struct UArm` (`status.pump`, `attr.heightLst`), the state file.
*Operations*: `zrarm_init`, `zrarm_catch`, `zrarm_release`, `zrarm_set_pos` and
`zrarm_move`, `zrarm_save_state`, `zrarm_restore_state`; each register write opens the
device and exits the program when that fails.
*Hard*: programs that die between two writes, a second program on the same arm, and a
struct that outlives its program in a file.
*Correct when*: the struct tells the truth of the arm; the arm is not pressed against its
limit switch; a saved state is not lost.

### Web server (`BOA`): modelled
*State*: the queues `request_ready` and `request_block`, the two `fd_set`s of `select`
with `max_fd`, `total_connections`, `pending_requests`, `sigterm_flag`, `sighup_flag`,
and for each request its status, buffer, descriptors, keep-alive and time.
*Operations*: `select_loop` (signals, `fdset_update`, `process_requests`, `select`),
`get_request`, one handler for each status (header, body, file, CGI, pipe, flush),
`block_request`, `free_request`.
*Interaction*: clients over sockets, CGIs over pipes, signals; one thread.
*Hard*: a request moves between queues, descriptors between requests, of which the
process may have no more; the sets are
updated in five places; each read or write may block, fail or meet a client that is
gone; timeouts; a shutdown in the middle of a pass.
*Correct when*: no descriptor leaks or has two owners; the count is right; no request is
forgotten by `select`; a connection is only kept after a whole response; clients are
accepted, connections end, and so does the server.

### Not modelled
| component | state and hard behaviour | why not |
|---|---|---|
| GPIO (`zrobot_drivers/gpio`) | shadow register `gpio_status` changed with `\|=` and `&=` by whoever calls; `gpio_get` writes ones and overwrites the shadow | no program of the repository but a demo uses it; its hazards are listed |
| Second face plugin (`input_uvc_opencv` with `plugins/facedetection`) | a handoff by `SIGUSR1` and a sleep | no start script loads it; `FaceHandshake` has the plugin that is started |
| Servos | two write-only registers, none in the driver | nothing several steps or actors could get wrong |
| Marker and calibration API (`zrcam`) | sequential image processing on OpenCV and ArUco | floating-point data, no state |

Vendored and third-party code (the kernel's headers, OpenCV, ArUco, jpeg, the web pages)
is left aside; where modelled code calls it, the model states what it uses of it
(section 6).

## 2. Plan

Done, in order of importance:

1. `VideoPipe`: picture buffer, clients and shutdown; `FrameFeed`, its abstract
   specification; proofs of all safety properties and of the refinement.
2. `UvcCapture`: where the frames come from, and the resolution change; proofs of all
   safety properties.
3. `OpticalDriver`: the driver with the most concurrency; proofs of all safety
   properties.
4. `RemoteDrive`: `tcp_server`, the byte stream (commands split and coalesced),
   the wheels, and other programs that set them; proofs of all safety properties.
5. `FaceHandshake`: the semaphores between the camera plugin and `facedetection`; proofs
   of all safety properties.
6. `CarApps`: the line follower on top of `OpticalDriver`, and the obstacle avoider;
   proof of its safety property.
7. `ArmApi`: the arm, its programs, their deaths and the state file; proofs of its
   safety properties.
8. `BoaServer`: the web server's loop, queues, descriptors and shutdown; proofs of all
   safety properties.

Left: a bound for `NeverFarBack` with more than two buffers; models of GPIO and of
several listening sockets in `output_http` (which share one descriptor).

## 3. Modules

| module | models |
|---|---|
| `VideoPipe` | the pipeline: one action per step between two points where another thread can interfere |
| `FrameFeed` | what the pipeline promises a client, without locks |
| `MCVideoPipe` | symmetry of the clients, for TLC |
| `VideoPipe_proofs` | theorems on `VideoPipe`, refinement of `FrameFeed` |
| `UvcCapture` | `cam_thread` around `uvcGrab`, the V4L2 ring, `setResolution` |
| `UvcCapture_proofs` | theorems on `UvcCapture` |
| `OpticalDriver` | driver, interrupt, sensors and `zrcar_opt_*` callers |
| `OpticalDriver_proofs` | theorems on `OpticalDriver` |
| `RemoteDrive` | `tcp_server`, its stream, the wheels and the programs that set them |
| `RemoteDrive_proofs` | theorems on `RemoteDrive` |
| `FaceHandshake` | the camera plugin, `facedetection`, their semaphores, deaths and restarts |
| `FaceHandshake_proofs` | theorems on `FaceHandshake` |
| `CarApps` | `optical.c` on top of `OpticalDriver`, `ultrasonic.c` with its driver, the wheels |
| `CarApps_proofs` | theorems on `CarApps`, with `OpticalDriver`'s |
| `ArmApi` | the arm's registers, `zrarm_*` calls of several programs, the state file |
| `ArmApi_proofs` | theorems on `ArmApi` |
| `BoaServer` | the web server: `select_loop`, `process_requests`, every handler |
| `MCBoaServer` | what the web clients send, for TLC |
| `BoaServer_proofs` | theorems on `BoaServer` |

### VideoPipe
`cam` is the program counter of `cam_thread`: `poll` (the loop test), `grab`, `lock`,
`copy`, `stamp`, `signal`, `unlock`, `cleanup`, `gone`. `pc[c]` is that of the thread
that serves connection `c`: `none`, `request`, `loop` (`while(!stop)` of `send_stream`),
`lock`, `wait` (inside `pthread_cond_wait`), `header` (`frame_size`, timestamp,
realloc), `body` (memcpy), `unlock`, `write`. `main` walks through `signal_handler`.
`db` is the mutex's owner, `waiters` the threads blocked on `db_update` (a broadcast
empties it; a woken thread is at `wait`, no longer in `waiters`, and needs `db`). `in`
splits the buffer in the three things the code assigns separately: the bytes, `size`,
`timestamp`. `out[c]` is the client's private copy, again in three parts, so a torn copy
is visible. A frame is its number, its content is not looked at, and `asked` is the one
history variable.

`send_snapshot` and `send_stream` have the same critical section, so they share actions;
`kind` records which one runs. `Accept`, `ServerCancelled` and `Dispatch` are the server
thread and the request line; requests that never touch the picture buffer (files, JSON,
errors) end the connection in `Dispatch`.

`FrameFeed` has no lock, no condition variable and no copies: a client asks, and is
served in one step with the newest frame, provided it is newer than its question.
`ImplementsFeed` maps `wait`, `header` and `body` to *waiting*: the linearisation point
is the memcpy.

### UvcCapture
A step is one access to what the two threads share: `vd->buf`, `vd->mem[]`,
`vd->streamingState` and the device. `device` is the kernel's side of the file
descriptor (open, streaming, the queue of empty and that of filled buffers), `slots` the
memory of the ring, `mem` the buffer each `vd->mem[]` points at (`Dangling`: unmapped),
`state` is `streamingState`, `buf` the one `struct v4l2_buffer` both threads use, `source`
the arguments of `memcpy` (read before the copy), `picture` `vd->tmpbuffer` or
`vd->framebuffer`. `cam` follows `cam_thread` into `uvcGrab`, where STREAMON and the new
state, and the clearing of `vd->buf` and DQBUF, are steps of their own; `cmd` follows
`setResolution` into `init_v4l2`, whose two loops take two steps a buffer: `CmdSelects`
(memset and `index = i`), then `CmdMaps` (QUERYBUF and mmap) or `CmdQueues` (QBUF) of
whatever buffer `vd->buf` names by then. `turn` is their `i`. The part of `cam_thread`
that publishes is one action here; `VideoPipe` has it in six. A failed ioctl in
`cam_thread` is `exit(EXIT_FAILURE)` (`Dies`); one in `setResolution` leaves everything
as it is. `CmdCloses` empties both queues: closing the device releases the driver's
stream and its buffers, also when `cam_thread` has turned the stream on again in
between. `ignored` and `overtaken` are history: the empty buffers `uvcGrab` kept, and
whether it went ahead in the middle of a change (it turned the stream on, or cleared
`vd->buf` between `index = i` and QUERYBUF).

### OpticalDriver
`line`, `isr`, `enabled`, `pending` are the hardware: data register, interrupt status
bit, enable bits, and the edge the processor has latched. `handler` is between
`up(&sem)` and the write that clears the status bit. `count` and `queue` are the
semaphore, `irq` the owner of the interrupt line `request_irq` grants to one at a time,
`readmask` is `optical_readmask`. `pc[p]` is a process inside one of the calls.
`zrcar_opt_init` opens and closes, and thus resets the semaphore; it is the call that
goes straight to `close`.

### RemoteDrive
The stream is its shorts, numbered from 0: short `k` is field `k % 4` of command `k \div
4`, so `sent` and `got` are two counters, and `buf` holds the numbers of the four shorts
the server looks at. `recv` may cut the stream anywhere, and each call on a wheel may
fail; the history variable `mishaps` remembers that a command was cut, that several
arrived together, or that a call failed, and each property says which of these it can
live with. `left` and `right` are the registers, each represented by the angle and the
speed it was computed from, so that a mixture of two commands is visible; the formula in
`constrain_and_run` (a cosine, and limits of plus and minus 45) is a function of the two
and left out. `overlapped`, the other history variable, is whether the last pair of
calls began inside another program's. A cut in the middle of a short is left out: it
would make a value of two halves.

### FaceHandshake
`sem` and `undo` are the kernel's: the semaphores and each process's undo counters
(`semadj`), with the range checks of `semop` (`CanAdd`), the clamping when a process
exits (`Undone`), and `SETVAL`, which also clears every counter. `face` walks through
the loop of `FD:163-185`, `cam` through `FP:451-474`; the search for a buffer tries one
buffer a step. A picture is the number of its frame and whether it was searched; a
published picture keeps its first and its last lines apart, so one that changed while it
was compressed is visible. `input_init` takes a step for each SETVAL (`SetsLock`) and
one for the fork (`Forks`); from then on a `facedetection` is `loading` (its cascade,
`FD:81`), until it comes to the camera (`FD:145`, `FaceOpens`): the driver refuses it to
a second process, which exits, but if the first has died by then the new one takes over.
Death is possible at every point (`LoadFails`, `FaceDies`, `StreamerDies`). After a
failed DQBUF (`v4l2lib.c:236`) the picture is the old frame or the next: `FaceGrabs` has
both. `overtaken`, the history variable, marks that a picture was under way when the
plugin came back, or that a `facedetection` which had freed write locks died while its
successor was loading; a restart with no picture under way clears it. A child whose
`execl` fails is taken as gone; in the code (`FP:356`) it returns from `input_init` and
is a second plugin.

### CarApps
`CarApps` EXTENDS `OpticalDriver`: the process `Car` of `Procs` takes the driver's own
actions (`OpenResets`, `OpenRequests`, `GetAll`, `Release`), conjoined with what
`optical.c` does around them, and `seen[Car]`, the value `OpticalDriver` gives the
caller, is `optical_data`: at first any value, since nobody initialises it. `todo` is
the list of manoeuvres of one round, each two wheel calls and a sleep; `Steers` and
`Avoids` are the two `if` chains. `program` says which of the two mains was started, one
at a time; wheel calls that fail, `stop.c` and other programs at the wheels are in
`RemoteDrive`, so the wheels here are one program's. An echo is near (within 180 mm) or
not. That writing the status register clears the ready bits is an assumption on the
core; only one process measures at a time. The other processes do not ask for single
sensors here, which leaves `readmask` alone and the state space small; `OpticalDriver`
has them.

### ArmApi
Each register write is an action, since any other program may come between, and since
the program may die there (`Dies`, anywhere). `uarm[p]` is a program's struct, of which
the function pointers are one flag, `valid` (a program that restored nothing and did not
init has none), `status.pump` and `attr.heightLst`. The open and the write of
`zrarm_save_state` may each fail. Of the pose only the height is kept:
servos R and L are set from it, one after the other, and the switch limits it. `knows`
and `filed` are history: which parts of the arm a struct, in memory or in the file, was
the last to drive. `zrarm_init` copies an uninitialised local struct, so `heightLst` is
any height after it. The registers' own driver is stateless. A file that is too short,
or comes from another build, is left out.

### BoaServer
`pc` is where `select_loop` is: `top` (signals, `fdset_update`), `accept` (the first
`get_request`), `pass` (a handler is chosen), `poll` (the second `get_request`),
`switch` (what to do with the handler's result), `select`, `exited`. One action for each
handler status. `req[f]` is the request on socket `f`; `data` and `post` are its other
descriptors, and `Lowest` is the kernel's rule that the smallest free number is used, so
a number that is closed too early turns up in somebody else's hands. `watched` are both
`fd_set`s, before `select` what was asked, after it what is ready. A client's script is
a list of pieces; `sent`, `got` and `parsed` say how far the client, `read` and the
parser are, so requests may arrive in parts or together. A piece is a request line, the
rest of its header (`end`: options with a keep-alive and, for a POST, a length; `blank`:
none; `bad`: options of which one is refused) or a body. A simple request (HTTP/0.9) is
its line only and is answered there, but for a POST: for it `read_header` goes on, and
ends the header once more at the blank line after it. `limits.files` is the size of the
descriptor table; with none left `accept`, `open`, `pipe` and `mkstemp` fail, each on its own path.
Files are `small` (copied into the buffer), `mapped`, or `large` (`PIPE_READ` from the
file); data is counted in `Chunks`. `leaked` and `torn` are history: descriptors whose
number nobody knows any more, and requests that failed in silence (a file, a pipe, a
disk, or an option line).

Left out: SIGCHLD and SIGALRM (they touch no request), a second SIGTERM or SIGHUP,
failures of `malloc`, `getsockname` and `complete_env`, HEAD, partial writes, the read of
up to 32 K before a POST's socket is closed, directory listings, and the order within
the ready queue (any ready request may be next, which includes the code's order). Clients
and signals act only before an accept, a handler or `select`: nothing else in the pass
looks at what they do.

## 4. Runs

Most runs leave out what is proved (section 5) and says little besides: the type
invariants, except in `uvc` and `boa`, and `HandlerHasAFile` and `SavedStateSurvives`.

| run | instance | question, and result |
|---|---|---|
| `video_safety` | 2 clients, 3 frames, drops | whole, fresh, ever newer frames; `db` exclusive and never taken along; implements `FrameFeed`; holds |
| `video_live` | 2 clients, frames not told apart | camera gets `db`, waiters are served, the shutdown ends; holds |
| `video_free` | as `video_safety` | a held buffer is allocated: **violated**, finding 1 |
| `uvc` | both formats, 3 buffers, 4 frames, 2 changes, a step an access | ring conserved and whole again after a change, frames whole and in order, no stall in the usual operation, pictures never older in any unless `overtaken`; holds |
| `optical` | 2 processes, 2 sensors, count up to 1 | one process inside, interrupt, right sensor, a waiter comes out; holds |
| `drive` | 3 commands cut anywhere, `buf` of 2, failing opens, 2 other programs | only sent commands driven unless cut, never an older order, wheels agree unless pairs overlap, each command reaches both wheels unless a mishap befalls it; holds |
| `face` | 2 buffers, semaphores up to 2, 2 deaths | published pictures whole and searched, at most one behind, both unless `overtaken`; until a death a release works at once and each finished picture is published; holds |
| `face_undo` | 2 buffers, semaphores up to 3, no deaths | the stream goes on: **violated**, finding 2 |
| `car` | line follower with 3 sensors beside another process, obstacle avoider with 3 echoes | wheels follow the reading, stops off the line, keeps backing away; holds |
| `arm` | 2 programs, 2 heights, deaths and restarts without a bound | structs tell the truth, the switch holds; holds |
| `boa` | 1 client with up to 2 requests on one connection, each kind of answer, simple requests and refused headers, or 1 beside one that says nothing; limit 2 with 3 descriptors, or 3 with 6; 1 SIGHUP or SIGTERM | count, descriptors, sets, keep-alive, lame duck mode, acceptance, timeouts; holds |
| `boa_shutdown` | 1 client, 1 small file, SIGTERM | lame duck mode ends: **violated**, finding 3 |

**Bounds.** Two clients are the smallest number where one reads while another waits and
the camera wants `db`; clients meet only through `db` and `db_update`, and the proofs
are for any set of them. Three frames let a client miss one and a stream deliver two.
Since no guard of the code looks at a frame, the constant `Numbered = FALSE` of
`VideoPipe` numbers none: the state space is then finite without any bound on the run,
and the liveness properties need none. Three buffers, where the code has four, are the
first, the last and one between them for `init_v4l2`'s loops; four frames are a round
and one more, so a buffer that is lost or doubled in the first round is missed in the
second; a second resolution change starts from any state the first one leaves. The
proofs are for any of these numbers. Two processes and two sensors are what it takes to
have one process change the mask, the semaphore or the line under another; `MaxCount`
stops the sensors from changing while nobody consumes the count, and a count of 1 is
already an interrupt nobody waited for. A `buf` of two commands, where the code has
eight, is the smallest that can hold more than one, and the proofs are for every size;
three commands fill it and begin it again. `FaceHandshake` has the two buffers of the
code. `SemMax` is 32767 in the kernel; the undo counters grow by one a picture, so with
2 or 3 the limit is reached, from every position of the processes, after as many
pictures as a buffer can take, and the run is finite because of it. Two deaths let each
process die, or one die, come back and die. `CarApps` needs one sensor for each of the
two bits `optical.c` tests and one more, which means *forward*; the run has no other
bound but `MaxCount`, and the proofs are for any number of sensors and processes. In
`ArmApi` two programs are what it takes to overtake a struct, and two heights are one
below the other; nothing counts, so the run has histories of every length. In
`BoaServer` a second client is needed for a connection in the backlog while the limit is
reached and for two owners of descriptors; a second request on a connection for
keep-alive, pipelining and its timeout (`KaMax` = 1, the code's default is 1000).
`Slack` is 1 where the code has 10, so that with limits of 2 and 3 the throttle closes
and opens with one or two connections. With limit 2 goes a table of 3 descriptors, which
a request with a file fills, so that an accept meets a full one; with limit 3 one of 6,
enough for a simple POST and its CGI. On the robot it is the process's limit, 1024 by
default. `Chunks` = 1 is a file of a buffer, then its end. An age of 0, 1 or 2 is all
`fdset_update` tells apart. A SIGHUP and a SIGTERM in one run (`BothSignals`) are too
large for the run of this instance.

**Deadlock** is checked except in `uvc`, `face` and the runs of `boa`:
there a failed change, or a ring without buffers, really stops the stream, two dead
processes stay dead when no restart comes, the undo counters are used up, or one spins
in `while(freesem(...)<0);`, and the web server exits, or waits in `select` for clients
that do not come.

**Fairness.** `VideoPipe`: the camera delivers frames and each thread that can run is
scheduled (weak fairness per thread). A mutex released and retaken by the camera only a
frame time later is obtained by a thread that keeps finding it free, so taking `db` is
strongly fair. Nothing is assumed of the network: `Dispatch` and `ClientWrites` have no
fairness, and the properties hold with peers that never read. Nor is a signal assumed,
or the delivery of a cancellation. `UvcCapture`: the camera fills queued buffers,
`cam_thread` runs. `OpticalDriver`: sensors keep changing, the handler and a process
inside a call run. `RemoteDrive`: the server runs; nobody has to send, and the other
programs may stop anywhere. `FaceHandshake`: until a process dies both loops run and the
camera delivers; nobody has to restart a process. `CarApps`: the program and the
interrupt handler run; nobody has to close the optical device, and an echo need not
come. `BoaServer`: the server runs, and time passes for what stays blocked (strongly
fair, since `select` is left again and again); clients, files and CGIs may stop at any
point. `ArmApi` has no liveness property. That the sensors keep changing is an
assumption on the robot's surroundings, and it is needed: see section 7.

## 5. Proofs

`tlapm` proves, from the named assumptions on the constants only (clients of the
pipeline, processes, sensors, heights and programs are arbitrary sets, the web server's
clients any finite set, its descriptors any number; frames are unbounded by anything but
`MaxFrames`; buffers, limits and file sizes are any numbers):

| theorem | says | argument |
|---|---|---|
| `VideoPipe_proofs!TypeCorrect` | `[]TypeOK` | inductive itself |
| `MutualExclusion` | `[]Exclusive` | `LockInv` |
| `CamNeverKeepsDb` | `[]CamLeavesDbFree` | `LockInv` |
| `WholeFrames` | `[]DeliversWholeFrames` | `BufferInv`, `CopyInv` |
| `FreshFrames` | `[]DeliversFreshFrames` | `OrderInv`, `WakeInv` |
| `ForwardOnly` | `StreamMovesForward` | the same |
| `PipeImplementsFeed` | `Spec => ImplementsFeed` | the same, one lemma per thread |
| `OpticalDriver_proofs!TypeCorrect` | `[]TypeOK` | with `QueueInv`: who is in the wait list is blocked |
| `OneProcessInside` | `[]OneOpenFile` | inductive with the types |
| `HandlerBelongsToAFile` | `[]HandlerHasAFile` | with `OneOpenFile`: only the owner releases |
| `EdgeNeverLost` | `[]InterruptNotStuck` | inductive with the types |
| `RightSensor` | `ReadsOwnSensor` | `MaskInv`: at `single`, `readmask` is the caller's |
| `RemoteDrive_proofs!TypeCorrect` | `[]TypeOK` | with `StreamInv` |
| `NoOlderOrder` | `NeverBackwards` | `StreamInv`: the wheels hold nothing newer than `buf`, `buf` nothing newer than `got` |
| `WholeCommands` | `[]DrivesSentCommands` | `AlignInv`: until a cut, `recv` begins at a command's boundary |
| `PairsAgree` | `[]AgreeUnlessOverlapped` | `PairInv`: until an overlap or a failed call, one program is inside its pair |
| `FaceHandshake_proofs!TypeCorrect` | `[]TypeOK` | inductive: `semop` refuses what would leave the range |
| `MarkedPictures` | `[]PublishesMarkedPictures` | `HandInv`: one token a buffer; `DetectorInv`: what a death leaves a successor; `PictureInv` |
| `NeverSpins` | `[]FreesAtOnce` | `BalanceInv`: until a death a process's two counters of a buffer add up to whether it has the buffer |
| `NeverFar` | `NeverFarBack`, for the two buffers of the code | `AgeInv`: what is ready is at most one frame older than the picture published last |
| `UvcCapture_proofs!TypeCorrect` | `[]TypeOK` | inductive with `DistinctInv` |
| `NoBufferIsLost` | `[]RingConserved` | `UsualInv`: the undisturbed ring; `FollowInv`: how a change builds the new one |
| `EachFrameOnce` | `PublishesNewFrames` | `UsualInv` |
| `NeverBack` | `PicturesNeverGoBack` | `AheadInv`, whatever `setResolution` does meanwhile, with `FollowInv` |
| `CarApps_proofs!CarTypeCorrect` | `[]CarTypeOK` | `CarIInv`, on top of `OpticalDriver`'s `IInv` |
| `WheelsFollow` | `[]WheelsFollowReading` | `CarIInv`: what `left` and `right` hold at each point of a manoeuvre |
| `ArmApi_proofs!TypeCorrect` | `[]TypeOK` | inductive itself |
| `Truth` | `[]StructsTellTheTruth` | `PumpKnown`, `HeightKnown`, `FileKnown` |
| `NotPressed` | `NeverPressesDown` | `HeightKnown` at `switch` |
| `SavedSurvives` | `SavedStateSurvives` | the types: a struct in memory is never absent or empty |
| `BoaServer_proofs!TypeCorrect` | `[]TypeOK` | with `ClientInv` and `ScriptInv`: who comes has a script, and sends no more than it |
| `ConnectionsCounted` | `[]TotalCounts` | inductive with `OwnInv` |
| `NoDescriptorLeaks` | `[]DescriptorsOwned` | `OwnInv`, `ShapeInv` |
| `NobodyForgotten` | `[]BlockedIsWatched` | `WatchInv` |
| `KeptAfterWholeResponse` | `KeptWhole` | `CurrentInv`: what a request is after *done* |
| `LameDuckLetsGo` | `LameDuckKeepsNothing` | `CurrentInv`: after SIGTERM the request at hand is not kept |

*The inductive invariant of the handshake.* `HandInv` counts, for each buffer, its two
semaphores, the process that has it, and whether `input_run` has yet to free it: the sum
is at most 1 as long as a `facedetection` has the camera or may get it and nothing was
`overtaken`. So while one process has a buffer the other does not, and `PictureInv` says
the rest: what is ready for the plugin was searched. A death of `facedetection` could
add to a semaphore. That it cannot make a picture ready is `UndoInv` (of the write locks
it has only ever freed some, so its counters are never above zero); that it leaves a
successor no token too many is `DetectorInv`: its two counters of a buffer add up to
whether it has the buffer, and where it has freed no write lock `cam_thread` has
nothing. Where it has, `overtaken` excepts the successor. `SetInv` carries this through
`input_init`: a buffer whose locks have been set is empty until all are.

*Freeing at once, and the order of pictures.* That `freesem` never fails needs the
undo counters: `BalanceInv` adds up the two counters each process has of a buffer. The
one of the lock it takes reaches its limit first, and then it takes none that it would
have to free. For the order, `AgeInv` says
of a buffer that is ready how old it may be, and (`NotLapped`) what the other one, where
`cam_thread` gets first, may hold or get: `facedetection` cannot put a second new frame
there before `cam_thread` has passed. A buffer whose undo counter is used up is not
ready, as it is never taken again; after `facedetection` dies only the write locks count
(`WriteInv`). The theorem assumes two buffers, `buffer_n` of the code. It is false of
more: with three, TLC finds a picture published three frames after a newer one when
`input_run` is late with the last lock.

*The inductive invariant of the capture.* In the usual operation the ring is what one
expects (`Undisturbed`). `PicturesNeverGoBack` is claimed of every operation, and there
`setResolution` may give a buffer back to the driver while `uvcGrab` still holds it. Such
a buffer is *doomed*: the QBUF that `uvcGrab` is heading for fails, and the program
exits before it takes another picture. `AheadInv` says that the frames that are done, and
the one about to be copied, are newer than the picture, or that the buffer is doomed and
nothing in the ring is older than the picture. It needs to know what a change has built:
`FollowInv` says of each point of `init_v4l2`'s loops which buffers are mapped, blank and
queued, although `uvcGrab` may clear `vd->buf` between a memset and its ioctl. Before a
QBUF that is harmless: `vd->buf` then names buffer 0, which the driver has or takes, and a
refused QBUF ends the change. Before a QUERYBUF it is not, and there, and when the stream
is turned on in the middle, both invariants stop (`overtaken`).

*The inductive invariant of the web server.* Every handler, whatever it does, leaves its
request well formed (`Good`), opens only free descriptors, and closes only its own or
forgets them (`Moves`); one lemma per handler shows this (`Handled`), and only one step is
left to show that a handled request keeps the invariant. `OwnInv` states that each open
descriptor but the server socket is one of exactly one request's, or leaked. `Shape` tells
which descriptors a request has at each status: never a file and a POST's body at once, and
while its header is read a body only if it is a simple POST. What a handler's *done* means
must survive until `Settles` has looked at it (`CurrentInv`), and a request is on the
blocked queue only with its bit in the sets, or dead (`WatchInv`).

*The inductive invariant of the pipeline.* None of its properties but the types is
inductive. `DeliversWholeFrames` speaks of the private copy at `write`; it needs to know
what the copy holds at `body` and `unlock` (`CopyInv`: header and size are those of the
buffer), hence that the buffer does not change between the header and the memcpy, hence
that the camera is outside its critical section (`LockInv`, the content of `Exclusive`),
and that the buffer is whole whenever the camera is (`BufferInv`, which says exactly
which parts are new at `stamp`, `signal` and `unlock`). All is conditioned on `Intact`,
until the shutdown frees the buffer or destroys the mutex; `Intact` never comes back
(`ReleasedForGood`). For freshness, `OrderInv` relates the newest grabbed frame, the
buffer, and what each client had and asked after; `WakeInv` says that a client at `wait`
but out of `waiters`, or past it, has a newer picture in the buffer: the broadcast is
inside the critical section and after the copy. Both need frames to be told apart
(`Numbered`), which these theorems assume.

*The composition of the car.* Each step of the line follower is by its definition a step
of `OpticalDriver` or leaves the driver alone, so the driver's inductive invariant carries
over (`DriverInvariance`). `CarIInv` uses it where a reading may change: `seen[Car]`
changes only while `Car` has the device open, so the reading a manoeuvre was chosen by is
still the last one when the program sleeps.

*The inductive invariant of the arm.* Between the two writes of a call struct and arm
differ, so `StructsTellTheTruth` is not inductive: `PumpKnown` and `HeightKnown` add that a
program that still *knows* the part it drives finds its first write in the register, for
whoever else wrote there took that knowledge away. `FileKnown` says the same of the
file, `NewKnowsNothing` of a program that has just started.

*Only model-checked*: the liveness properties, since TLAPS has no rule for fairness here:
`CameraGetsThrough`, `WaitersAreServed` and `ShutdownNeverHangs` of the pipeline,
`CaptureNeverStalls`, `WaiterComesOut`, `EveryCommandIsDriven`,
`EveryPictureIsPublished`, `StopsOffTheLine` and `KeepsBackingAway`, `ClientsAccepted`
and `ConnectionsEnd`. What clients and CGIs send has an end in `BoaServer`; the server's
timeouts are against silence only, so one that sends a byte now and then keeps its
connection. Every invariant and every action property of the runs that hold is a theorem.

## 6. What the models take from outside

- **POSIX threads**, glibc 2.15: destroying a mutex or condition variable in use
  returns `EBUSY` and leaves it; locking or waiting on a destroyed one returns
  `EINVAL`. No caller looks at either result, and the models have both. The wait in
  `httpd.c` has no predicate, so the models assume, as the code does, that
  `pthread_cond_wait` returns only for a broadcast; a spurious wakeup would send the
  picture already in the buffer.
- **videobuf2 and uvcvideo** of Linux 3.6: DQBUF blocks while streaming, also when no
  buffer is queued, and fails once the stream is off; QBUF refuses a buffer it
  has; STREAMOFF takes all buffers back; short uncompressed frames are
  discarded by the driver, so only MJPEG buffers can be empty.
- **AXI GPIO**: a change of an input sets the status bit whatever the enable
  bits; the line is bit and enable; writing 1 to a set status bit clears it.
- **System V semaphores** of Linux 3.6 (`ipc/sem.c`): with `IPC_NOWAIT` an operation
  that would leave the range of the semaphore or of the undo counter (`SEMVMX`, `SEMAEM`,
  both 32767) fails and changes nothing; an exiting process's counters are added to the
  semaphores, which are kept between 0 and `SEMVMX`; `SETVAL` clears the counters of all
  processes. The semaphores outlive both.
- **Ultrasonic core**: writing 1 to the status register starts a measurement and clears
  the ready bits; each sensor's bit is set when its echo register is new, if ever.
- **Linux descriptors and select**: the smallest free number is given out; `select`
  fails with `EBADF` and leaves the sets alone when one of its descriptors is closed,
  and with `EINTR` when a signal comes while it waits; a pipe, a file or a socket to
  write on may be ready whenever it likes, a socket with unread data or whose peer has
  closed is ready to be read.
- **Configuration** of `mjpg_start.sh`: one input and one output plugin, YUYV
  (`-q 60` selects it, as `-y` would) and no commands. `start.sh` uses MJPEG, and what
  `uvc` shows of MJPEG and of resolution changes is about it.

## 7. Findings and accepted behaviour

1. `cam_cleanup` frees `in[].buf` without taking `db` (`UVC:465-466`): a client holding
   `db` may be copying from it, although `MJ:306` says the mutex synchronises access to
   the buffer.
2. Each semaphore of the handshake is taken by one process and freed by the other, always
   with `SEM_UNDO`, so the undo counters only ever grow. After 32767 pictures a buffer
   `getsem` is refused for ever (`ERANGE`), and the stream, which `FP:441` describes as
   endless, stops: after less than two hours at ten pictures a second.
3. A SIGTERM puts the web server in lame duck mode "until all pending transactions
   complete" (`boa-master/ChangeLog:418`). `select_loop` tests whether they are complete
   only before the pass that completes the last one, and then calls `select` without a
   descriptor and without a timeout (`BOA/select.c:80`): the server never exits.

Worth knowing, each a behaviour the models have and the properties except:

*Capture.* An empty MJPEG buffer is "ignored" (`V4L:441`) by returning success: the
previous picture is published, cut to `bytesused`, under a new timestamp; and since the
return skips QBUF, the buffer is lost to the driver, and after `NB_BUFFER` of them DQBUF
blocks for ever. `setResolution` stops the stream while `uvcGrab` is inside DQBUF or
between it and QBUF; the ioctl fails and `cam_thread` exits the program. Or `uvcGrab`, past
its test of `streamingState`, goes ahead: it turns the new stream on before all of it is
queued, or clears `vd->buf` under `init_v4l2`, which then maps buffer 0 twice. From then on
the ring is not what it should be, and a picture may be older than the one before. All are
reachable in `UvcCapture`, and are why its properties speak of the usual operation (no
change) or except `overtaken`.

*Face detection.* A plugin restarted while `facedetection` is in the middle of a picture
has two tokens for that buffer, and may publish torn pictures from then on. The new
plugin starts a `facedetection` of its own, which normally finds the camera taken and
exits. If the old one dies while the new one loads its cascade (`FD:81`), what the
kernel undoes gives every `R_LOCK` whose picture is with `cam_thread` a token too many, and
the new one writes into a picture that is being compressed.

*Car and arm.* A process that holds the optical device, asleep in `OPTICAL_WAIT_READ`
while nothing changes, has every reading of the line follower refused: it drives on by
its last reading, or by an uninitialised one, for ever. A lost echo leaves
`ultrasonic.c` in the kernel with the wheels turning. `zrarm_init` drops what the arm
holds. A struct that is restored after another program drove the arm is believed:
`zrarm_catch` may then do nothing, and the limit switch compare with a wrong height.
A program that calls the arm after a restore that found no file has null pointers.

*Web server.* A connection is kept for the next request after a response cut short by a
failing file, pipe or temporary file (`BOA/get.c:263`, `pipe.c:74`, `request.c:633`),
and without any response after an option line without a colon (`request.c:665`), if a
`Connection: Keep-Alive` came before it; the lines after it are then read as a request.
A simple POST (`POST /cgi-bin/x` without a version) whose line is followed by a blank
one ends its header twice (`read.c:117` and `127`), the second temporary file overwrites
the number of the first, and the server has one descriptor less for good. A pipelined
request that has arrived whole waits on the blocked queue for something more, and is
answered when it comes or dropped at the timeout. A request that times out while it
waits for a pipe leaves the pipe's bit in the sets; once the pipe is closed `select`
fails with `EBADF`, and the loop polls, as long as `max_fd` is not below that number.
With the descriptor table full `pending_requests` stays set and the loop goes on trying
to accept. The bit of the server socket stays from one `select` to the next, so
`max_connections - 10` does not hold back a backlog that is never empty; a
`MaxConnections` of 10 or less accepts nobody. A SIGTERM just before `select`, with no
request, is noticed only when something wakes it.

*Others*, of which no comment or document promises otherwise: an `open` of the optical
device that is then refused has already reinitialised `sem` (`OPT:109`), so a process
blocked in `down` is dropped from the wait list and not even a signal wakes it;
`tcp_server` executes a command whose last half is still on its way with the angle and
speed of the one before, stays out of step after a split until some `recv` begins with a
command again, drops all but the first of several commands that arrive together (the
last may be the one that stops the car), and leaves the wheels turning when the
connection ends; a program that stops the car between the server's two calls leaves one
wheel turning; the handler wakes the waiter before it clears the status bit, so a change
in between is not reported until the next one; a failed resolution change leaves
`streamingState` paused and `cam_thread` spinning; without the files `/tmp/buffer0` ...
`ftok` fails unnoticed and all buffers share one segment; the second loop of the
shutdown runs to `outcnt` over inputs (`MJ:107`).

## 8. Running

    tlc -workers 2 -config VideoPipe_safety.cfg MCVideoPipe
    tlc -workers 2 -config VideoPipe_live.cfg MCVideoPipe
    tlc -workers 2 -config UvcCapture.cfg UvcCapture
    tlc -workers 2 -config OpticalDriver.cfg OpticalDriver
    tlc -workers 2 -config RemoteDrive.cfg RemoteDrive
    tlc -workers 2 -config FaceHandshake.cfg FaceHandshake
    tlc -workers 2 -config CarApps.cfg CarApps
    tlc -workers 2 -config ArmApi.cfg ArmApi
    tlc -workers 2 -config BoaServer.cfg MCBoaServer

and, for the three findings, `VideoPipe_free.cfg`, `FaceHandshake_undo.cfg` and
`BoaServer_shutdown.cfg`, which TLC finds violated. The proofs:

    tlapm VideoPipe_proofs.tla
    tlapm UvcCapture_proofs.tla
    tlapm OpticalDriver_proofs.tla
    tlapm RemoteDrive_proofs.tla
    tlapm FaceHandshake_proofs.tla
    tlapm CarApps_proofs.tla
    tlapm ArmApi_proofs.tla
    tlapm BoaServer_proofs.tla

Operators whose comment begins with *Mutant* are not part of the models: each is a
plausible mistake in the code, put in place of the operator after it to see that a
property notices (`PROJECT.json`, "mutants").
