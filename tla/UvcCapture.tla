------------------------------ MODULE UvcCapture ------------------------------
(***************************************************************************)
(* How input_uvc gets its frames: the ring of NB_BUFFER buffers that       *)
(* cam_thread, through uvcGrab, trades with the kernel's video driver, and *)
(* setResolution, which an HTTP client thread runs on the same struct vdIn *)
(* without a lock.  The shutdown and the clients are VideoPipe's.          *)
(*                                                                         *)
(* A step is one access to what the two threads share: vd->buf, vd->mem[], *)
(* vd->streamingState and the device behind vd->fd.  A frame is its number *)
(* (0: no frame); its bytesused is "full", or "empty" when it is at most   *)
(* HEADERFRAME1 bytes.                                                     *)
(***************************************************************************)
EXTENDS Naturals, Sequences

CONSTANTS NBuffers,   \* NB_BUFFER
          MaxFrames,  \* bound: the camera delivers at most this many
          Formats,    \* formatIn, one of them: YUYV (-y or -q), MJPEG
          DropsSmall, \* minimum_size is above HEADERFRAME1
          Commands    \* bound: resolution changes (0 under output_http -n)

ASSUME UvcCaptureAssumption ==
    /\ NBuffers \in Nat \ {0} /\ MaxFrames \in Nat /\ Commands \in Nat
    /\ Formats \subseteq {"YUYV", "MJPEG"} /\ DropsSmall \in BOOLEAN

VARIABLES
    format,     \* vd->formatIn
    up,         \* the process runs
    device,     \* kernel side of vd->fd: open, streaming, queued, done
    slots,      \* the frame and the size in each buffer of the ring
    delivered,  \* frames the camera has delivered
    mem,        \* vd->mem[]: the buffer of the ring each entry points at
    state,      \* vd->streamingState
    buf,        \* vd->buf
    source,     \* the arguments of uvcGrab's memcpy
    picture,    \* the frame in vd->tmpbuffer (MJPEG) or vd->framebuffer
    cam,        \* where cam_thread is
    published,  \* in[0].buf, in[0].timestamp and in[0].size
    cmd,        \* where setResolution is
    turn,       \* i of init_v4l2's loops over the ring
    changes,    \* resolution changes begun
    ignored,    \* history: buffers of this ring that uvcGrab has not given back
    overtaken   \* history: uvcGrab went ahead under setResolution

kernel == <<device, slots, delivered>>
thread == <<source, picture, cam, published>>
change == <<cmd, turn, changes>>
history == <<ignored, overtaken>>
vars == <<format, up, kernel, mem, state, buf, thread, change, history>>

Slots == 0 .. NBuffers - 1
InOrder == [k \in 1 .. NBuffers |-> k - 1]     \* 0, 1, ..., NBuffers - 1
Dangling == NBuffers                           \* an address not mapped any more

NoFrame == 0
Blank == [frame |-> NoFrame, size |-> "empty"]
BlankBuf(i) == [index |-> i, frame |-> NoFrame, size |-> "empty"]

\* What the driver writes into vd->buf about buffer i.
BufOf(i) == [index |-> i, frame |-> slots[i].frame, size |-> slots[i].size]

OfSeq(s) == {s[k] : k \in DOMAIN s}
WithDriver == OfSeq(device.queued) \cup OfSeq(device.done)

\* init_videoIn: init_v4l2 opens the device, maps the ring and queues all of it.
Init ==
    /\ format \in Formats
    /\ up = TRUE
    /\ device = [open |-> TRUE, streaming |-> FALSE, queued |-> InOrder,
                 done |-> <<>>]
    /\ slots = [i \in Slots |-> Blank]
    /\ mem = [i \in Slots |-> i] /\ state = "off"
    /\ buf = BlankBuf(NBuffers - 1)
    /\ source = [at |-> Dangling, size |-> "empty"]
    /\ picture = NoFrame
    /\ cam = "poll"
    /\ published = [body |-> NoFrame, stamp |-> NoFrame, size |-> "empty"]
    /\ cmd = "idle" /\ turn = 0 /\ changes = 0 /\ delivered = 0
    /\ ignored = {} /\ overtaken = FALSE

-----------------------------------------------------------------------------
\* The camera fills the oldest queued buffer.  Only MJPEG frames may be empty:
\* the driver discards short uncompressed ones.
Deliver ==
    /\ device.streaming /\ device.queued # <<>>
    /\ delivered < MaxFrames
    /\ delivered' = delivered + 1
    /\ device' = [device EXCEPT !.queued = Tail(@),
                                !.done = Append(@, Head(device.queued))]
    /\ \E size \in {"full"} \cup (IF format = "MJPEG" THEN {"empty"} ELSE {}) :
          slots' = [slots EXCEPT ![Head(device.queued)] =
                       [frame |-> delivered', size |-> size]]
    /\ UNCHANGED <<format, up, mem, state, buf, thread, change, history>>

-----------------------------------------------------------------------------
(***************************************************************************)
(* cam_thread and uvcGrab.                                                 *)
(***************************************************************************)
CamStep(from, to) == cam = from /\ cam' = to

\* exit(EXIT_FAILURE) after a failed ioctl, or a fault on unmapped memory.
Dies ==
    /\ up' = FALSE
    /\ UNCHANGED <<format, kernel, mem, state, buf, thread, change, history>>

\* while(streamingState == STREAMING_PAUSED) usleep(1);
CamPolls ==
    /\ state # "paused"
    /\ CamStep("poll", "grab")
    /\ UNCHANGED <<format, up, kernel, mem, state, buf, source, picture,
                   published, change, history>>

CamEntersGrab ==
    /\ CamStep("grab", IF state = "off" THEN "enable" ELSE "clear")
    /\ UNCHANGED <<format, up, kernel, mem, state, buf, source, picture,
                   published, change, history>>

\* video_enable: VIDIOC_STREAMON fails on a closed device, and may on one that
\* setResolution has set streaming in the meantime.
CamEnables ==
    /\ cam = "enable"
    /\ \/ /\ device.open
          /\ device' = [device EXCEPT !.streaming = TRUE]
          /\ cam' = "on"
          /\ overtaken' = (overtaken \/ changes > 0)
          /\ UNCHANGED <<format, up, slots, delivered, mem, state, buf, source,
                         picture, published, change, ignored>>
       \/ (~device.open \/ device.streaming) /\ Dies

CamSetsState ==
    /\ CamStep("on", "clear")
    /\ state' = "on"
    /\ UNCHANGED <<format, up, kernel, mem, buf, source, picture, published,
                   change, history>>

CamClears ==
    /\ CamStep("clear", "dequeue")
    /\ buf' = BlankBuf(0)
    /\ overtaken' = (overtaken \/ cmd = "query")
    /\ UNCHANGED <<format, up, kernel, mem, state, source, picture, published,
                   change, ignored>>

\* VIDIOC_DQBUF blocks until a buffer is done, and fails once the stream is off.
CamDequeues ==
    /\ cam = "dequeue"
    /\ \/ /\ device.open /\ device.streaming /\ device.done # <<>>
          /\ buf' = BufOf(Head(device.done))
          /\ device' = [device EXCEPT !.done = Tail(@)]
          /\ cam' = "check"
          /\ UNCHANGED <<format, up, slots, delivered, mem, state, source,
                         picture, published, change, history>>
       \/ ~(device.open /\ device.streaming) /\ Dies

\* Mutant: uvcGrab returns early on a YUYV frame too.
CamChecksEveryFormat ==
    /\ cam = "check"
    /\ source' = [source EXCEPT !.size = buf.size]
    /\ cam' \in {"aim", "publish"}
    /\ ignored' = ignored \cup (IF cam' = "publish" THEN {buf.index} ELSE {})
    /\ UNCHANGED <<format, up, kernel, mem, state, buf, picture, published,
                   change, overtaken>>

\* An empty MJPEG frame is "ignored": uvcGrab returns 0, and has neither copied
\* it nor queued the buffer again.
CamChecks ==
    /\ CamStep("check", IF format = "MJPEG" /\ buf.size = "empty"
                        THEN "publish" ELSE "aim")
    /\ source' = [source EXCEPT !.size = buf.size]
    /\ ignored' = ignored \cup (IF cam' = "publish" THEN {buf.index} ELSE {})
    /\ UNCHANGED <<format, up, kernel, mem, state, buf, picture, published,
                   change, overtaken>>

\* memcpy's arguments: vd->mem[vd->buf.index], and bytesused, which the compiler
\* may read again or not.
CamAims ==
    /\ CamStep("aim", "copy")
    /\ \E size \in {source.size, buf.size} :
          source' = [at |-> mem[buf.index], size |-> size]
    /\ UNCHANGED <<format, up, kernel, mem, state, buf, picture, published,
                   change, history>>

\* Mutant: the copy is made from the next buffer of the ring.
CamCopiesNextSlot ==
    /\ CamStep("copy", "requeue")
    /\ picture' = slots[(source.at + 1) % NBuffers].frame
    /\ UNCHANGED <<format, up, kernel, mem, state, buf, source, published,
                   change, history>>

\* What the memcpy finds.  At an address that was unmapped the new ring may be
\* mapped by now, or a part of one that has never streamed.
Readable ==
    IF source.at = Dangling
      THEN {NoFrame} \cup {slots[i].frame : i \in {k \in Slots : mem[k] = k}}
      ELSE {slots[source.at].frame}

\* memcpy out of the ring.
CamCopies ==
    /\ cam = "copy"
    /\ \/ /\ cam' = "requeue"
          /\ picture' \in IF source.size = "empty" THEN {picture} ELSE Readable
          /\ UNCHANGED <<format, up, kernel, mem, state, buf, source,
                         published, change, history>>
       \/ source.at = Dangling /\ source.size = "full" /\ Dies

\* VIDIOC_QBUF refuses a buffer the driver already has.
CanQueue(i) == device.open /\ i \notin WithDriver

\* Mutant: the buffer queued again is always the first of the ring.
CamRequeuesFirst ==
    /\ CamStep("requeue", "publish")
    /\ device' = [device EXCEPT !.queued = Append(@, 0)]
    /\ UNCHANGED <<format, up, slots, delivered, mem, state, buf, source,
                   picture, published, change, history>>

CamRequeues ==
    /\ cam = "requeue"
    /\ IF CanQueue(buf.index)
         THEN /\ device' = [device EXCEPT !.queued = Append(@, buf.index)]
              /\ cam' = "publish"
              /\ UNCHANGED <<format, up, slots, delivered, mem, state, buf,
                             source, picture, published, change, history>>
         ELSE Dies

\* The part of cam_thread VideoPipe looks into: a frame below minimum_size is
\* dropped, any other goes to the clients with vd->buf's timestamp and size.
CamPublishes ==
    /\ CamStep("publish", "poll")
    /\ published' = IF DropsSmall /\ buf.size = "empty"
                    THEN published
                    ELSE [body |-> picture, stamp |-> buf.frame,
                          size |-> buf.size]
    /\ UNCHANGED <<format, up, kernel, mem, state, buf, source, picture,
                   change, history>>

CamThread ==
    \/ CamPolls \/ CamEntersGrab \/ CamEnables \/ CamSetsState \/ CamClears
    \/ CamDequeues \/ CamChecks \/ CamAims \/ CamCopies \/ CamRequeues
    \/ CamPublishes

-----------------------------------------------------------------------------
(***************************************************************************)
(* setResolution, on an HTTP client's thread, one change at a time.  When  *)
(* it fails, it leaves everything as it is at that point.                  *)
(***************************************************************************)
CmdStep(from, to) == cmd = from /\ cmd' = to

CmdPauses ==
    /\ CmdStep("idle", "off")
    /\ changes < Commands
    /\ changes' = changes + 1
    /\ state' = "paused"
    /\ UNCHANGED <<format, up, kernel, mem, buf, thread, turn, history>>

\* video_disable: VIDIOC_STREAMOFF takes every buffer from the driver, and the
\* state is paused once more (cam_thread may just have set it to on).
CmdStreamOff ==
    /\ cmd = "off"
    /\ \/ /\ cmd' = "unmap"
          /\ device' = [device EXCEPT !.streaming = FALSE, !.queued = <<>>,
                                      !.done = <<>>]
          /\ state' = "paused"
       \/ cmd' = "idle" /\ UNCHANGED <<device, state>>
    /\ UNCHANGED <<format, up, slots, delivered, mem, buf, thread, turn,
                   changes, history>>

CmdUnmaps ==
    /\ CmdStep("unmap", "close")
    /\ mem' = [i \in Slots |-> Dangling]
    /\ source' = [source EXCEPT !.at = Dangling]
    /\ UNCHANGED <<format, up, kernel, state, buf, picture, cam, published,
                   turn, changes, history>>

\* close: the driver ends the stream and takes its buffers back.
CmdCloses ==
    /\ CmdStep("close", "open")
    /\ device' = [open |-> FALSE, streaming |-> FALSE, queued |-> <<>>,
                  done |-> <<>>]
    /\ UNCHANGED <<format, up, slots, delivered, mem, state, buf, thread, turn,
                   changes, history>>

\* init_v4l2: open, S_FMT, S_PARM and REQBUFS give a new ring, or one fails.
CmdOpens ==
    /\ cmd = "open"
    /\ \/ /\ cmd' = "map" /\ turn' = 0
          /\ device' = [device EXCEPT !.open = TRUE]
          /\ slots' = [i \in Slots |-> Blank]
          /\ ignored' = {}
       \/ cmd' = "idle" /\ UNCHANGED <<device, slots, turn, ignored>>
    /\ UNCHANGED <<format, up, delivered, mem, state, buf, thread, changes,
                   overtaken>>

\* Mutant: the loops run over one buffer too many.
CmdSelectsTooMany ==
    /\ \/ CmdStep("map", "query") \/ CmdStep("fill", "queue")
    /\ buf' = BlankBuf(IF turn = NBuffers - 1 THEN NBuffers ELSE turn)
    /\ UNCHANGED <<format, up, kernel, mem, state, thread, turn, changes,
                   history>>

\* memset and vd->buf.index = i, the head of both loops.
CmdSelects ==
    /\ \/ CmdStep("map", "query") \/ CmdStep("fill", "queue")
    /\ buf' = BlankBuf(turn)
    /\ UNCHANGED <<format, up, kernel, mem, state, thread, turn, changes,
                   history>>

\* The loop goes on with the next buffer, or setResolution with its next step.
Loops(again, next) ==
    IF turn < NBuffers - 1 THEN cmd' = again /\ turn' = turn + 1
                           ELSE cmd' = next /\ turn' = 0

\* QUERYBUF asks for the buffer vd->buf names by now, and mmap maps that one.
CmdMaps ==
    /\ cmd = "query"
    /\ \/ /\ buf' = BufOf(buf.index)
          /\ mem' = [mem EXCEPT ![turn] = buf.index]
          /\ Loops("map", "fill")
       \/ cmd' = "idle" /\ UNCHANGED <<buf, mem, turn>>
    /\ UNCHANGED <<format, up, kernel, state, thread, changes, history>>

\* QBUF of the buffer vd->buf names by now.
CmdQueues ==
    /\ cmd = "queue"
    /\ IF CanQueue(buf.index)
         THEN /\ device' = [device EXCEPT !.queued = Append(@, buf.index)]
              /\ Loops("fill", "enable")
         ELSE cmd' = "idle" /\ UNCHANGED <<device, turn>>
    /\ UNCHANGED <<format, up, slots, delivered, mem, state, buf, thread,
                   changes, history>>

\* video_enable, whose result is not looked at.
CmdEnables ==
    /\ CmdStep("enable", "idle")
    /\ \/ device' = [device EXCEPT !.streaming = TRUE] /\ state' = "on"
       \/ UNCHANGED <<device, state>>
    /\ UNCHANGED <<format, up, slots, delivered, mem, buf, thread, turn,
                   changes, history>>

SetResolution ==
    \/ CmdPauses \/ CmdStreamOff \/ CmdUnmaps \/ CmdCloses \/ CmdOpens
    \/ CmdSelects \/ CmdMaps \/ CmdQueues \/ CmdEnables

\* The end of a bounded run.
Exhausted == delivered = MaxFrames

Next ==
    \/ up /\ (Deliver \/ CamThread \/ SetResolution)
    \/ (~up \/ Exhausted) /\ UNCHANGED vars

\* The camera fills the buffers it is given, and cam_thread runs.
Fairness == WF_vars(up /\ Deliver) /\ WF_vars(up /\ CamThread)

Spec == Init /\ [][Next]_vars
FairSpec == Spec /\ Fairness

-----------------------------------------------------------------------------
Frames == 0 .. MaxFrames
Sizes == {"empty", "full"}

TypeOK ==
    /\ format \in Formats /\ up \in BOOLEAN
    /\ device \in [open : BOOLEAN, streaming : BOOLEAN, queued : Seq(Slots),
                   done : Seq(Slots)]
    /\ slots \in [Slots -> [frame : Frames, size : Sizes]]
    /\ mem \in [Slots -> Slots \cup {Dangling}]
    /\ state \in {"off", "on", "paused"}
    /\ buf \in [index : Slots, frame : Frames, size : Sizes]
    /\ source \in [at : Slots \cup {Dangling}, size : Sizes]
    /\ picture \in Frames
    /\ cam \in {"poll", "grab", "enable", "on", "clear", "dequeue", "check",
                "aim", "copy", "requeue", "publish"}
    /\ published \in [body : Frames, stamp : Frames, size : Sizes]
    /\ cmd \in {"idle", "off", "unmap", "close", "open", "map", "query",
                "fill", "queue", "enable"}
    /\ turn \in Slots
    /\ changes \in 0 .. Commands /\ delivered \in Frames
    /\ ignored \subseteq Slots /\ overtaken \in BOOLEAN

\* Nobody has changed the resolution yet: the way the robot uses the program.
Usual == changes = 0
Held == IF cam \in {"check", "aim", "copy", "requeue"} THEN {buf.index} ELSE {}

NoRepeats(s) == \A j, k \in DOMAIN s : s[j] = s[k] => j = k

(* The driver never has a buffer twice.  Until somebody changes the          *)
(* resolution it has every one, but the one uvcGrab is copying and the empty *)
(* ones it has ignored.  A change that succeeds makes the ring whole again,  *)
(* whatever uvcGrab was doing, unless uvcGrab went ahead in the middle of    *)
(* it.  Lost buffers starve the camera, doubled ones are written while read. *)
RingConserved ==
    /\ NoRepeats(device.queued \o device.done)
    /\ Usual => /\ WithDriver = Slots \ (Held \cup ignored)
                /\ ignored # {} => format = "MJPEG"
    /\ (device.streaming /\ cmd = "idle" /\ ~overtaken) =>
          /\ Slots \ WithDriver \subseteq Held \cup ignored
          /\ \A i \in Slots : mem[i] = i

(* Until somebody changes the resolution each pass of cam_thread that        *)
(* publishes, publishes a frame newer than the last, whole and under its own *)
(* timestamp: what VideoPipe takes from uvcGrab.  Only after an empty MJPEG  *)
(* buffer it publishes the last picture again.                               *)
PublishesNewFrames ==
    [][Usual /\ cam = "publish" /\ cam' = "poll" =>
         IF buf.size = "full"
           THEN /\ published'.body > published.body
                /\ published'.body = published'.stamp
                /\ published'.size = "full"
           ELSE format = "MJPEG" /\ published'.body = published.body]_vars

(* A picture never gives way to an older one, whatever setResolution does to *)
(* vd->buf and the ring while uvcGrab is using them: at worst it is blank.   *)
(* This fails once uvcGrab has turned the stream on, or has cleared vd->buf  *)
(* before a QUERYBUF, in the middle of a change.                             *)
PicturesNeverGoBack ==
    [][~overtaken => picture' >= picture \/ picture' = NoFrame]_vars

(* In YUYV a cam_thread that waits for a frame gets one and publishes it,    *)
(* unless somebody changes the resolution.                                   *)
CaptureNeverStalls ==
    (cam = "dequeue" /\ format = "YUYV")
        ~> (~up \/ cam = "publish" \/ Exhausted \/ changes > 0)

=============================================================================
