-------------------------- MODULE UvcCapture_proofs --------------------------
(***************************************************************************)
(* The ring's safety for any number of buffers, frames and resolution      *)
(* changes.  FollowInv is how setResolution builds the new ring in spite   *)
(* of a uvcGrab that goes on with the old one.  AheadInv is the argument   *)
(* why a picture never goes back: the frames that are done, and the one    *)
(* uvcGrab is about to copy, are newer than the picture, or the buffer was *)
(* changed under uvcGrab and the QBUF it is heading for fails.  UsualInv   *)
(* is the undisturbed ring.                                                *)
(***************************************************************************)
EXTENDS UvcCapture, SequenceTheorems, TLAPS

(* No buffer is with the driver twice.                                       *)
DistinctInv ==
    /\ NoRepeats(device.queued) /\ NoRepeats(device.done)
    /\ OfSeq(device.queued) \cap OfSeq(device.done) = {}

(* No frame is done on a device that is off, and no buffer is queued on one  *)
(* that is closed.                                                           *)
Building == {"map", "query", "fill", "queue", "enable"}

KernelInv ==
    /\ ~device.streaming => device.done = <<>>
    /\ ~device.open => ~device.streaming /\ device.queued = <<>>
    /\ cmd = "open" => ~device.open
    /\ cmd \in Building => device.open
    /\ cmd # "idle" => changes > 0

(* The loops of init_v4l2 have done the buffers below turn.  The stream is   *)
(* off until they are through, and then the ring is whole.                   *)
Below(n) == {i \in Slots : i < n}
Blanks == \A i \in Slots : slots[i].frame = NoFrame
Whole == \A i \in Slots : mem[i] = i

Follow ==
    /\ \A i \in Slots : mem[i] \in {i, Dangling}
    /\ device.streaming =>
           /\ cmd \in {"idle", "off"} /\ Whole
           /\ Slots \ WithDriver \subseteq Held \cup ignored
    /\ Whole \/ \A i \in Slots : mem[i] = i => slots[i].frame = NoFrame
    /\ cmd \in Building => Blanks
    /\ cmd \in {"map", "query"} => \A i \in Below(turn) : mem[i] = i
    /\ cmd = "query" => buf.index = turn
    /\ cmd \in {"fill", "queue", "enable"} => Whole
    /\ cmd \in {"fill", "queue"} => Below(turn) \subseteq WithDriver
    /\ cmd = "queue" => buf.index \in {0, turn}
    /\ cmd = "enable" => WithDriver = Slots

FollowInv == ~overtaken => Follow

(* uvcGrab holds vd->buf.                                                    *)
Holds == cam \in {"check", "aim", "copy", "requeue"}

(* setResolution gave the buffer that uvcGrab holds to the driver.           *)
Doomed == Holds /\ buf.index \in WithDriver

NotBehind(i) == slots[i].frame = NoFrame \/ slots[i].frame >= picture

DoneInv ==
    /\ picture <= delivered
    /\ \A i \in Slots : slots[i].frame <= delivered
    /\ \A i \in OfSeq(device.done) : slots[i].frame > NoFrame
    /\ \A j, k \in 1 .. Len(device.done) :
           j < k => slots[device.done[j]].frame < slots[device.done[k]].frame

Ahead ==
    /\ cam \in {"check", "aim"} => NotBehind(buf.index)
    /\ cam = "copy" =>
           \A i \in Slots : \/ i = source.at
                            \/ source.at = Dangling /\ mem[i] = i
                            => NotBehind(i)
    /\ (Doomed /\ cam # "requeue") => \A i \in Slots : NotBehind(i)
    /\ ~Doomed => \A i \in OfSeq(device.done) : picture <= slots[i].frame
    /\ (Holds /\ ~Doomed /\ cam # "requeue") =>
           \A i \in OfSeq(device.done) :
               slots[buf.index].frame <= slots[i].frame
    /\ (device.streaming /\ cam = "copy" /\ ~Doomed) => source.at = buf.index

AheadInv == ~overtaken => Ahead

(* The undisturbed ring: uvcGrab has taken a frame newer than the published  *)
(* one, or the picture is the published one.                                 *)
Taken == Holds \/ cam = "publish"

Undisturbed ==
    /\ device.open /\ ~overtaken /\ Whole
    /\ WithDriver = Slots \ (Held \cup ignored) /\ Held \cap ignored = {}
    /\ ignored # {} => format = "MJPEG"
    /\ published.body <= delivered
    /\ \A i \in OfSeq(device.done) :
           /\ slots[i].frame > published.body
           /\ Taken => slots[i].frame > buf.frame
           /\ format = "YUYV" => slots[i].size = "full"
    /\ Taken => /\ buf.frame > published.body /\ buf.frame <= delivered
                /\ format = "YUYV" => buf.size = "full"
    /\ Holds => BufOf(buf.index) = buf
    /\ cam \in {"aim", "copy", "requeue"} =>
           buf.size = "full" /\ source.size = "full"
    /\ cam = "copy" => source.at = buf.index
    /\ picture = IF cam = "requeue" \/ (cam = "publish" /\ buf.size = "full")
                   THEN buf.frame ELSE published.body

UsualInv == Usual => Undisturbed

IInv == /\ TypeOK /\ DistinctInv /\ KernelInv /\ FollowInv /\ DoneInv
        /\ AheadInv /\ UsualInv

-----------------------------------------------------------------------------
(* What is in a queue of buffers once its first is taken, or one is added.   *)
LEMMA TailKeepsRest ==
    ASSUME NEW S, NEW s \in Seq(S), s # <<>>, NoRepeats(s)
    PROVE  /\ Head(s) \in OfSeq(s) /\ Head(s) \in S /\ Head(s) = s[1]
           /\ Tail(s) \in Seq(S) /\ Len(Tail(s)) = Len(s) - 1
           /\ OfSeq(Tail(s)) = OfSeq(s) \ {Head(s)} /\ NoRepeats(Tail(s))
           /\ \A k \in 1 .. Len(Tail(s)) : Tail(s)[k] = s[k + 1]
<1>1. /\ Len(s) \in Nat \ {0} /\ DOMAIN s = 1 .. Len(s)
      /\ Head(s) = s[1] /\ Head(s) \in S
  BY EmptySeq, LenProperties, HeadTailProperties
<1>2. /\ Tail(s) \in Seq(S) /\ Len(Tail(s)) = Len(s) - 1
      /\ \A k \in 1 .. Len(Tail(s)) : Tail(s)[k] = s[k + 1]
  BY HeadTailProperties
<1>3. DOMAIN Tail(s) = 1 .. Len(Tail(s))
  BY <1>2, LenProperties
<1>4. NoRepeats(Tail(s))
  BY <1>1, <1>2, <1>3 DEF NoRepeats
<1>5. Head(s) \in OfSeq(s)
  BY <1>1 DEF OfSeq
<1>6. OfSeq(Tail(s)) \subseteq OfSeq(s) \ {Head(s)}
  <2> SUFFICES ASSUME NEW k \in 1 .. Len(Tail(s))
               PROVE  Tail(s)[k] \in OfSeq(s) \ {Head(s)}
    BY <1>3 DEF OfSeq
  <2>1. k + 1 \in DOMAIN s /\ k + 1 # 1
    BY <1>1, <1>2
  <2> QED
    BY <1>1, <1>2, <2>1 DEF OfSeq, NoRepeats
<1>7. OfSeq(s) \ {Head(s)} \subseteq OfSeq(Tail(s))
  <2> SUFFICES ASSUME NEW k \in 1 .. Len(s), k # 1
               PROVE  s[k] \in OfSeq(Tail(s))
    BY <1>1 DEF OfSeq
  <2>1. k - 1 \in DOMAIN Tail(s) /\ Tail(s)[k - 1] = s[k]
    BY <1>1, <1>2, <1>3
  <2> QED
    BY <2>1 DEF OfSeq
<1> QED
  BY <1>1, <1>2, <1>4, <1>5, <1>6, <1>7

(* The same of a buffer put at the end of a queue ...                        *)
LEMMA AppendAddsOne ==
    ASSUME NEW S, NEW s \in Seq(S), NEW e \in S, NoRepeats(s), e \notin OfSeq(s)
    PROVE  /\ Append(s, e) \in Seq(S) /\ Len(Append(s, e)) = Len(s) + 1
           /\ OfSeq(Append(s, e)) = OfSeq(s) \cup {e}
           /\ NoRepeats(Append(s, e))
           /\ \A k \in 1 .. Len(s) : Append(s, e)[k] = s[k]
           /\ Append(s, e)[Len(s) + 1] = e
<1>1. /\ Append(s, e) \in Seq(S) /\ Len(Append(s, e)) = Len(s) + 1
      /\ \A k \in 1 .. Len(s) : Append(s, e)[k] = s[k]
      /\ Append(s, e)[Len(s) + 1] = e
  BY AppendProperties
<1>2. /\ Len(s) \in Nat /\ DOMAIN s = 1 .. Len(s)
      /\ DOMAIN Append(s, e) = 1 .. Len(Append(s, e))
  BY <1>1, LenProperties
<1>3. OfSeq(Append(s, e)) = OfSeq(s) \cup {e}
  <2>1. 1 .. Len(Append(s, e)) = (1 .. Len(s)) \cup {Len(s) + 1}
    BY <1>1, <1>2
  <2> QED
    BY <1>1, <1>2, <2>1 DEF OfSeq
<1>4. NoRepeats(Append(s, e))
  <2>1. \A k \in 1 .. Len(s) : s[k] # e
    BY <1>2 DEF OfSeq
  <2>2. \A k \in 1 .. Len(s) + 1 : k \in 1 .. Len(s) \/ k = Len(s) + 1
    BY <1>2
  <2> QED
    BY <1>1, <2>1, <2>2 DEF NoRepeats
<1> QED
  BY <1>1, <1>3, <1>4

(* ... and one queue after another has each once, if neither has the other's.*)
LEMMA ConcatDistinct ==
    ASSUME NEW S, NEW s \in Seq(S), NEW t \in Seq(S), NoRepeats(s),
           NoRepeats(t), OfSeq(s) \cap OfSeq(t) = {}
    PROVE  NoRepeats(s \o t)
<1>1. /\ s \o t \in Seq(S) /\ Len(s \o t) = Len(s) + Len(t)
      /\ \A k \in 1 .. Len(s) + Len(t) :
             (s \o t)[k] = IF k <= Len(s) THEN s[k] ELSE t[k - Len(s)]
  BY ConcatProperties
<1>2. /\ Len(s) \in Nat /\ Len(t) \in Nat
      /\ DOMAIN s = 1 .. Len(s) /\ DOMAIN t = 1 .. Len(t)
      /\ DOMAIN (s \o t) = 1 .. Len(s) + Len(t)
  BY <1>1, LenProperties
<1>3. \A j \in 1 .. Len(s), k \in 1 .. Len(t) : s[j] # t[k]
  BY <1>2 DEF OfSeq
<1> SUFFICES ASSUME NEW j \in 1 .. Len(s) + Len(t),
                    NEW k \in 1 .. Len(s) + Len(t), (s \o t)[j] = (s \o t)[k]
             PROVE  j = k
  BY <1>2 DEF NoRepeats
<1>4. CASE j <= Len(s) /\ k <= Len(s)
  BY <1>1, <1>2, <1>4 DEF NoRepeats
<1>5. CASE j > Len(s) /\ k > Len(s)
  <2>1. j - Len(s) \in 1 .. Len(t) /\ k - Len(s) \in 1 .. Len(t)
    BY <1>2, <1>5
  <2>2. t[j - Len(s)] = t[k - Len(s)]
    BY <1>1, <1>2, <1>5
  <2>3. j - Len(s) = k - Len(s)
    BY <1>2, <2>1, <2>2 DEF NoRepeats
  <2> QED
    BY <1>2, <2>3
<1>6. CASE j <= Len(s) /\ k > Len(s)
  <2>1. j \in 1 .. Len(s) /\ k - Len(s) \in 1 .. Len(t)
    BY <1>2, <1>6
  <2> QED
    BY <1>1, <1>2, <1>3, <1>6, <2>1
<1>7. CASE j > Len(s) /\ k <= Len(s)
  <2>1. k \in 1 .. Len(s) /\ j - Len(s) \in 1 .. Len(t)
    BY <1>2, <1>7
  <2> QED
    BY <1>1, <1>2, <1>3, <1>7, <2>1
<1> QED
  BY <1>2, <1>4, <1>5, <1>6, <1>7

-----------------------------------------------------------------------------
(* What the camera, DQBUF and QBUF do to the two queues of the driver.       *)
LEMMA DeliverEffect ==
    ASSUME TypeOK, DistinctInv, Deliver
    PROVE  LET h == Head(device.queued) IN
           /\ h \in OfSeq(device.queued) /\ h \in Slots
           /\ device' \in [open : BOOLEAN, streaming : BOOLEAN,
                           queued : Seq(Slots), done : Seq(Slots)]
           /\ device'.open = device.open /\ device'.streaming
           /\ NoRepeats(device'.queued) /\ NoRepeats(device'.done)
           /\ OfSeq(device'.queued) = OfSeq(device.queued) \ {h}
           /\ OfSeq(device'.done) = OfSeq(device.done) \cup {h}
           /\ Len(device'.queued) = Len(device.queued) - 1
           /\ Len(device'.done) = Len(device.done) + 1
           /\ \A k \in 1 .. Len(device.done) : device'.done[k] = device.done[k]
           /\ device'.done[Len(device.done) + 1] = h
           /\ slots' \in [Slots -> [frame : Frames, size : Sizes]]
           /\ slots'[h].frame = delivered + 1
           /\ format = "YUYV" => slots'[h].size = "full"
           /\ \A i \in Slots \ {h} : slots'[i] = slots[i]
           /\ delivered \in Nat /\ delivered' = delivered + 1
           /\ delivered' \in Frames
<1> USE UvcCaptureAssumption
<1> DEFINE h == Head(device.queued)
<1>1. /\ device \in [open : BOOLEAN, streaming : BOOLEAN,
                       queued : Seq(Slots), done : Seq(Slots)]
      /\ device.queued \in Seq(Slots) /\ device.queued # <<>>
      /\ device.done \in Seq(Slots) /\ device.streaming
      /\ device' = [device EXCEPT !.queued = Tail(device.queued),
                                  !.done = Append(device.done, h)]
  BY DEF TypeOK, Deliver
<1>2. /\ device'.queued = Tail(device.queued)
      /\ device'.done = Append(device.done, h)
      /\ device'.open = device.open /\ device'.streaming = device.streaming
  BY <1>1
<1>3. /\ h \in OfSeq(device.queued) /\ h \in Slots
      /\ Tail(device.queued) \in Seq(Slots)
      /\ Len(Tail(device.queued)) = Len(device.queued) - 1
      /\ OfSeq(Tail(device.queued)) = OfSeq(device.queued) \ {h}
      /\ NoRepeats(Tail(device.queued))
  BY <1>1, TailKeepsRest DEF DistinctInv
<1>4. h \notin OfSeq(device.done) /\ NoRepeats(device.done)
  BY <1>3 DEF DistinctInv
<1>5. /\ Append(device.done, h) \in Seq(Slots)
      /\ Len(Append(device.done, h)) = Len(device.done) + 1
      /\ OfSeq(Append(device.done, h)) = OfSeq(device.done) \cup {h}
      /\ NoRepeats(Append(device.done, h))
      /\ \A k \in 1 .. Len(device.done) :
             Append(device.done, h)[k] = device.done[k]
      /\ Append(device.done, h)[Len(device.done) + 1] = h
  BY <1>1, <1>3, <1>4, AppendAddsOne
<1>6. device' \in [open : BOOLEAN, streaming : BOOLEAN,
                   queued : Seq(Slots), done : Seq(Slots)]
  BY <1>1, <1>3, <1>5
<1>7. /\ delivered \in Nat /\ delivered' = delivered + 1
      /\ delivered' \in Frames
  BY SMTT(40) DEF TypeOK, Deliver, Frames
<1>8. PICK size \in Sizes :
           /\ slots' = [slots EXCEPT ![h] =
                           [frame |-> delivered', size |-> size]]
           /\ format = "YUYV" => size = "full"
  <2>1. PICK size \in {"full"} \cup
                         (IF format = "MJPEG" THEN {"empty"} ELSE {}) :
            slots' = [slots EXCEPT ![h] = [frame |-> delivered', size |-> size]]
    BY DEF Deliver
  <2> QED
    BY <2>1 DEF Sizes
<1>9. slots \in [Slots -> [frame : Frames, size : Sizes]]
  BY DEF TypeOK
<1>10. /\ slots' \in [Slots -> [frame : Frames, size : Sizes]]
       /\ slots'[h].frame = delivered + 1
       /\ format = "YUYV" => slots'[h].size = "full"
       /\ \A i \in Slots \ {h} : slots'[i] = slots[i]
  BY <1>3, <1>7, <1>8, <1>9
<1> QED
  BY <1>1, <1>2, <1>3, <1>5, <1>6, <1>7, <1>10

(* What DQBUF leaves in the queues.                                          *)
LEMMA DequeueEffect ==
    ASSUME TypeOK, DistinctInv, device.done # <<>>,
           device' = [device EXCEPT !.done = Tail(@)]
    PROVE  LET h == Head(device.done) IN
           /\ h \in OfSeq(device.done) /\ h \in Slots /\ h = device.done[1]
           /\ device' \in [open : BOOLEAN, streaming : BOOLEAN,
                           queued : Seq(Slots), done : Seq(Slots)]
           /\ device'.open = device.open
           /\ device'.streaming = device.streaming
           /\ device'.queued = device.queued /\ NoRepeats(device'.done)
           /\ OfSeq(device'.done) = OfSeq(device.done) \ {h}
           /\ Len(device'.done) = Len(device.done) - 1
           /\ \A k \in 1 .. Len(device'.done) :
                  device'.done[k] = device.done[k + 1]
<1>1. /\ device \in [open : BOOLEAN, streaming : BOOLEAN,
                       queued : Seq(Slots), done : Seq(Slots)]
      /\ device.done \in Seq(Slots)
      /\ device' = [device EXCEPT !.done = Tail(device.done)]
  BY DEF TypeOK
<1>2. /\ device'.done = Tail(device.done) /\ device'.queued = device.queued
      /\ device'.open = device.open /\ device'.streaming = device.streaming
  BY <1>1
<1>3. /\ Head(device.done) \in OfSeq(device.done)
      /\ Head(device.done) \in Slots /\ Head(device.done) = device.done[1]
      /\ Tail(device.done) \in Seq(Slots)
      /\ Len(Tail(device.done)) = Len(device.done) - 1
      /\ OfSeq(Tail(device.done)) = OfSeq(device.done) \ {Head(device.done)}
      /\ NoRepeats(Tail(device.done))
      /\ \A k \in 1 .. Len(Tail(device.done)) :
             Tail(device.done)[k] = device.done[k + 1]
  BY <1>1, TailKeepsRest DEF DistinctInv
<1>4. device' \in [open : BOOLEAN, streaming : BOOLEAN,
                   queued : Seq(Slots), done : Seq(Slots)]
  BY <1>1, <1>3
<1> QED
  BY <1>2, <1>3, <1>4

(* What QBUF leaves in the queues.                                           *)
LEMMA QueueEffect ==
    ASSUME TypeOK, DistinctInv, NEW i \in Slots, CanQueue(i),
           device' = [device EXCEPT !.queued = Append(@, i)]
    PROVE  /\ device' \in [open : BOOLEAN, streaming : BOOLEAN,
                           queued : Seq(Slots), done : Seq(Slots)]
           /\ device'.open = device.open
           /\ device'.streaming = device.streaming
           /\ device'.done = device.done /\ NoRepeats(device'.queued)
           /\ OfSeq(device'.queued) = OfSeq(device.queued) \cup {i}
           /\ Len(device'.queued) = Len(device.queued) + 1
           /\ i \notin OfSeq(device.queued) /\ i \notin OfSeq(device.done)
<1>1. /\ device \in [open : BOOLEAN, streaming : BOOLEAN,
                       queued : Seq(Slots), done : Seq(Slots)]
      /\ device.queued \in Seq(Slots)
      /\ device' = [device EXCEPT !.queued = Append(device.queued, i)]
  BY DEF TypeOK
<1>2. /\ device'.queued = Append(device.queued, i)
      /\ device'.done = device.done
      /\ device'.open = device.open /\ device'.streaming = device.streaming
  BY <1>1
<1>3. i \notin OfSeq(device.queued) /\ i \notin OfSeq(device.done)
  BY DEF CanQueue, WithDriver
<1>4. /\ Append(device.queued, i) \in Seq(Slots)
      /\ Len(Append(device.queued, i)) = Len(device.queued) + 1
      /\ OfSeq(Append(device.queued, i)) = OfSeq(device.queued) \cup {i}
      /\ NoRepeats(Append(device.queued, i))
  BY <1>1, <1>3, AppendAddsOne DEF DistinctInv
<1>5. device' \in [open : BOOLEAN, streaming : BOOLEAN,
                   queued : Seq(Slots), done : Seq(Slots)]
  BY <1>1, <1>4
<1> QED
  BY <1>2, <1>3, <1>4, <1>5

-----------------------------------------------------------------------------
(* The two values the threads write to vd->buf.                              *)
LEMMA BufTypes ==
    ASSUME TypeOK, NEW i \in Slots
    PROVE  /\ BufOf(i) \in [index : Slots, frame : Frames, size : Sizes]
           /\ BlankBuf(i) \in [index : Slots, frame : Frames, size : Sizes]
<1> USE UvcCaptureAssumption
<1>1. slots[i].frame \in Frames /\ slots[i].size \in Sizes
  BY DEF TypeOK
<1>2. NoFrame \in Frames /\ "empty" \in Sizes
  BY DEF NoFrame, Frames, Sizes
<1> QED
  BY <1>1, <1>2 DEF BufOf, BlankBuf

(* Every action, of the camera, of uvcGrab and of setResolution, keeps the   *)
(* types: above all both threads leave in vd->buf an index of the ring, and  *)
(* nothing but such indices is ever queued.                                  *)
LEMMA TypeStep ==
    ASSUME TypeOK, DistinctInv, [Next]_vars
    PROVE  TypeOK'
<1> USE UvcCaptureAssumption DEF kernel, thread, change, history
<1>1. CASE UNCHANGED vars
  BY <1>1 DEF vars, TypeOK
<1>2. CASE Dies
  BY <1>2, ZenonT(40) DEF Dies, TypeOK
<1>3. CASE Deliver
  <2>1. /\ device' \in [open : BOOLEAN, streaming : BOOLEAN,
                        queued : Seq(Slots), done : Seq(Slots)]
        /\ slots' \in [Slots -> [frame : Frames, size : Sizes]]
        /\ delivered' \in Frames
    BY <1>3, DeliverEffect
  <2> QED
    BY <1>3, <2>1 DEF Deliver, TypeOK
<1>4. CASE CamPolls \/ CamEntersGrab \/ CamSetsState
  <2>1. /\ cam' \in {"grab", "enable", "clear"}
        /\ state' = state \/ state' = "on"
    BY <1>4 DEF CamPolls, CamEntersGrab, CamSetsState, CamStep
  <2>2. /\ UNCHANGED <<format, up, kernel, mem, buf, source, picture>>
        /\ UNCHANGED <<published, change, history>>
    BY <1>4 DEF CamPolls, CamEntersGrab, CamSetsState
  <2> QED
    BY <2>1, <2>2 DEF TypeOK
<1>5. CASE CamEnables /\ ~Dies
  <2>1. /\ device' \in [open : BOOLEAN, streaming : BOOLEAN,
                        queued : Seq(Slots), done : Seq(Slots)]
        /\ overtaken' \in BOOLEAN
    BY <1>5 DEF CamEnables, TypeOK
  <2> QED
    BY <1>5, <2>1 DEF CamEnables, TypeOK
<1>6. CASE CamDequeues /\ ~Dies
  <2>1. /\ device.done # <<>> /\ device' = [device EXCEPT !.done = Tail(@)]
        /\ buf' = BufOf(Head(device.done)) /\ cam' = "check"
        /\ UNCHANGED <<format, up, slots, delivered, mem, state, source>>
        /\ UNCHANGED <<picture, published, change, history>>
    BY <1>6 DEF CamDequeues
  <2>2. /\ Head(device.done) \in Slots
        /\ device' \in [open : BOOLEAN, streaming : BOOLEAN,
                        queued : Seq(Slots), done : Seq(Slots)]
    BY <2>1, DequeueEffect
  <2>3. buf' \in [index : Slots, frame : Frames, size : Sizes]
    BY <2>1, <2>2, BufTypes
  <2> QED
    BY <2>1, <2>2, <2>3 DEF TypeOK
<1>7. CASE CamClears
  <2>1. 0 \in Slots /\ overtaken' \in BOOLEAN
    BY <1>7 DEF CamClears, TypeOK, Slots
  <2>2. buf' \in [index : Slots, frame : Frames, size : Sizes]
    BY <1>7, <2>1, BufTypes DEF CamClears
  <2> QED
    BY <1>7, <2>1, <2>2 DEF CamClears, CamStep, TypeOK
<1>8. CASE CamChecks
  <2>1. /\ source' \in [at : Slots \cup {Dangling}, size : Sizes]
        /\ ignored' \subseteq Slots /\ cam' \in {"publish", "aim"}
    BY <1>8 DEF CamChecks, CamStep, TypeOK
  <2> QED
    BY <1>8, <2>1 DEF CamChecks, TypeOK
<1>9. CASE CamAims
  <2>1. mem[buf.index] \in Slots \cup {Dangling}
    BY DEF TypeOK
  <2>2. source' \in [at : Slots \cup {Dangling}, size : Sizes]
    BY <1>9, <2>1 DEF CamAims, TypeOK
  <2> QED
    BY <1>9, <2>2 DEF CamAims, CamStep, TypeOK
<1>10. CASE CamCopies /\ ~Dies
  <2>1. Readable \subseteq Frames
    <3>1. NoFrame \in Frames /\ \A i \in Slots : slots[i].frame \in Frames
      BY DEF TypeOK, NoFrame, Frames
    <3>2. source.at \in Slots \cup {Dangling}
      BY DEF TypeOK
    <3> QED
      BY <3>1, <3>2 DEF Readable
  <2>2. picture' \in Frames
    BY <1>10, <2>1 DEF CamCopies, TypeOK
  <2> QED
    BY <1>10, <2>2 DEF CamCopies, TypeOK
<1>11. CASE CamRequeues /\ ~Dies
  <2>1. /\ CanQueue(buf.index) /\ buf.index \in Slots /\ cam' = "publish"
        /\ device' = [device EXCEPT !.queued = Append(@, buf.index)]
        /\ UNCHANGED <<format, up, slots, delivered, mem, state, buf>>
        /\ UNCHANGED <<source, picture, published, change, history>>
    BY <1>11 DEF CamRequeues, TypeOK
  <2>2. device' \in [open : BOOLEAN, streaming : BOOLEAN,
                     queued : Seq(Slots), done : Seq(Slots)]
    BY <2>1, QueueEffect
  <2> QED
    BY <2>1, <2>2 DEF TypeOK
<1>12. CASE CamPublishes
  BY <1>12 DEF CamPublishes, CamStep, TypeOK
<1>13. CASE CmdPauses
  <2>1. changes' \in 0 .. Commands
    BY <1>13 DEF CmdPauses, TypeOK
  <2> QED
    BY <1>13, <2>1 DEF CmdPauses, CmdStep, TypeOK
<1>14. CASE CmdStreamOff
  <2>1. device' \in [open : BOOLEAN, streaming : BOOLEAN,
                     queued : Seq(Slots), done : Seq(Slots)]
    <3>1. <<>> \in Seq(Slots)
      BY EmptySeq
    <3> QED
      BY <1>14, <3>1 DEF CmdStreamOff, TypeOK
  <2>2. state' \in {"off", "on", "paused"} /\ cmd' \in {"unmap", "idle"}
    BY <1>14 DEF CmdStreamOff, TypeOK
  <2> QED
    BY <1>14, <2>1, <2>2 DEF CmdStreamOff, TypeOK
<1>15. CASE CmdUnmaps
  <2>1. mem' \in [Slots -> Slots \cup {Dangling}]
    BY <1>15 DEF CmdUnmaps
  <2>2. source' \in [at : Slots \cup {Dangling}, size : Sizes]
    BY <1>15 DEF CmdUnmaps, TypeOK
  <2> QED
    BY <1>15, <2>1, <2>2 DEF CmdUnmaps, CmdStep, TypeOK
<1>16. CASE CmdCloses
  <2>1. <<>> \in Seq(Slots)
    BY EmptySeq
  <2>2. device' \in [open : BOOLEAN, streaming : BOOLEAN,
                     queued : Seq(Slots), done : Seq(Slots)]
    BY <1>16, <2>1 DEF CmdCloses
  <2> QED
    BY <1>16, <2>2 DEF CmdCloses, CmdStep, TypeOK
<1>17. CASE CmdOpens
  <2>1. device' \in [open : BOOLEAN, streaming : BOOLEAN,
                     queued : Seq(Slots), done : Seq(Slots)]
    BY <1>17 DEF CmdOpens, TypeOK
  <2>2. slots' \in [Slots -> [frame : Frames, size : Sizes]]
    BY <1>17, SMTT(40) DEF CmdOpens, TypeOK, Blank, NoFrame, Frames, Sizes
  <2>3. turn' \in Slots /\ ignored' \subseteq Slots /\ cmd' \in {"map", "idle"}
    BY <1>17 DEF CmdOpens, TypeOK, Slots
  <2> QED
    BY <1>17, <2>1, <2>2, <2>3 DEF CmdOpens, TypeOK
<1>18. CASE CmdSelects
  <2>1. turn \in Slots
    BY DEF TypeOK
  <2>2. buf' \in [index : Slots, frame : Frames, size : Sizes]
    BY <1>18, <2>1, BufTypes DEF CmdSelects
  <2>3. cmd' \in {"query", "queue"}
    BY <1>18 DEF CmdSelects, CmdStep
  <2> QED
    BY <1>18, <2>2, <2>3 DEF CmdSelects, TypeOK
<1>19. ASSUME NEW again \in {"map", "fill"}, NEW next \in {"fill", "enable"},
              Loops(again, next)
       PROVE  turn' \in Slots /\ cmd' \in {"map", "fill", "enable"}
  <2>1. turn \in Slots
    BY DEF TypeOK
  <2> QED
    BY <1>19, <2>1 DEF Loops, Slots
<1>20. CASE CmdMaps
  <2>1. turn' \in Slots /\ cmd' \in {"map", "fill", "enable", "idle"}
    BY <1>19, <1>20 DEF CmdMaps, TypeOK
  <2>2. mem' \in [Slots -> Slots \cup {Dangling}]
    BY <1>20 DEF CmdMaps, TypeOK
  <2>3. buf' \in [index : Slots, frame : Frames, size : Sizes]
    <3>1. (buf.index \in Slots /\ buf' = BufOf(buf.index)) \/ buf' = buf
      BY <1>20 DEF CmdMaps, TypeOK
    <3> QED
      BY <3>1, BufTypes DEF TypeOK
  <2> QED
    BY <1>20, <2>1, <2>2, <2>3 DEF CmdMaps, TypeOK
<1>21. CASE CmdQueues
  <2>1. turn' \in Slots /\ cmd' \in {"map", "fill", "enable", "idle"}
    BY <1>19, <1>21 DEF CmdQueues, TypeOK
  <2>2. device' \in [open : BOOLEAN, streaming : BOOLEAN,
                     queued : Seq(Slots), done : Seq(Slots)]
    <3>1. CASE CanQueue(buf.index)
      <4>1. /\ device' = [device EXCEPT !.queued = Append(@, buf.index)]
            /\ buf.index \in Slots
        BY <1>21, <3>1 DEF CmdQueues, TypeOK
      <4> QED
        BY <3>1, <4>1, QueueEffect
    <3>2. CASE ~CanQueue(buf.index)
      BY <1>21, <3>2 DEF CmdQueues, TypeOK
    <3> QED
      BY <3>1, <3>2
  <2> QED
    BY <1>21, <2>1, <2>2 DEF CmdQueues, TypeOK
<1>22. CASE CmdEnables
  <2>1. /\ device' \in [open : BOOLEAN, streaming : BOOLEAN,
                        queued : Seq(Slots), done : Seq(Slots)]
        /\ state' \in {"off", "on", "paused"}
    BY <1>22 DEF CmdEnables, TypeOK
  <2> QED
    BY <1>22, <2>1 DEF CmdEnables, CmdStep, TypeOK
<1> QED
  BY <1>1, <1>2, <1>3, <1>4, <1>5, <1>6, <1>7, <1>8, <1>9, <1>10, <1>11, <1>12,
     <1>13, <1>14, <1>15, <1>16, <1>17, <1>18, <1>20, <1>21, <1>22
     DEF Next, CamThread, SetResolution

(* STREAMOFF and close take every buffer from the driver.                    *)
LEMMA OffEffect ==
    ASSUME TypeOK, (CmdStreamOff /\ cmd' = "unmap") \/ CmdCloses
    PROVE  /\ device'.queued = <<>> /\ device'.done = <<>>
           /\ ~device'.streaming
           /\ OfSeq(device'.queued) = {} /\ OfSeq(device'.done) = {}
<1>1. device'.queued = <<>> /\ device'.done = <<>> /\ device'.streaming = FALSE
  <2>1. CASE CmdCloses
    BY <2>1 DEF CmdCloses
  <2>2. CASE CmdStreamOff /\ cmd' = "unmap"
    <3>1. device \in [open : BOOLEAN, streaming : BOOLEAN,
                      queued : Seq(Slots), done : Seq(Slots)]
      BY DEF TypeOK
    <3>2. device' = [device EXCEPT !.streaming = FALSE, !.queued = <<>>,
                                  !.done = <<>>]
      BY <2>2 DEF CmdStreamOff
    <3> QED
      BY <3>1, <3>2
  <2> QED
    BY <2>1, <2>2
<1> QED
  BY <1>1 DEF OfSeq

(* The steps that only open or start the device leave its queues.            *)
LEMMA OpenEffect ==
    ASSUME TypeOK, CamEnables \/ CmdEnables \/ CmdOpens
    PROVE  /\ device'.queued = device.queued /\ device'.done = device.done
<1>1. device \in [open : BOOLEAN, streaming : BOOLEAN,
                  queued : Seq(Slots), done : Seq(Slots)]
  BY DEF TypeOK
<1>2. \/ device' = [device EXCEPT !.streaming = TRUE]
      \/ device' = [device EXCEPT !.open = TRUE]
      \/ device' = device
  BY DEF CamEnables, CmdEnables, CmdOpens, Dies, CmdStep, kernel
<1> QED
  BY <1>1, <1>2

(* The types of what the next lemmas compare.                                *)
LEMMA FrameTypes ==
    ASSUME TypeOK
    PROVE  /\ picture \in Nat /\ delivered \in Nat /\ NoFrame \in Nat
           /\ \A i \in Slots : slots[i].frame \in Nat /\ slots[i].size \in Sizes
           /\ buf.index \in Slots /\ source.at \in Slots \cup {Dangling}
           /\ buf.frame \in Nat /\ published.body \in Nat
           /\ device.queued \in Seq(Slots) /\ device.done \in Seq(Slots)
           /\ OfSeq(device.queued) \subseteq Slots
           /\ OfSeq(device.done) \subseteq Slots
<1>1. device.queued \in Seq(Slots) /\ device.done \in Seq(Slots)
  BY DEF TypeOK
<1>2. /\ picture \in Frames /\ delivered \in Frames /\ buf.index \in Slots
      /\ source.at \in Slots \cup {Dangling} /\ buf.frame \in Frames
      /\ published.body \in Frames /\ NoFrame \in Nat /\ Frames \subseteq Nat
  BY DEF TypeOK, Frames, NoFrame
<1>3. \A i \in Slots : slots[i].frame \in Frames /\ slots[i].size \in Sizes
  BY DEF TypeOK
<1>4. /\ OfSeq(device.queued) \subseteq Slots
      /\ OfSeq(device.done) \subseteq Slots
  BY <1>1, LenProperties, ElementOfSeq DEF OfSeq
<1> QED
  BY <1>1, <1>2, <1>3, <1>4

-----------------------------------------------------------------------------
(* What has been history stays so.                                           *)
LEMMA HistoryGrows ==
    ASSUME TypeOK, [Next]_vars
    PROVE  /\ overtaken => overtaken'
           /\ Usual' => Usual
<1> USE DEF kernel, thread, change, history
<1>1. changes \in Nat
  BY UvcCaptureAssumption DEF TypeOK
<1>2. overtaken => overtaken'
  BY DEF Next, vars, Deliver, CamThread, SetResolution, CamPolls,
         CamEntersGrab, CamEnables, CamSetsState, CamClears, CamDequeues,
         CamChecks, CamAims, CamCopies, CamRequeues, CamPublishes, Dies,
         CmdPauses, CmdStreamOff, CmdUnmaps, CmdCloses, CmdOpens, CmdSelects,
         CmdMaps, CmdQueues, CmdEnables
<1>3. changes' = changes \/ changes' = changes + 1
  BY DEF Next, vars, Deliver, CamThread, SetResolution, CamPolls,
         CamEntersGrab, CamEnables, CamSetsState, CamClears, CamDequeues,
         CamChecks, CamAims, CamCopies, CamRequeues, CamPublishes, Dies,
         CmdPauses, CmdStreamOff, CmdUnmaps, CmdCloses, CmdOpens, CmdSelects,
         CmdMaps, CmdQueues, CmdEnables
<1> QED
  BY <1>1, <1>2, <1>3 DEF Usual

(* No step gives the driver a buffer it already has.                         *)
LEMMA DistinctStep ==
    ASSUME TypeOK, DistinctInv, [Next]_vars
    PROVE  DistinctInv'
<1> USE DEF kernel, thread, change, history
<1>1. CASE UNCHANGED device
  BY <1>1 DEF DistinctInv
<1>2. CASE Deliver
  BY <1>2, DeliverEffect DEF DistinctInv
<1>3. CASE CamEnables \/ CmdEnables \/ CmdOpens
  BY <1>3, OpenEffect DEF DistinctInv
<1>4. CASE CamDequeues /\ ~Dies
  <2>1. device.done # <<>> /\ device' = [device EXCEPT !.done = Tail(@)]
    BY <1>4 DEF CamDequeues
  <2> QED
    BY <2>1, DequeueEffect DEF DistinctInv
<1>5. CASE (CamRequeues /\ ~Dies) \/ (CmdQueues /\ device' # device)
  <2>1. /\ CanQueue(buf.index) /\ buf.index \in Slots
        /\ device' = [device EXCEPT !.queued = Append(@, buf.index)]
    BY <1>5 DEF CamRequeues, CmdQueues, TypeOK
  <2> QED
    BY <2>1, QueueEffect DEF DistinctInv
<1>6. CASE (CmdStreamOff /\ cmd' = "unmap") \/ CmdCloses
  BY <1>6, OffEffect DEF DistinctInv, NoRepeats
<1> QED
  BY <1>1, <1>2, <1>3, <1>4, <1>5, <1>6
     DEF Next, vars, CamThread, SetResolution, Dies, CamPolls, CamEntersGrab,
         CamEnables, CamSetsState, CamClears, CamDequeues, CamChecks, CamAims,
         CamCopies, CamRequeues, CamPublishes, CmdPauses, CmdStreamOff,
         CmdUnmaps, CmdSelects, CmdMaps, CmdQueues

(* Only a stream has frames, and only an open device has buffers.            *)
LEMMA KernelStep ==
    ASSUME TypeOK, DistinctInv, KernelInv, [Next]_vars
    PROVE  KernelInv'
<1> USE DEF kernel, thread, change, history, Building
<1>1. changes \in Nat /\ (Usual' => Usual)
  BY UvcCaptureAssumption, HistoryGrows DEF TypeOK
<1>2. cmd' # "idle" => changes' > 0
  <2>1. CASE CmdPauses
    BY <1>1, <2>1 DEF CmdPauses
  <2>2. cmd' # "idle" /\ ~CmdPauses => cmd # "idle"
    BY DEF Next, vars, Deliver, CamThread, SetResolution, CamPolls,
           CamEntersGrab, CamEnables, CamSetsState, CamClears, CamDequeues,
           CamChecks, CamAims, CamCopies, CamRequeues, CamPublishes, Dies,
           CmdStreamOff, CmdUnmaps, CmdCloses, CmdOpens, CmdSelects,
           CmdMaps, CmdQueues, CmdEnables, CmdStep
  <2>3. changes' \in Nat
    BY UvcCaptureAssumption, TypeStep DEF TypeOK
  <2> QED
    BY <1>1, <2>1, <2>2, <2>3 DEF KernelInv, Usual
<1>3. device \in [open : BOOLEAN, streaming : BOOLEAN,
                  queued : Seq(Slots), done : Seq(Slots)]
  BY DEF TypeOK
<1>4. CASE UNCHANGED <<device, cmd>>
  BY <1>2, <1>4 DEF KernelInv
<1>5. CASE Deliver
  <2>1. device'.streaming /\ device'.open = device.open /\ device.streaming
        /\ cmd' = cmd
    BY <1>5, DeliverEffect DEF Deliver
  <2> QED
    BY <1>2, <2>1 DEF KernelInv
<1>6. CASE CamEnables /\ ~Dies
  <2>1. /\ device' = [device EXCEPT !.streaming = TRUE] /\ device.open
        /\ cmd' = cmd
    BY <1>6 DEF CamEnables
  <2>2. device'.streaming /\ device'.open
    BY <1>3, <2>1
  <2> QED
    BY <1>2, <2>1, <2>2 DEF KernelInv
<1>7. CASE CamDequeues /\ ~Dies
  <2>1. /\ device' = [device EXCEPT !.done = Tail(@)] /\ device.open
        /\ cmd' = cmd /\ device.streaming
    BY <1>7 DEF CamDequeues
  <2>2. device'.streaming /\ device'.open
    BY <1>3, <2>1
  <2> QED
    BY <1>2, <2>1, <2>2 DEF KernelInv
<1>8. CASE (CamRequeues /\ ~Dies) \/ (CmdQueues /\ device' # device)
  <2>1. /\ CanQueue(buf.index)
        /\ cmd' # "open" \/ cmd' = cmd
        /\ device' = [device EXCEPT !.queued = Append(@, buf.index)]
    BY <1>8 DEF CamRequeues, CmdQueues, Loops
  <2>2. /\ device'.done = device.done /\ device'.open
        /\ device'.streaming = device.streaming
    BY <1>3, <2>1 DEF CanQueue
  <2>3. cmd' # "open"
    <3>1. device.open
      BY <2>1 DEF CanQueue
    <3> QED
      BY <2>1, <3>1 DEF KernelInv
  <2> QED
    BY <1>2, <2>2, <2>3 DEF KernelInv
<1>9. CASE CmdPauses \/ CmdUnmaps \/ CmdSelects \/ CmdMaps
           \/ (CmdQueues /\ device' = device)
  <2>1. /\ device' = device /\ cmd' # "open"
        /\ cmd' \in Building => cmd \in Building
    BY <1>9 DEF CmdPauses, CmdUnmaps, CmdSelects, CmdMaps, CmdQueues, Loops,
                CmdStep
  <2> QED
    BY <1>2, <2>1 DEF KernelInv
<1>10. CASE CmdStreamOff
  <2>1. CASE cmd' = "unmap"
    BY <1>2, <1>10, <2>1, OffEffect DEF KernelInv
  <2>2. CASE cmd' # "unmap"
    BY <1>2, <1>10, <2>2 DEF CmdStreamOff, KernelInv
  <2> QED
    BY <2>1, <2>2
<1>11. CASE CmdCloses
  <2>1. ~device'.open /\ cmd' \notin Building
    BY <1>11 DEF CmdCloses, CmdStep
  <2> QED
    BY <1>2, <1>11, <2>1, OffEffect DEF KernelInv
<1>12. CASE CmdOpens \/ CmdEnables
  <2>1. /\ device'.queued = device.queued /\ device'.done = device.done
        /\ cmd' # "open"
    BY <1>12, OpenEffect DEF CmdOpens, CmdEnables, CmdStep
  <2>2. CASE CmdEnables
    <3>1. device.open
      BY <2>2 DEF CmdEnables, CmdStep, KernelInv
    <3>2. device'.open /\ (device.streaming => device'.streaming)
      BY <1>3, <2>2, <3>1 DEF CmdEnables
    <3> QED
      BY <1>2, <2>1, <3>2 DEF KernelInv
  <2>3. CASE CmdOpens
    <3>1. device.queued = <<>> /\ device.done = <<>> /\ ~device.streaming
      BY <2>3 DEF CmdOpens, KernelInv
    <3>2. ~device'.streaming /\ (cmd' \in Building => device'.open)
      BY <1>3, <2>3, <3>1 DEF CmdOpens
    <3> QED
      BY <1>2, <2>1, <3>1, <3>2 DEF KernelInv
  <2> QED
    BY <1>12, <2>2, <2>3
<1> QED
  BY <1>4, <1>5, <1>6, <1>7, <1>8, <1>9, <1>10, <1>11, <1>12
     DEF Next, vars, CamThread, SetResolution, Dies, CamPolls, CamEntersGrab,
         CamEnables, CamSetsState, CamClears, CamDequeues, CamChecks, CamAims,
         CamCopies, CamRequeues, CamPublishes

(* uvcGrab may queue and check what it likes: setResolution gets its ring,   *)
(* unless one of the steps that set overtaken comes between.                 *)
LEMMA FollowStep ==
    ASSUME TypeOK, DistinctInv, KernelInv, FollowInv, UsualInv, [Next]_vars
    PROVE  FollowInv'
<1> SUFFICES ASSUME ~overtaken'
             PROVE  Follow'
  BY DEF FollowInv
<1> USE UvcCaptureAssumption DEF kernel, thread, change, history, CamStep,
                                 CmdStep, Building
<1>1. /\ ~overtaken /\ Follow
      /\ device \in [open : BOOLEAN, streaming : BOOLEAN,
                     queued : Seq(Slots), done : Seq(Slots)]
      /\ mem \in [Slots -> Slots \cup {Dangling}]
      /\ buf.index \in Slots /\ turn \in Slots
  BY HistoryGrows DEF FollowInv, TypeOK
<1>2. CASE UNCHANGED <<device, slots, mem, buf, cmd, turn, ignored>>
               /\ Held \subseteq Held'
  <2>1. UNCHANGED <<WithDriver, Whole, Blanks, Below(turn)>>
    BY <1>2 DEF WithDriver, Whole, Blanks, Below
  <2> QED
    BY <1>1, <1>2, <2>1 DEF Follow
<1>3. CASE Deliver
  <2>1. /\ OfSeq(device'.queued) = OfSeq(device.queued) \ {Head(device.queued)}
        /\ OfSeq(device'.done) = OfSeq(device.done) \cup {Head(device.queued)}
        /\ Head(device.queued) \in OfSeq(device.queued)
        /\ device.streaming
        /\ UNCHANGED <<mem, buf, cam, cmd, turn, ignored>>
    BY <1>3, DeliverEffect DEF Deliver
  <2>2. UNCHANGED <<WithDriver, Whole, Held>>
    BY <2>1 DEF WithDriver, Whole, Held
  <2> QED
    BY <1>1, <2>1, <2>2 DEF Follow
<1>4. CASE CamEnables /\ ~Dies
  <2>1. /\ device' = [device EXCEPT !.streaming = TRUE]
        /\ changes = 0 /\ cam = "enable" /\ cam' = "on"
        /\ UNCHANGED <<slots, mem, buf, cmd, turn, ignored>>
    BY <1>4 DEF CamEnables, TypeOK
  <2>2. cmd = "idle" /\ Undisturbed
    BY <2>1 DEF KernelInv, UsualInv, Usual
  <2>3. device'.queued = device.queued /\ device'.done = device.done
    BY <1>1, <2>1
  <2>4. WithDriver' = WithDriver /\ Held = {} /\ Held' = {} /\ Whole'
    BY <2>1, <2>2, <2>3 DEF WithDriver, Held, Whole, Undisturbed
  <2>5. Slots \ WithDriver \subseteq ignored
    BY <2>2, <2>4 DEF Undisturbed
  <2> QED
    BY <1>1, <2>1, <2>2, <2>4, <2>5 DEF Follow
<1>5. CASE CamClears
  <2>1. /\ buf' = BlankBuf(0) /\ cmd # "query"
        /\ cam = "clear" /\ cam' = "dequeue"
        /\ UNCHANGED <<device, slots, mem, cmd, turn, ignored>>
    BY <1>5 DEF CamClears, TypeOK
  <2>2. buf'.index = 0 /\ Held = {} /\ Held' = {}
    BY <2>1 DEF BlankBuf, Held
  <2>3. UNCHANGED <<WithDriver, Whole, Blanks, Below(turn)>>
    BY <2>1 DEF WithDriver, Whole, Blanks, Below
  <2> QED
    BY <1>1, <2>1, <2>2, <2>3 DEF Follow
<1>6. CASE CamDequeues /\ ~Dies
  <2> DEFINE h == Head(device.done)
  <2>1. /\ device.done # <<>> /\ device' = [device EXCEPT !.done = Tail(@)]
        /\ buf' = BufOf(h) /\ cam = "dequeue" /\ cam' = "check"
        /\ device.streaming
        /\ UNCHANGED <<slots, mem, cmd, turn, ignored>>
    BY <1>6 DEF CamDequeues
  <2>2. /\ OfSeq(device'.queued) = OfSeq(device.queued)
        /\ OfSeq(device'.done) = OfSeq(device.done) \ {h}
        /\ h \in OfSeq(device.done) /\ h \notin OfSeq(device.queued)
    BY <2>1, DequeueEffect DEF DistinctInv
  <2>3. Held = {} /\ Held' = {h} /\ Whole' = Whole
    BY <2>1 DEF Held, BufOf, Whole
  <2>4. WithDriver' = WithDriver \ {h}
    BY <2>2 DEF WithDriver
  <2>5. Slots \ WithDriver \subseteq Held \cup ignored
    BY <1>1, <2>1 DEF Follow
  <2>6. Slots \ WithDriver' \subseteq Held' \cup ignored
    BY <2>3, <2>4, <2>5
  <2>7. cmd \in {"idle", "off"} /\ Whole
    BY <1>1, <2>1 DEF Follow
  <2> QED
    BY <1>1, <2>1, <2>3, <2>6, <2>7 DEF Follow
<1>7. CASE CamChecks
  <2>1. /\ UNCHANGED <<device, slots, mem, buf, cmd, turn>>
        /\ Held \cup ignored \subseteq Held' \cup ignored'
    BY <1>7 DEF CamChecks, Held
  <2>2. UNCHANGED <<WithDriver, Whole, Blanks, Below(turn)>>
    BY <2>1 DEF WithDriver, Whole, Blanks, Below
  <2> QED
    BY <1>1, <2>1, <2>2 DEF Follow
<1>8. CASE CamRequeues /\ ~Dies
  <2>1. /\ CanQueue(buf.index)
        /\ device' = [device EXCEPT !.queued = Append(@, buf.index)]
        /\ cam = "requeue" /\ cam' = "publish"
        /\ UNCHANGED <<slots, mem, buf, cmd, turn, ignored>>
    BY <1>8 DEF CamRequeues
  <2>2. /\ OfSeq(device'.queued) = OfSeq(device.queued) \cup {buf.index}
        /\ device'.done = device.done /\ device'.open = device.open
        /\ device'.streaming = device.streaming
    BY <1>1, <2>1, QueueEffect
  <2>3. WithDriver' = WithDriver \cup {buf.index}
    BY <2>2 DEF WithDriver
  <2>4. Held = {buf.index} /\ UNCHANGED <<Whole, Blanks, Below(turn)>>
    BY <2>1 DEF Held, Whole, Blanks, Below
  <2> QED
    BY <1>1, <2>1, <2>2, <2>3, <2>4 DEF Follow
<1>9. CASE CmdPauses
  <2>1. /\ UNCHANGED <<device, slots, mem, buf, cam, turn, ignored>>
        /\ cmd' = "off"
    BY <1>9 DEF CmdPauses
  <2>2. UNCHANGED <<WithDriver, Whole, Held>>
    BY <2>1 DEF WithDriver, Whole, Held
  <2> QED
    BY <1>1, <2>1, <2>2 DEF Follow
<1>10. CASE CmdStreamOff
  <2>1. /\ UNCHANGED <<slots, mem, buf, cam, turn, ignored>>
        /\ cmd' \in {"unmap", "idle"} /\ UNCHANGED <<Whole, Held>>
    BY <1>10 DEF CmdStreamOff, Whole, Held
  <2>2. CASE cmd' = "unmap"
    BY <1>1, <1>10, <2>1, <2>2, OffEffect DEF Follow
  <2>3. CASE cmd' = "idle"
    <3>1. device' = device
      BY <1>10, <2>3 DEF CmdStreamOff
    <3>2. WithDriver' = WithDriver
      BY <3>1 DEF WithDriver
    <3> QED
      BY <1>1, <2>1, <2>3, <3>1, <3>2 DEF Follow
  <2> QED
    BY <2>1, <2>2, <2>3
<1>11. CASE CmdUnmaps
  <2>1. /\ ~device'.streaming /\ cmd' = "close"
        /\ \A i \in Slots : mem'[i] = Dangling
    BY <1>1, <1>11 DEF CmdUnmaps, Follow
  <2>2. \A i \in Slots : mem'[i] # i
    BY <2>1 DEF Slots, Dangling
  <2> QED
    BY <2>1, <2>2 DEF Follow
<1>12. CASE CmdCloses
  <2>1. ~device'.streaming /\ cmd' = "open" /\ UNCHANGED <<slots, mem, Whole>>
    BY <1>12, OffEffect DEF CmdCloses, Whole
  <2> QED
    BY <1>1, <2>1 DEF Follow
<1>13. CASE CmdOpens
  <2>1. ~device.streaming /\ UNCHANGED <<mem, Whole>>
    BY <1>13 DEF CmdOpens, KernelInv, Whole
  <2>2. CASE cmd' = "map"
    <3>1. /\ device' = [device EXCEPT !.open = TRUE] /\ turn' = 0
          /\ slots' = [i \in Slots |-> Blank]
      BY <1>13, <2>2 DEF CmdOpens
    <3>2. ~device'.streaming
      BY <1>1, <2>1, <3>1
    <3>3. Blanks' /\ \A i \in Slots : slots'[i].frame = NoFrame
      BY <3>1 DEF Blanks, Blank
    <3>4. \A i \in Below(turn') : FALSE
      BY <3>1 DEF Below, Slots
    <3> QED
      BY <1>1, <2>1, <2>2, <3>2, <3>3, <3>4 DEF Follow
  <2>3. CASE cmd' # "map"
    <3>1. cmd' = "idle" /\ UNCHANGED <<device, slots>>
      BY <1>13, <2>3 DEF CmdOpens
    <3> QED
      BY <1>1, <2>1, <3>1 DEF Follow
  <2> QED
    BY <2>2, <2>3
<1>14. CASE CmdSelects
  <2>1. /\ UNCHANGED <<device, slots, mem, turn>> /\ buf'.index = turn
        /\ \/ cmd = "map" /\ cmd' = "query"
           \/ cmd = "fill" /\ cmd' = "queue"
    BY <1>14 DEF CmdSelects, BlankBuf
  <2>2. UNCHANGED <<WithDriver, Whole, Blanks, Below(turn)>>
    BY <2>1 DEF WithDriver, Whole, Blanks, Below
  <2> QED
    BY <1>1, <2>1, <2>2 DEF Follow
<1>15. ASSUME NEW again, NEW next, Loops(again, next)
       PROVE  \/ /\ cmd' = again /\ turn' = turn + 1
                 /\ Below(turn') = Below(turn) \cup {turn}
              \/ /\ cmd' = next /\ Slots = Below(turn) \cup {turn}
                 /\ Below(turn') = {}
  BY <1>1, <1>15 DEF Loops, Below, Slots
<1>16. CASE CmdMaps
  <2>1. UNCHANGED <<device, slots>> /\ cmd = "query" /\ buf.index = turn
    BY <1>1, <1>16 DEF CmdMaps, Follow
  <2>2. ~device.streaming /\ Blanks
    BY <1>1, <2>1 DEF Follow
  <2>3. Blanks' /\ \A i \in Slots : slots[i].frame = NoFrame
    BY <2>1, <2>2 DEF Blanks
  <2>4. CASE cmd' = "idle"
    <3>1. mem' = mem
      BY <1>16, <2>4 DEF CmdMaps, Loops
    <3> QED
      BY <1>1, <2>1, <2>2, <2>3, <2>4, <3>1 DEF Follow
  <2>5. CASE cmd' # "idle"
    <3>1. /\ Loops("map", "fill") /\ mem' = [mem EXCEPT ![turn] = buf.index]
          /\ buf'.index = turn
      BY <1>16, <2>1, <2>5 DEF CmdMaps, BufOf
    <3>2. /\ mem'[turn] = turn
          /\ \A i \in Slots : mem'[i] \in {i, Dangling}
          /\ \A i \in Below(turn) : mem'[i] = i
      BY <1>1, <2>1, <3>1 DEF Follow, Below
    <3>3. CASE cmd' = "map"
      <4>1. Below(turn') = Below(turn) \cup {turn}
        BY <1>15, <3>1, <3>3
      <4> QED
        BY <1>1, <2>1, <2>2, <2>3, <3>2, <3>3, <4>1 DEF Follow
    <3>4. CASE cmd' = "fill"
      <4>1. Slots = Below(turn) \cup {turn} /\ Below(turn') = {}
        BY <1>15, <3>1, <3>4
      <4>2. Whole'
        BY <3>2, <4>1 DEF Whole
      <4> QED
        BY <1>1, <2>1, <2>2, <2>3, <3>2, <3>4, <4>1, <4>2 DEF Follow
    <3> QED
      BY <1>15, <3>1, <3>3, <3>4
  <2> QED
    BY <2>4, <2>5
<1>17. CASE CmdQueues
  <2>1. /\ UNCHANGED <<slots, mem, buf>> /\ cmd = "queue" /\ Whole /\ Blanks
        /\ ~device.streaming /\ buf.index \in {0, turn}
        /\ UNCHANGED <<Whole, Blanks>> /\ Below(turn) \subseteq WithDriver
    BY <1>1, <1>17 DEF CmdQueues, Follow, Whole, Blanks
  <2>2. CASE ~CanQueue(buf.index)
    <3>1. device' = device /\ cmd' = "idle"
      BY <1>17, <2>2 DEF CmdQueues
    <3> QED
      BY <1>1, <2>1, <3>1 DEF Follow
  <2>3. CASE CanQueue(buf.index)
    <3>1. /\ Loops("fill", "enable")
          /\ device' = [device EXCEPT !.queued = Append(@, buf.index)]
      BY <1>17, <2>3 DEF CmdQueues
    <3>2. /\ OfSeq(device'.queued) = OfSeq(device.queued) \cup {buf.index}
          /\ device'.done = device.done /\ ~device'.streaming
      BY <1>1, <2>1, <2>3, <3>1, QueueEffect
    <3>3. WithDriver' = WithDriver \cup {buf.index}
      BY <3>2 DEF WithDriver
    <3>4. buf.index = turn
      <4>1. buf.index \notin Below(turn)
        BY <2>1, <2>3 DEF CanQueue
      <4> QED
        BY <1>1, <2>1, <4>1 DEF Below, Slots
    <3>5. CASE cmd' = "fill"
      <4>1. Below(turn') = Below(turn) \cup {turn}
        BY <1>15, <3>1, <3>5
      <4>2. Below(turn') \subseteq WithDriver'
        BY <2>1, <3>3, <3>4, <4>1
      <4> QED
        BY <1>1, <2>1, <3>2, <3>5, <4>2 DEF Follow
    <3>6. CASE cmd' = "enable"
      <4>1. Slots = Below(turn) \cup {turn}
        BY <1>15, <3>1, <3>6
      <4>2. WithDriver \subseteq Slots
        BY FrameTypes DEF WithDriver
      <4>3. WithDriver' = Slots
        BY <1>1, <2>1, <3>3, <3>4, <4>1, <4>2
      <4> QED
        BY <1>1, <2>1, <3>2, <3>6, <4>3 DEF Follow
    <3> QED
      BY <1>15, <3>1, <3>5, <3>6
  <2> QED
    BY <2>2, <2>3
<1>18. CASE CmdEnables
  <2>1. /\ device'.queued = device.queued /\ device'.done = device.done
        /\ UNCHANGED <<slots, mem>> /\ cmd = "enable" /\ cmd' = "idle"
    BY <1>18, OpenEffect DEF CmdEnables
  <2>2. /\ WithDriver' = WithDriver /\ WithDriver = Slots
        /\ Whole' = Whole /\ Whole
    BY <1>1, <2>1 DEF WithDriver, Follow, Whole
  <2> QED
    BY <1>1, <2>1, <2>2 DEF Follow
<1>19. CASE UNCHANGED vars \/ Dies \/ CamPolls \/ CamEntersGrab
              \/ CamSetsState \/ CamAims \/ (CamCopies /\ ~Dies) \/ CamPublishes
  BY <1>2, <1>19 DEF vars, Dies, CamPolls, CamEntersGrab, CamSetsState,
                     CamAims, CamCopies, CamPublishes, Held
<1> QED
  BY <1>3, <1>4, <1>5, <1>6, <1>7, <1>8, <1>9, <1>10, <1>11, <1>12, <1>13,
     <1>14, <1>16, <1>17, <1>18, <1>19
     DEF Next, CamThread, SetResolution

(* The frames that are done are in the order in which they came, and nothing *)
(* is newer than the camera's last.                                          *)
LEMMA DoneStep ==
    ASSUME TypeOK, DistinctInv, KernelInv, DoneInv, [Next]_vars
    PROVE  DoneInv'
<1> USE DEF kernel, thread, change, history, CamStep, CmdStep
<1>1. /\ device \in [open : BOOLEAN, streaming : BOOLEAN,
                     queued : Seq(Slots), done : Seq(Slots)]
      /\ device.done \in Seq(Slots) /\ Len(device.done) \in Nat
      /\ \A k \in 1 .. Len(device.done) :
             device.done[k] \in Slots /\ device.done[k] \in OfSeq(device.done)
  <2>1. device.done \in Seq(Slots)
    BY DEF TypeOK
  <2>2. /\ Len(device.done) \in Nat /\ DOMAIN device.done = 1 .. Len(device.done)
        /\ \A k \in 1 .. Len(device.done) : device.done[k] \in Slots
    BY <2>1, LenProperties
  <2> QED
    BY <2>1, <2>2 DEF TypeOK, OfSeq
<1>2. CASE UNCHANGED <<slots, picture, delivered>> /\ device'.done = device.done
  BY <1>2 DEF DoneInv
<1>3. CASE Deliver
  <2> DEFINE h == Head(device.queued)
             n == Len(device.done)
  <2>1. /\ h \in Slots /\ h \notin OfSeq(device.done)
        /\ OfSeq(device'.done) = OfSeq(device.done) \cup {h}
        /\ Len(device'.done) = n + 1
        /\ \A k \in 1 .. n : device'.done[k] = device.done[k]
        /\ device'.done[n + 1] = h /\ slots'[h].frame = delivered + 1
        /\ \A i \in Slots \ {h} : slots'[i] = slots[i]
        /\ delivered \in Nat /\ delivered' = delivered + 1
    BY <1>3, DeliverEffect DEF DistinctInv
  <2> HIDE DEF h
  <2>2. OfSeq(device.done) \subseteq Slots
    BY <1>1, LenProperties DEF OfSeq
  <2>3. \A i \in OfSeq(device'.done) : slots'[i].frame > NoFrame
    BY <2>1, <2>2 DEF DoneInv, NoFrame
  <2>4. ASSUME NEW j \in 1 .. n + 1, NEW k \in 1 .. n + 1, j < k
        PROVE  slots'[device'.done[j]].frame < slots'[device'.done[k]].frame
    <3>1. /\ j \in 1 .. n /\ device'.done[j] = device.done[j]
          /\ device.done[j] \in Slots \ {h}
      BY <1>1, <2>1, <2>4
    <3>2. /\ slots'[device'.done[j]].frame = slots[device.done[j]].frame
          /\ slots[device.done[j]].frame <= delivered
          /\ slots[device.done[j]].frame \in Nat
      BY <2>1, <3>1, FrameTypes DEF DoneInv
    <3>3. CASE k = n + 1
      BY <2>1, <3>2, <3>3
    <3>4. CASE k # n + 1
      <4>1. /\ k \in 1 .. n /\ device'.done[k] = device.done[k]
            /\ device.done[k] \in Slots \ {h}
        BY <1>1, <2>1, <3>4
      <4> QED
        BY <2>1, <2>4, <3>1, <3>2, <4>1 DEF DoneInv
    <3> QED
      BY <3>3, <3>4
  <2>5. \A i \in Slots : slots'[i].frame <= delivered'
    BY <2>1, FrameTypes DEF DoneInv
  <2>6. picture' <= delivered'
    BY <1>3, <2>1, FrameTypes DEF Deliver, DoneInv
  <2> QED
    BY <2>1, <2>3, <2>4, <2>5, <2>6 DEF DoneInv
<1>4. CASE CamDequeues /\ ~Dies
  <2>1. /\ device.done # <<>> /\ device' = [device EXCEPT !.done = Tail(@)]
        /\ UNCHANGED <<slots, picture, delivered>>
    BY <1>4 DEF CamDequeues
  <2>2. /\ OfSeq(device'.done) = OfSeq(device.done) \ {Head(device.done)}
        /\ Len(device'.done) = Len(device.done) - 1
        /\ \A k \in 1 .. Len(device'.done) :
               device'.done[k] = device.done[k + 1]
    BY <2>1, DequeueEffect
  <2>3. ASSUME NEW j \in 1 .. Len(device'.done),
               NEW k \in 1 .. Len(device'.done), j < k
        PROVE  slots[device'.done[j]].frame < slots[device'.done[k]].frame
    <3>1. /\ j + 1 \in 1 .. Len(device.done) /\ k + 1 \in 1 .. Len(device.done)
          /\ j + 1 < k + 1
      BY <1>1, <2>2, <2>3
    <3> QED
      BY <2>2, <3>1 DEF DoneInv
  <2> QED
    BY <2>1, <2>2, <2>3 DEF DoneInv
<1>5. CASE (CmdStreamOff /\ cmd' = "unmap") \/ CmdCloses
  <2>1. device'.done = <<>> /\ OfSeq(device'.done) = {}
    BY <1>5, OffEffect
  <2>2. UNCHANGED <<slots, picture, delivered>>
    BY <1>5 DEF CmdStreamOff, CmdCloses
  <2> QED
    BY <2>1, <2>2 DEF DoneInv
<1>6. CASE CmdOpens /\ slots' # slots
  <2>1. device'.done = device.done /\ UNCHANGED <<picture, delivered>>
    BY <1>6, OpenEffect DEF CmdOpens
  <2>2. device.done = <<>>
    BY <1>6 DEF CmdOpens, KernelInv
  <2>3. OfSeq(<<>>) = {} /\ Len(<<>>) = 0
    BY EmptySeq DEF OfSeq
  <2>4. \A i \in Slots : slots'[i].frame <= delivered
    BY <1>6, FrameTypes DEF CmdOpens, Blank, NoFrame
  <2> QED
    BY <2>1, <2>2, <2>3, <2>4 DEF DoneInv
<1>7. CASE (CamEnables /\ ~Dies) \/ CmdEnables \/ (CmdOpens /\ slots' = slots)
  <2>1. device'.done = device.done /\ UNCHANGED <<slots, picture, delivered>>
    BY <1>7, OpenEffect DEF CamEnables, CmdEnables, CmdOpens
  <2> QED
    BY <1>2, <2>1
<1>8. CASE (CamRequeues /\ ~Dies) \/ CmdQueues
  <2>1. device'.done = device.done /\ UNCHANGED <<slots, picture, delivered>>
    BY <1>1, <1>8 DEF CamRequeues, CmdQueues
  <2> QED
    BY <1>2, <2>1
<1>9. CASE CamCopies /\ ~Dies
  <2>1. /\ picture' \in {picture} \cup Readable
        /\ UNCHANGED <<device, slots, delivered>>
    BY <1>9 DEF CamCopies
  <2>2. \A f \in Readable : f <= delivered
    <3>1. NoFrame <= delivered /\ source.at \in Slots \cup {Dangling}
      BY FrameTypes DEF NoFrame
    <3> QED
      BY <3>1 DEF Readable, DoneInv
  <2> QED
    BY <2>1, <2>2 DEF DoneInv
<1> QED
  BY <1>2, <1>3, <1>4, <1>5, <1>6, <1>7, <1>8, <1>9
     DEF Next, vars, CamThread, SetResolution, Dies, CamPolls, CamEntersGrab,
         CamEnables, CamSetsState, CamClears, CamDequeues, CamChecks, CamAims,
         CamCopies, CamRequeues, CamPublishes, CmdPauses, CmdStreamOff,
         CmdUnmaps, CmdCloses, CmdSelects, CmdMaps

(* What is done or about to be copied stays ahead of the picture.            *)
LEMMA AheadStep ==
    ASSUME TypeOK, DistinctInv, KernelInv, FollowInv, DoneInv, AheadInv,
           [Next]_vars
    PROVE  AheadInv'
<1> SUFFICES ASSUME ~overtaken'
             PROVE  Ahead'
  BY DEF AheadInv
<1> USE UvcCaptureAssumption DEF kernel, thread, change, history, CamStep,
        CmdStep, Holds, NotBehind, Building
<1>1. /\ ~overtaken /\ Ahead /\ Follow
      /\ device \in [open : BOOLEAN, streaming : BOOLEAN,
                     queued : Seq(Slots), done : Seq(Slots)]
      /\ buf.index \in Slots /\ source.at \in Slots \cup {Dangling}
      /\ Dangling \notin Slots
  BY HistoryGrows DEF FollowInv, AheadInv, TypeOK, Slots, Dangling
<1>2. ASSUME NEW s \in Seq(Slots), s = <<>>
      PROVE  OfSeq(s) = {}
  BY <1>2 DEF OfSeq
<1>3. ~device.streaming => OfSeq(device.done) = {}
  BY <1>1, <1>2, FrameTypes DEF KernelInv
<1>4. CASE UNCHANGED <<device, slots, mem, buf, source, picture, cam>>
  BY <1>1, <1>4 DEF Ahead, Doomed, WithDriver
<1>5. CASE Deliver
  <2> DEFINE h == Head(device.queued)
  <2>1. /\ h \in Slots /\ h \in OfSeq(device.queued)
        /\ OfSeq(device'.queued) = OfSeq(device.queued) \ {h}
        /\ OfSeq(device'.done) = OfSeq(device.done) \cup {h}
        /\ slots'[h].frame = delivered + 1
        /\ \A i \in Slots \ {h} : slots'[i] = slots[i]
        /\ h \notin OfSeq(device.done)
    BY <1>5, DeliverEffect DEF DistinctInv
  <2>2. /\ device.streaming
        /\ UNCHANGED <<mem, buf, source, picture, cam>>
    BY <1>5 DEF Deliver
  <2> HIDE DEF h
  <2>3. WithDriver' = WithDriver /\ (Doomed <=> Doomed')
    BY <2>1, <2>2 DEF WithDriver, Doomed
  <2>4. \A i \in Slots : NotBehind(i) => NotBehind(i)'
    BY <2>1, <2>2, FrameTypes, SMTT(40) DEF DoneInv
  <2>5. ~Doomed => \A i \in OfSeq(device'.done) : picture <= slots'[i].frame
    BY <1>1, <2>1, FrameTypes DEF Ahead, DoneInv
  <2>6. (Holds /\ ~Doomed /\ cam # "requeue") =>
            \A i \in OfSeq(device'.done) :
                slots'[buf.index].frame <= slots'[i].frame
    <3> SUFFICES ASSUME Holds, ~Doomed, cam # "requeue",
                        NEW i \in OfSeq(device'.done)
                 PROVE  slots'[buf.index].frame <= slots'[i].frame
      OBVIOUS
    <3>1. buf.index # h
      BY <2>1 DEF Doomed, WithDriver
    <3>2. /\ slots'[buf.index] = slots[buf.index]
          /\ slots[buf.index].frame <= delivered
          /\ slots[buf.index].frame \in Nat /\ delivered \in Nat
      BY <1>1, <2>1, <3>1, FrameTypes DEF DoneInv
    <3>3. CASE i = h
      BY <2>1, <3>2, <3>3
    <3>4. CASE i # h
      BY <1>1, <2>1, <3>2, <3>4, FrameTypes DEF Ahead
    <3> QED
      BY <3>3, <3>4
  <2>7. cam = "copy" =>
            \A i \in Slots : \/ i = source.at
                             \/ source.at = Dangling /\ mem[i] = i
                             => NotBehind(i)'
    BY <1>1, <2>4 DEF Ahead
  <2>8. Doomed /\ cam # "requeue" => \A i \in Slots : NotBehind(i)'
    BY <1>1, <2>4 DEF Ahead
  <2>9. cam \in {"check", "aim"} => NotBehind(buf.index)'
    BY <1>1, <2>2, <2>4 DEF Ahead
  <2>10. (cam = "copy" /\ ~Doomed) => source.at = buf.index
    BY <1>1, <2>2 DEF Ahead
  <2> HIDE DEF NotBehind
  <2> QED
    BY <2>2, <2>3, <2>5, <2>6, <2>7, <2>8, <2>9, <2>10 DEF Ahead
<1>6. CASE CamPolls \/ CamEntersGrab \/ CamSetsState \/ CamClears
           \/ CamPublishes \/ (CamEnables /\ ~Dies)
  <2>1. /\ ~Holds /\ ~Holds' /\ UNCHANGED <<slots, mem, source, picture>>
    BY <1>6 DEF CamPolls, CamEntersGrab, CamSetsState, CamClears, CamPublishes,
                CamEnables
  <2>2. device'.done = device.done
    BY <1>6, OpenEffect DEF CamPolls, CamEntersGrab, CamSetsState, CamClears,
                            CamPublishes
  <2> QED
    BY <1>1, <2>1, <2>2 DEF Ahead, Doomed
<1>7. CASE CamDequeues /\ ~Dies
  <2> DEFINE h == Head(device.done)
  <2>1. /\ device.done # <<>> /\ device' = [device EXCEPT !.done = Tail(@)]
        /\ cam = "dequeue" /\ cam' = "check" /\ buf'.index = h
        /\ UNCHANGED <<slots, mem, source, picture>>
    BY <1>7 DEF CamDequeues, BufOf
  <2>2. /\ h \in OfSeq(device.done) /\ h \in Slots /\ h = device.done[1]
        /\ device'.queued = device.queued
        /\ OfSeq(device'.done) = OfSeq(device.done) \ {h}
        /\ h \notin OfSeq(device.queued)
    BY <2>1, DequeueEffect DEF DistinctInv
  <2> HIDE DEF h
  <2>3. ~Doomed' /\ ~Doomed
    BY <2>1, <2>2 DEF Doomed, WithDriver
  <2>4. \A i \in OfSeq(device.done) : slots[h].frame <= slots[i].frame
    <3> SUFFICES ASSUME NEW k \in 1 .. Len(device.done)
                 PROVE  slots[h].frame <= slots[device.done[k]].frame
      <4>1. DOMAIN device.done = 1 .. Len(device.done)
        BY FrameTypes, LenProperties
      <4> QED
        BY <4>1 DEF OfSeq
    <3>1. CASE k = 1
      BY <2>2, <3>1, FrameTypes
    <3>2. CASE k # 1
      <4>1. Len(device.done) \in Nat /\ 1 \in 1 .. Len(device.done) /\ 1 < k
        BY <3>2, FrameTypes, LenProperties
      <4>2. slots[device.done[1]].frame < slots[device.done[k]].frame
        BY <4>1 DEF DoneInv
      <4>3. device.done[k] \in Slots
        BY FrameTypes, ElementOfSeq
      <4> QED
        BY <2>2, <4>2, <4>3, FrameTypes
    <3> QED
      BY <3>1, <3>2
  <2>5. picture <= slots[h].frame
    BY <1>1, <2>2, <2>3 DEF Ahead
  <2>6. NotBehind(buf.index)'
    BY <2>1, <2>2, <2>5, FrameTypes
  <2>7. \A i \in OfSeq(device'.done) : picture <= slots[i].frame
    BY <1>1, <2>2, <2>3 DEF Ahead
  <2> QED
    BY <2>1, <2>2, <2>3, <2>4, <2>6, <2>7 DEF Ahead
<1>8. CASE CamChecks
  <2>1. /\ cam = "check" /\ cam' \in {"publish", "aim"}
        /\ UNCHANGED <<device, slots, mem, buf, picture>>
    BY <1>8 DEF CamChecks
  <2>2. ASSUME NEW i \in OfSeq(device.done)
        PROVE  picture <= slots[i].frame
    <3>1. CASE Doomed
      <4>1. NotBehind(i) /\ slots[i].frame > NoFrame
        BY <1>1, <2>1, <3>1, FrameTypes DEF DoneInv, Ahead
      <4> QED
        BY <4>1, FrameTypes
    <3>2. CASE ~Doomed
      BY <1>1, <3>2 DEF Ahead
    <3> QED
      BY <3>1, <3>2
  <2>3. Doomed' => Doomed
    BY <2>1 DEF Doomed, WithDriver
  <2>4. cam' = "aim" => (Doomed' <=> Doomed)
    BY <2>1 DEF Doomed, WithDriver
  <2> QED
    BY <1>1, <2>1, <2>2, <2>3, <2>4 DEF Ahead
<1>9. CASE CamAims
  <2>1. /\ cam = "aim" /\ cam' = "copy" /\ source'.at = mem[buf.index]
        /\ UNCHANGED <<device, slots, mem, buf, picture>>
    BY <1>9 DEF CamAims, TypeOK
  <2>2. Doomed' <=> Doomed
    BY <2>1 DEF Doomed, WithDriver
  <2>3. mem[buf.index] \in {buf.index, Dangling}
    BY <1>1 DEF Follow
  <2>4. ASSUME NEW i \in Slots,
               i = source'.at \/ (source'.at = Dangling /\ mem[i] = i)
        PROVE  NotBehind(i)
    <3>1. CASE source'.at = buf.index
      BY <1>1, <2>1, <2>4, <3>1 DEF Ahead
    <3>2. CASE source'.at = Dangling
      <4>1. ~Whole /\ mem[i] = i
        BY <1>1, <2>1, <2>4, <3>2 DEF Whole
      <4> QED
        BY <1>1, <4>1 DEF Follow
    <3> QED
      BY <2>1, <2>3, <3>1, <3>2
  <2>5. device.streaming => source'.at = buf.index
    BY <1>1, <2>1 DEF Follow, Whole
  <2> QED
    BY <1>1, <2>1, <2>2, <2>4, <2>5 DEF Ahead
<1>10. CASE CamCopies /\ ~Dies
  <2>1. /\ cam = "copy" /\ cam' = "requeue"
        /\ picture' \in {picture} \cup Readable
        /\ UNCHANGED <<device, slots, mem, buf, source>>
    BY <1>10 DEF CamCopies
  <2>2. Doomed' <=> Doomed
    BY <2>1 DEF Doomed, WithDriver
  <2>3. ASSUME ~Doomed, NEW i \in OfSeq(device.done)
        PROVE  picture' <= slots[i].frame
    <3>1. device.streaming
      BY <1>3, <2>3
    <3>2. source.at = buf.index
      BY <1>1, <2>1, <2>3, <3>1 DEF Ahead
    <3>3. Readable = {slots[buf.index].frame}
      BY <1>1, <3>2 DEF Readable
    <3> QED
      BY <1>1, <2>1, <2>3, <3>3 DEF Ahead
  <2> QED
    BY <2>1, <2>2, <2>3 DEF Ahead
<1>11. CASE CamRequeues /\ ~Dies
  <2>1. /\ CanQueue(buf.index) /\ cam = "requeue" /\ cam' = "publish"
        /\ device' = [device EXCEPT !.queued = Append(@, buf.index)]
        /\ UNCHANGED <<slots, mem, buf, source, picture>>
    BY <1>11 DEF CamRequeues
  <2>2. device'.done = device.done /\ ~Doomed /\ ~Doomed'
    BY <1>1, <2>1 DEF CanQueue, Doomed
  <2> QED
    BY <1>1, <2>1, <2>2 DEF Ahead
<1>12. CASE (CmdStreamOff /\ cmd' = "unmap") \/ CmdCloses
  <2>1. /\ OfSeq(device'.queued) = {} /\ OfSeq(device'.done) = {}
        /\ ~device'.streaming
    BY <1>12, OffEffect
  <2>2. UNCHANGED <<slots, mem, buf, source, picture, cam>>
    BY <1>12 DEF CmdStreamOff, CmdCloses
  <2>3. ~Doomed'
    BY <2>1 DEF Doomed, WithDriver
  <2> QED
    BY <1>1, <2>1, <2>2, <2>3 DEF Ahead
<1>13. CASE CmdUnmaps
  <2>1. /\ UNCHANGED <<device, slots, buf, picture, cam>>
        /\ source'.at = Dangling /\ \A i \in Slots : mem'[i] = Dangling
        /\ ~device.streaming
    BY <1>1, <1>13 DEF CmdUnmaps, TypeOK, Follow
  <2>2. Doomed' <=> Doomed
    BY <2>1 DEF Doomed, WithDriver
  <2>3. \A i \in Slots : i # source'.at /\ mem'[i] # i
    BY <1>1, <2>1
  <2> QED
    BY <1>1, <2>1, <2>2, <2>3 DEF Ahead
<1>14. CASE CmdEnables
  <2>1. /\ device'.queued = device.queued /\ device'.done = device.done
        /\ UNCHANGED <<slots, mem, buf, source, picture, cam>>
    BY <1>14, OpenEffect DEF CmdEnables
  <2>2. Doomed' <=> Doomed
    BY <2>1 DEF Doomed, WithDriver
  <2>3. Holds => Doomed
    BY <1>1, <1>14 DEF CmdEnables, Follow, Doomed
  <2> QED
    BY <1>1, <2>1, <2>2, <2>3 DEF Ahead
<1>15. ASSUME Blanks', UNCHANGED <<source, picture, cam>>,
              OfSeq(device'.done) = {}, ~device'.streaming,
              buf'.index \in Slots
       PROVE  Ahead'
  <2>1. \A i \in Slots : NotBehind(i)'
    BY <1>15 DEF Blanks
  <2> QED
    BY <1>15, <2>1 DEF Ahead
<1>16. CASE CmdOpens
  <2>1. /\ device'.queued = device.queued /\ device'.done = device.done
        /\ UNCHANGED <<mem, buf, source, picture, cam>>
        /\ ~device.streaming
    BY <1>16, OpenEffect DEF CmdOpens, KernelInv
  <2>2. CASE slots' = slots
    <3>1. device'.streaming = device.streaming
      BY <1>1, <1>16 DEF CmdOpens
    <3>2. Doomed' <=> Doomed
      BY <2>1 DEF Doomed, WithDriver
    <3> QED
      BY <1>1, <2>1, <2>2, <3>1, <3>2 DEF Ahead
  <2>3. CASE slots' # slots
    <3>1. Blanks' /\ ~device'.streaming
      BY <1>1, <1>16, <2>1, <2>3 DEF CmdOpens, Blank, Blanks
    <3> QED
      BY <1>1, <1>3, <1>15, <2>1, <3>1
  <2> QED
    BY <2>2, <2>3
<1>17. CASE CmdSelects \/ CmdMaps \/ CmdQueues
  <2>1. /\ UNCHANGED <<slots, source, picture, cam>> /\ Blanks
        /\ ~device.streaming
    BY <1>1, <1>17 DEF CmdSelects, CmdMaps, CmdQueues, Follow
  <2>2. device'.done = device.done /\ device'.streaming = device.streaming
    BY <1>1, <1>17 DEF CmdSelects, CmdMaps, CmdQueues
  <2>3. buf'.index \in Slots /\ Blanks'
    BY <1>17, <2>1 DEF CmdSelects, CmdMaps, CmdQueues, BlankBuf, BufOf, TypeOK,
                       Blanks
  <2> QED
    BY <1>3, <1>15, <2>1, <2>2, <2>3
<1>18. CASE UNCHANGED vars \/ Dies \/ CmdPauses
              \/ (CmdStreamOff /\ cmd' # "unmap")
  BY <1>4, <1>18 DEF vars, Dies, CmdPauses, CmdStreamOff
<1> QED
  BY <1>5, <1>6, <1>7, <1>8, <1>9, <1>10, <1>11, <1>12, <1>13, <1>14, <1>16,
     <1>17, <1>18
     DEF Next, CamThread, SetResolution

(* Without a resolution change only the camera and uvcGrab move, and each    *)
(* frame goes once round: camera, uvcGrab, clients.                          *)
LEMMA UsualStep ==
    ASSUME TypeOK, DistinctInv, KernelInv, DoneInv, UsualInv, [Next]_vars
    PROVE  UsualInv'
<1> SUFFICES ASSUME Usual'
             PROVE  Undisturbed'
  BY DEF UsualInv
<1> USE UvcCaptureAssumption DEF kernel, thread, change, history, CamStep,
        Holds, Taken
<1>1. /\ Undisturbed /\ changes = 0 /\ cmd = "idle" /\ ~SetResolution
      /\ format \in {"YUYV", "MJPEG"}
      /\ device \in [open : BOOLEAN, streaming : BOOLEAN,
                     queued : Seq(Slots), done : Seq(Slots)]
      /\ buf \in [index : Slots, frame : Frames, size : Sizes]
  <2>1. changes = 0 /\ changes' = 0 /\ cmd = "idle"
    BY HistoryGrows DEF Usual, KernelInv
  <2>2. ~CmdPauses
    BY <2>1 DEF CmdPauses
  <2>3. ~SetResolution
    BY <2>1, <2>2 DEF SetResolution, CmdStep, CmdStreamOff, CmdUnmaps,
           CmdCloses, CmdOpens, CmdSelects, CmdMaps, CmdQueues, CmdEnables
  <2> QED
    BY <2>1, <2>3 DEF UsualInv, Usual, TypeOK
<1>2. CASE UNCHANGED vars \/ Dies
  BY <1>1, <1>2 DEF vars, Dies, Undisturbed, WithDriver, Held, Whole, BufOf
<1>3. ASSUME UNCHANGED <<mem, ignored, overtaken, format>>
      PROVE  /\ Whole' /\ ~overtaken' /\ (ignored' # {} => format' = "MJPEG")
  BY <1>1, <1>3 DEF Undisturbed, Whole
<1>4. CASE Deliver
  <2> DEFINE h == Head(device.queued)
  <2>1. /\ h \in Slots /\ h \in OfSeq(device.queued)
        /\ device'.open = device.open
        /\ OfSeq(device'.queued) = OfSeq(device.queued) \ {h}
        /\ OfSeq(device'.done) = OfSeq(device.done) \cup {h}
        /\ slots'[h].frame = delivered + 1 /\ delivered' = delivered + 1
        /\ format = "YUYV" => slots'[h].size = "full"
        /\ \A i \in Slots \ {h} : slots'[i] = slots[i]
        /\ h \notin OfSeq(device.done)
    BY <1>4, DeliverEffect DEF DistinctInv
  <2> HIDE DEF h
  <2>2. UNCHANGED <<format, mem, buf, source, picture, cam, published,
                    ignored, overtaken>>
    BY <1>4 DEF Deliver
  <2>3. WithDriver' = WithDriver /\ Held' = Held
    BY <2>1, <2>2 DEF WithDriver, Held
  <2>4. published.body <= delivered' /\ (Taken => buf.frame <= delivered')
    BY <1>1, <2>1, FrameTypes DEF Undisturbed
  <2>5. ASSUME NEW i \in OfSeq(device'.done)
        PROVE  /\ slots'[i].frame > published.body
               /\ Taken => slots'[i].frame > buf.frame
               /\ format = "YUYV" => slots'[i].size = "full"
    <3>1. CASE i = h
      BY <1>1, <2>1, <3>1, FrameTypes DEF Undisturbed
    <3>2. CASE i # h
      BY <1>1, <2>1, <2>5, <3>2, FrameTypes DEF Undisturbed
    <3> QED
      BY <3>1, <3>2
  <2>6. Holds => BufOf(buf.index)' = buf
    <3> SUFFICES ASSUME Holds
                 PROVE  BufOf(buf.index)' = buf
      OBVIOUS
    <3>1. buf.index \notin WithDriver
      BY <1>1 DEF Undisturbed, Held
    <3>2. slots'[buf.index] = slots[buf.index]
      BY <1>1, <2>1, <3>1 DEF WithDriver
    <3> QED
      BY <1>1, <2>2, <3>2 DEF BufOf, Undisturbed
  <2> QED
    BY <1>1, <1>3, <2>1, <2>2, <2>3, <2>4, <2>5, <2>6 DEF Undisturbed
<1>5. CASE CamPolls \/ CamEntersGrab \/ CamSetsState \/ CamClears
           \/ (CamEnables /\ ~Dies)
  <2>1. /\ ~Taken /\ ~Taken' /\ Held = {} /\ Held' = {}
        /\ cam' \notin {"aim", "copy", "requeue", "publish"}
        /\ cam \notin {"aim", "copy", "requeue", "publish"}
        /\ UNCHANGED <<slots, mem, format, picture, published, delivered,
                       ignored>>
    BY <1>5 DEF CamPolls, CamEntersGrab, CamSetsState, CamClears, CamEnables,
                Held
  <2>2. /\ device'.queued = device.queued /\ device'.done = device.done
        /\ device'.open = device.open
    BY <1>1, <1>5 DEF CamPolls, CamEntersGrab, CamSetsState, CamClears,
                      CamEnables
  <2>3. WithDriver' = WithDriver /\ Whole' = Whole
    BY <2>1, <2>2 DEF WithDriver, Whole
  <2>4. ~overtaken'
    <3>1. ~overtaken /\ ~(changes > 0) /\ cmd # "query"
      BY <1>1 DEF Undisturbed
    <3> QED
      BY <1>5, <3>1 DEF CamPolls, CamEntersGrab, CamSetsState, CamClears,
                        CamEnables
  <2> QED
    BY <1>1, <2>1, <2>2, <2>3, <2>4 DEF Undisturbed
<1>6. CASE CamDequeues /\ ~Dies
  <2> DEFINE h == Head(device.done)
  <2>1. /\ device.done # <<>> /\ device' = [device EXCEPT !.done = Tail(@)]
        /\ cam = "dequeue" /\ cam' = "check" /\ buf' = BufOf(h)
        /\ UNCHANGED <<format, slots, delivered, mem, source, picture,
                       published, ignored, overtaken>>
    BY <1>6 DEF CamDequeues
  <2>2. /\ h \in OfSeq(device.done) /\ h \in Slots /\ h = device.done[1]
        /\ device'.queued = device.queued /\ device'.open = device.open
        /\ OfSeq(device'.done) = OfSeq(device.done) \ {h}
        /\ h \notin OfSeq(device.queued)
    BY <2>1, DequeueEffect DEF DistinctInv
  <2> HIDE DEF h
  <2>3. WithDriver' = Slots \ (Held' \cup ignored) /\ Held' \cap ignored = {}
    <3>1. Held = {} /\ Held' = {h}
      BY <2>1 DEF Held, BufOf
    <3>2. WithDriver' = WithDriver \ {h}
      BY <2>2 DEF WithDriver
    <3>3. h \in WithDriver
      BY <2>2 DEF WithDriver
    <3> QED
      BY <1>1, <3>1, <3>2, <3>3 DEF Undisturbed
  <2>4. ASSUME NEW i \in OfSeq(device'.done)
        PROVE  slots[i].frame > slots[h].frame
    <3>1. PICK k \in 1 .. Len(device.done) : i = device.done[k]
      <4>1. DOMAIN device.done = 1 .. Len(device.done)
        BY FrameTypes, LenProperties
      <4>2. i \in OfSeq(device.done)
        BY <2>2, <2>4
      <4> QED
        BY <4>1, <4>2 DEF OfSeq
    <3>2. 1 < k /\ 1 \in 1 .. Len(device.done)
      <4>1. Len(device.done) \in Nat
        BY FrameTypes, LenProperties
      <4> QED
        BY <2>2, <2>4, <3>1, <4>1
    <3>3. slots[device.done[1]].frame < slots[device.done[k]].frame
      BY <3>1, <3>2 DEF DoneInv
    <3>4. i \in Slots
      BY <2>2, <2>4, FrameTypes
    <3> QED
      BY <2>2, <3>1, <3>3, <3>4, FrameTypes
  <2>5. /\ slots[h].frame > published.body /\ slots[h].frame <= delivered
        /\ format = "YUYV" => slots[h].size = "full"
    BY <1>1, <2>2 DEF Undisturbed, DoneInv
  <2>6. /\ buf'.index = h /\ buf'.frame = slots[h].frame
        /\ buf'.size = slots[h].size /\ BufOf(buf.index)' = buf'
    BY <2>1 DEF BufOf
  <2>7. \A i \in OfSeq(device'.done) :
            /\ slots[i].frame > published.body
            /\ format = "YUYV" => slots[i].size = "full"
    BY <1>1, <2>2 DEF Undisturbed
  <2> QED
    BY <1>1, <1>3, <2>1, <2>2, <2>3, <2>4, <2>5, <2>6, <2>7 DEF Undisturbed
<1>7. CASE CamChecks
  <2>1. /\ cam = "check" /\ source'.size = buf.size
        /\ cam' = IF format = "MJPEG" /\ buf.size = "empty" THEN "publish"
                                                             ELSE "aim"
        /\ ignored' = ignored \cup (IF cam' = "publish" THEN {buf.index}
                                                         ELSE {})
        /\ UNCHANGED <<format, device, slots, delivered, mem, buf, picture,
                       published, overtaken>>
    BY <1>7 DEF CamChecks, TypeOK
  <2>2. buf.size = "full" \/ buf.size = "empty"
    BY <1>1 DEF Sizes
  <2>3. /\ WithDriver' = Slots \ (Held' \cup ignored')
        /\ Held' \cap ignored' = {}
    <3>1. /\ WithDriver' = WithDriver /\ Held' \cup ignored' = Held \cup ignored
          /\ Held' = {} \/ (Held' = Held /\ ignored' = ignored)
      BY <2>1 DEF WithDriver, Held
    <3> QED
      BY <1>1, <3>1 DEF Undisturbed
  <2>4. ignored' # {} => format = "MJPEG"
    BY <1>1, <2>1 DEF Undisturbed
  <2>5. cam' = "aim" => buf.size = "full"
    BY <1>1, <2>1, <2>2 DEF Undisturbed
  <2>6. Whole' = Whole /\ BufOf(buf.index)' = BufOf(buf.index)
    BY <2>1 DEF Whole, BufOf
  <2>7. Taken /\ Taken' /\ Holds /\ (cam' = "publish" => buf.size = "empty")
    BY <2>1
  <2>8. picture' = published.body
    BY <1>1, <2>1 DEF Undisturbed
  <2> QED
    BY <1>1, <2>1, <2>3, <2>4, <2>5, <2>6, <2>7, <2>8 DEF Undisturbed
<1>8. CASE CamAims
  <2>1. /\ cam = "aim" /\ cam' = "copy" /\ source'.at = buf.index
        /\ source'.size = "full"
        /\ UNCHANGED <<format, device, slots, delivered, mem, buf, picture,
                       published, ignored, overtaken>>
    BY <1>1, <1>8 DEF CamAims, Undisturbed, Whole
  <2>2. UNCHANGED <<WithDriver, Held, BufOf(buf.index)>>
    BY <2>1 DEF WithDriver, Held, BufOf
  <2> QED
    BY <1>1, <1>3, <2>1, <2>2 DEF Undisturbed
<1>9. CASE CamCopies /\ ~Dies
  <2>1. /\ cam = "copy" /\ cam' = "requeue"
        /\ source.at = buf.index /\ source.size = "full"
        /\ picture' \in Readable
        /\ UNCHANGED <<format, device, slots, delivered, mem, buf, source,
                       published, ignored, overtaken>>
    BY <1>1, <1>9 DEF CamCopies, Undisturbed
  <2>2. picture' = buf.frame
    <3>1. source.at # Dangling
      BY <1>1, <2>1 DEF Slots, Dangling
    <3> QED
      BY <1>1, <2>1, <3>1 DEF Readable, Undisturbed, BufOf
  <2>3. UNCHANGED <<WithDriver, Held, BufOf(buf.index)>>
    BY <2>1 DEF WithDriver, Held, BufOf
  <2> QED
    BY <1>1, <1>3, <2>1, <2>2, <2>3 DEF Undisturbed
<1>10. CASE CamRequeues /\ ~Dies
  <2>1. /\ CanQueue(buf.index) /\ cam = "requeue" /\ cam' = "publish"
        /\ device' = [device EXCEPT !.queued = Append(@, buf.index)]
        /\ UNCHANGED <<format, slots, delivered, mem, buf, source, picture,
                       published, ignored, overtaken>>
    BY <1>10 DEF CamRequeues
  <2>2. /\ OfSeq(device'.queued) = OfSeq(device.queued) \cup {buf.index}
        /\ device'.done = device.done /\ device'.open = device.open
    BY <1>1, <2>1, QueueEffect
  <2>3. WithDriver' = Slots \ (Held' \cup ignored) /\ Held' = {}
    <3>1. buf.index \notin ignored
      BY <1>1, <2>1 DEF Undisturbed, Held
    <3>2. WithDriver' = WithDriver \cup {buf.index}
      BY <2>2 DEF WithDriver
    <3> QED
      BY <1>1, <2>1, <3>1, <3>2 DEF Undisturbed, Held
  <2> QED
    BY <1>1, <1>3, <2>1, <2>2, <2>3 DEF Undisturbed
<1>11. CASE CamPublishes
  <2>1. /\ cam = "publish" /\ cam' = "poll"
        /\ published'.body = IF DropsSmall /\ buf.size = "empty"
                               THEN published.body ELSE picture
        /\ UNCHANGED <<format, device, slots, delivered, mem, buf, picture,
                       ignored, overtaken>>
    BY <1>11 DEF CamPublishes
  <2>2. UNCHANGED <<WithDriver, Held>>
    BY <2>1 DEF WithDriver, Held
  <2>3. buf.size = "full" \/ buf.size = "empty"
    BY <1>1 DEF Sizes
  <2>4. published'.body = picture
    BY <1>1, <2>1, <2>3 DEF Undisturbed
  <2>5. picture \in {buf.frame, published.body}
    BY <1>1, <2>1 DEF Undisturbed
  <2> QED
    BY <1>1, <1>3, <2>1, <2>2, <2>4, <2>5 DEF Undisturbed
<1> QED
  BY <1>1, <1>2, <1>4, <1>5, <1>6, <1>7, <1>8, <1>9, <1>10, <1>11
     DEF Next, CamThread

-----------------------------------------------------------------------------
(* init_videoIn has queued each buffer once, and nothing was published.      *)
LEMMA InitInv == Init => IInv
<1> SUFFICES ASSUME Init
             PROVE  IInv
  OBVIOUS
<1> USE UvcCaptureAssumption
<1>1. /\ InOrder \in Seq(Slots) /\ Len(InOrder) = NBuffers
      /\ OfSeq(InOrder) = Slots /\ NoRepeats(InOrder)
  <2>1. /\ InOrder \in [1 .. NBuffers -> Slots]
        /\ \A k \in 1 .. NBuffers : InOrder[k] = k - 1
    BY DEF InOrder, Slots
  <2>2. InOrder \in Seq(Slots)
    BY <2>1, SeqDef
  <2>3. DOMAIN InOrder = 1 .. NBuffers /\ DOMAIN InOrder = 1 .. Len(InOrder)
    BY <2>1, <2>2, LenProperties
  <2>4. Len(InOrder) = NBuffers
    <3>1. Len(InOrder) \in Nat
      BY <2>2, LenProperties
    <3> QED
      BY <2>3, <3>1
  <2>5. NoRepeats(InOrder)
    BY <2>1, <2>3 DEF NoRepeats
  <2>6. \A i \in Slots : i + 1 \in 1 .. NBuffers /\ InOrder[i + 1] = i
    BY <2>1 DEF Slots
  <2>7. OfSeq(InOrder) = Slots
    BY <2>1, <2>3, <2>6 DEF OfSeq
  <2> QED
    BY <2>2, <2>4, <2>5, <2>7
<1>2. /\ device = [open |-> TRUE, streaming |-> FALSE, queued |-> InOrder,
                   done |-> <<>>]
      /\ device.queued = InOrder /\ device.done = <<>> /\ device.open
      /\ device.streaming = FALSE
  BY DEF Init
<1>3. <<>> \in Seq(Slots) /\ Len(<<>>) = 0 /\ OfSeq(<<>>) = {}
  BY EmptySeq DEF OfSeq
<1>4. TypeOK
  <2>1. device \in [open : BOOLEAN, streaming : BOOLEAN,
                    queued : Seq(Slots), done : Seq(Slots)]
    BY <1>1, <1>2, <1>3
  <2>2. slots \in [Slots -> [frame : Frames, size : Sizes]]
    BY DEF Init, Blank, NoFrame, Frames, Sizes
  <2>3. /\ buf \in [index : Slots, frame : Frames, size : Sizes]
        /\ source \in [at : Slots \cup {Dangling}, size : Sizes]
    BY DEF Init, BlankBuf, NoFrame, Slots, Frames, Sizes
  <2>5. mem \in [Slots -> Slots \cup {Dangling}] /\ turn \in Slots
    BY DEF Init, Slots
  <2>4. /\ published \in [body : Frames, stamp : Frames, size : Sizes]
        /\ picture \in Frames /\ delivered \in Frames
        /\ changes \in 0 .. Commands
    BY DEF Init, NoFrame, Frames, Sizes
  <2> QED
    BY <2>1, <2>2, <2>3, <2>4, <2>5 DEF Init, TypeOK
<1>5. DistinctInv
  BY <1>1, <1>2, <1>3 DEF DistinctInv, NoRepeats
<1>6. KernelInv
  BY <1>2 DEF Init, KernelInv, Building
<1>7. Whole /\ \A i \in Slots : slots[i].frame = NoFrame
  BY DEF Init, Whole, Blank
<1>8. FollowInv
  BY <1>2, <1>7 DEF Init, FollowInv, Follow, Building, Whole
<1>9. DoneInv
  BY <1>2, <1>3, <1>7 DEF Init, DoneInv, NoFrame
<1>10. AheadInv
  BY <1>2, <1>3 DEF Init, AheadInv, Ahead, Doomed, Holds
<1>11. UsualInv
  <2>1. WithDriver = Slots \ (Held \cup ignored) /\ Held \cap ignored = {}
    BY <1>1, <1>2, <1>3 DEF Init, WithDriver, Held
  <2> QED
    BY <1>2, <1>3, <1>7, <2>1
       DEF Init, UsualInv, Undisturbed, Taken, Holds, NoFrame
<1> QED
  BY <1>4, <1>5, <1>6, <1>8, <1>9, <1>10, <1>11 DEF IInv

(* The parts hold of every state, whatever setResolution does to cam_thread  *)
(* and whatever the camera delivers.                                         *)
THEOREM Invariance == Spec => []IInv
<1>1. IInv /\ [Next]_vars => IInv'
  BY TypeStep, DistinctStep, KernelStep, FollowStep, DoneStep, AheadStep,
     UsualStep DEF IInv
<1> QED
  BY InitInv, <1>1, PTL DEF Spec

(* Type correctness of the ring and of the struct both threads write: above  *)
(* all vd->buf.index, the offset into vd->mem, is always one of the ring's.  *)
THEOREM TypeCorrect == Spec => []TypeOK
<1>1. IInv => TypeOK
  BY DEF IInv
<1> QED
  BY Invariance, <1>1, PTL

(* For a ring of any size: until somebody changes the resolution, a buffer is*)
(* with the driver exactly once or is the one uvcGrab copies or has ignored, *)
(* and a change that succeeds makes the ring whole again while uvcGrab uses  *)
(* the old one, unless uvcGrab went ahead in the middle of it.               *)
THEOREM NoBufferIsLost == Spec => []RingConserved
<1>1. IInv => RingConserved
  <2> SUFFICES ASSUME IInv
               PROVE  RingConserved
    OBVIOUS
  <2>1. NoRepeats(device.queued \o device.done)
    BY FrameTypes, ConcatDistinct DEF IInv, DistinctInv
  <2>2. Usual => /\ WithDriver = Slots \ (Held \cup ignored)
                 /\ ignored # {} => format = "MJPEG"
    BY DEF IInv, UsualInv, Undisturbed
  <2>3. (device.streaming /\ cmd = "idle" /\ ~overtaken) =>
            /\ Slots \ WithDriver \subseteq Held \cup ignored
            /\ \A i \in Slots : mem[i] = i
    BY DEF IInv, FollowInv, Follow, Whole
  <2> QED
    BY <2>1, <2>2, <2>3 DEF RingConserved
<1> QED
  BY Invariance, <1>1, PTL

(* uvcGrab hands cam_thread each frame once, whole, in the camera's order and*)
(* under its own timestamp, until somebody changes the resolution; after an  *)
(* empty MJPEG buffer it is the last picture again.                          *)
THEOREM EachFrameOnce == Spec => PublishesNewFrames
<1> DEFINE A == Usual /\ cam = "publish" /\ cam' = "poll" =>
                  IF buf.size = "full"
                    THEN /\ published'.body > published.body
                         /\ published'.body = published'.stamp
                         /\ published'.size = "full"
                    ELSE format = "MJPEG" /\ published'.body = published.body
<1>1. IInv /\ [Next]_vars => [A]_vars
  <2> SUFFICES ASSUME IInv, Next, Usual, cam = "publish", cam' = "poll"
               PROVE  A
    OBVIOUS
  <2>1. CamPublishes
    BY DEF Next, vars, Deliver, CamThread, SetResolution, CamPolls, CamStep,
           CamEntersGrab, CamEnables, CamSetsState, CamClears, CamDequeues,
           CamChecks, CamAims, CamCopies, CamRequeues, Dies, CmdPauses,
           CmdStreamOff, CmdUnmaps, CmdCloses, CmdOpens, CmdSelects, CmdMaps,
           CmdQueues, CmdEnables, kernel, thread, change, history
  <2>2. /\ buf.frame > published.body
        /\ format = "YUYV" => buf.size = "full"
        /\ picture = IF buf.size = "full" THEN buf.frame ELSE published.body
    BY DEF IInv, UsualInv, Undisturbed, Taken
  <2>3. format = "YUYV" \/ format = "MJPEG"
    BY UvcCaptureAssumption DEF IInv, TypeOK
  <2>4. published' = IF DropsSmall /\ buf.size = "empty"
                       THEN published
                       ELSE [body |-> picture, stamp |-> buf.frame,
                             size |-> buf.size]
    BY <2>1 DEF CamPublishes
  <2>5. CASE buf.size = "full"
    BY <2>2, <2>4, <2>5
  <2>6. CASE buf.size # "full"
    BY <2>2, <2>3, <2>4, <2>6
  <2> QED
    BY <2>5, <2>6
<1> QED
  BY Invariance, <1>1, PTL DEF Spec, PublishesNewFrames

(* Whatever setResolution does to the ring and to vd->buf while uvcGrab uses *)
(* them, a picture never gives way to an older one, unless uvcGrab went ahead*)
(* in the middle of it.                                                      *)
THEOREM NeverBack == Spec => PicturesNeverGoBack
<1> DEFINE A == ~overtaken => picture' >= picture \/ picture' = NoFrame
<1>1. IInv /\ [Next]_vars => [A]_vars
  <2> SUFFICES ASSUME IInv, Next, ~overtaken
               PROVE  picture' >= picture \/ picture' = NoFrame
    OBVIOUS
  <2>1. TypeOK
    BY DEF IInv
  <2>2. CASE UNCHANGED picture
    BY <2>1, <2>2, FrameTypes
  <2>3. CASE CamCopies /\ picture' # picture
    <3>1. cam = "copy" /\ picture' \in Readable
      BY <2>3 DEF CamCopies, Dies, thread
    <3>2. \A i \in Slots : \/ i = source.at
                           \/ source.at = Dangling /\ mem[i] = i
                           => NotBehind(i)
      BY <3>1 DEF IInv, AheadInv, Ahead
    <3>3. source.at \in Slots \cup {Dangling}
      BY <2>1, FrameTypes
    <3> QED
      BY <3>1, <3>2, <3>3 DEF Readable, NotBehind
  <2> QED
    BY <2>2, <2>3
       DEF Next, vars, Deliver, CamThread, SetResolution, CamPolls, CamStep,
           CamEntersGrab, CamEnables, CamSetsState, CamClears, CamDequeues,
           CamChecks, CamAims, CamRequeues, CamPublishes, Dies, CmdPauses,
           CmdStreamOff, CmdUnmaps, CmdCloses, CmdOpens, CmdSelects, CmdMaps,
           CmdQueues, CmdEnables, kernel, thread, change, history
<1> QED
  BY Invariance, <1>1, PTL DEF Spec, PicturesNeverGoBack

=============================================================================
