--------------------------- MODULE BoaServer_proofs ---------------------------
(***************************************************************************)
(* Proofs about the web server, for any number of clients, any scripts and *)
(* any limits: descriptors are owned by one request each and only a simple *)
(* POST's leak, total_connections counts the requests, whoever is blocked  *)
(* is watched by select, a connection is kept only after a whole response  *)
(* or a silent failure, and lame duck mode keeps none.                     *)
(***************************************************************************)
EXTENDS BoaServer, FiniteSetTheorems, SequenceTheorems, WellFoundedInduction,
        TLAPS

\* What the fields of a request say of one another.  Before its header is
\* parsed it has no file, but for a POST's; while a POST's body comes in it has
\* that file; while data is passed on it has the data's descriptor; and it never
\* has both.
Shape(f, q) ==
    /\ q.data = 0 \/ q.post = 0
    /\ f # q.data /\ f # q.post
    /\ q.status = "READ_HEADER" =>
           /\ q.data = 0 /\ q.left = 0 /\ ~q.fill /\ q.cgi = "buffer"
           /\ q.post # 0 => q.logline \in {"post", "old_post"}
    /\ q.status \in {"BODY_READ", "BODY_WRITE"} => q.post # 0
    /\ q.status \in {"PIPE_READ", "PIPE_WRITE"} => q.data # 0
    /\ q.status = "WRITE" => ~q.fill
    /\ q.status = "DONE" /\ q.ka = "active" => ~q.fill /\ q.left = 0
    /\ q.cgi = "done" => q.left = 0

\* When a handler has answered "done" the keep-alive is off, or the response
\* is out, or one of the exceptions of KeptWhole applies.
Ended(q) ==
    q.ka = "active" => /\ ~q.buf \/ q.status = "DEAD"
                       /\ Whole(q) \/ Gone(q) \/ q.torn

\* The request the handler has just left.
AtSwitch == pc \in {"poll", "switch"}

ShapeInv == \A f \in Live : Shape(f, req[f])

\* The descriptors that are open, one by one.
OwnInv ==
    /\ \A x \in opened : \/ x = server_s /\ term # 2
                         \/ x \in leaked
                         \/ \E f \in Live : x \in Owned(f, req[f])
    /\ term # 2 => server_s \in opened /\ server_s \notin leaked
    /\ leaked \subseteq opened
    /\ \A f \in Live : /\ Owned(f, req[f]) \subseteq opened
                       /\ Owned(f, req[f]) \cap leaked = {}
                       /\ term # 2 => server_s \notin Owned(f, req[f])
    /\ \A f, g \in Live :
           f # g => Owned(f, req[f]) \cap Owned(g, req[g]) = {}

\* Who comes has a script, and sends no more than it.
ScriptInv ==
    /\ \A c \in Clients : phase[c] # "closed" => c \in DOMAIN script
    /\ \A c \in DOMAIN script : sent[c] <= Len(script[c])

\* A request belongs to an open connection, and each connection has one.
ClientInv ==
    /\ \A f \in Live : phase[req[f].client] = "open"
    /\ \A f, g \in Live : f # g => req[f].client # req[g].client

\* process_get leaves nothing to write only when it answers "done".
WriteInv ==
    \A f \in Live : req[f].status = "WRITE" /\ req[f].left = 0
                        => AtSwitch /\ f = current /\ result = "done"

CurrentInv ==
    AtSwitch => /\ current \in ready \ todo
                /\ term # 0 => req[current].ka = "stopped"
                /\ result = "done" => Ended(req[current])

\* From fdset_update on, who is blocked is in the sets, or is dead.
WatchInv ==
    pc # "top" => \A f \in block : Watch(f, req[f]) \in watched

IInv == /\ TypeOK /\ TotalCounts /\ OwnInv /\ ShapeInv /\ ClientInv
        /\ ScriptInv /\ WriteInv /\ CurrentInv /\ WatchInv

-----------------------------------------------------------------------------
(* Numbers, and the lowest free descriptor.                                  *)

(* A set of natural numbers that is not empty has a least element.           *)
LEMMA LeastElement ==
    ASSUME NEW T, T \subseteq Nat, T # {}
    PROVE  \E n \in T : \A m \in T : n <= m
<1>1. IsWellFoundedOn(OpToRel(<, Nat), Nat)
  BY NatLessThanWellFounded
<1>2. PICK n \in T : \A m \in T : ~(<<m, n>> \in OpToRel(<, Nat))
  BY <1>1, WFMin
<1>3. ASSUME NEW m \in T
      PROVE  n <= m
  <2>1. m \in Nat /\ n \in Nat
    BY <1>2
  <2>2. CASE m < n
    <3>1. <<m, n>> \in OpToRel(<, Nat)
      BY <2>1, <2>2 DEF OpToRel
    <3> QED
      BY <1>2, <3>1
  <2> QED
    BY <2>1, <2>2
<1> QED
  BY <1>2, <1>3

(* And a greatest one, if it is bounded.                                     *)
LEMMA GreatestElement ==
    ASSUME NEW b \in Nat, NEW T, T \subseteq 0 .. b, T # {}
    PROVE  \E n \in T : \A m \in T : m <= n
<1> DEFINE U == {i \in 0 .. b : b - i \in T}
<1>1. U \subseteq Nat
  OBVIOUS
<1>2. U # {}
  <2>1. PICK m \in T : TRUE
    OBVIOUS
  <2>2. m \in Nat /\ b - m \in 0 .. b /\ b - (b - m) = m
    OBVIOUS
  <2> QED
    BY <2>1, <2>2
<1>3. PICK i \in U : \A j \in U : i <= j
  BY <1>1, <1>2, LeastElement
<1>4. ASSUME NEW m \in T
      PROVE  m <= b - i
  <2>1. m \in Nat /\ b - m \in 0 .. b /\ b - (b - m) = m
    OBVIOUS
  <2>2. b - m \in U
    BY <2>1
  <2>3. i <= b - m /\ i \in Nat
    BY <2>2, <1>3
  <2> QED
    BY <2>1, <2>3
<1> QED
  BY <1>3, <1>4

(* The process's table of descriptors is finite.                             *)
LEMMA Counts ==
    IsFiniteSet(FDs) /\ FDs \subseteq Nat \ {0} /\ server_s \in FDs
<1>1. OpenMax \in Nat /\ OpenMax # 0 /\ FDs = 1 .. OpenMax
  BY BoaAssumption DEF FDs
<1>2. IsFiniteSet(FDs)
  BY <1>1, FS_Interval
<1> QED
  BY <1>1, <1>2 DEF server_s

(* What the kernel gives, while it has one, was free.                        *)
LEMMA LowestIsFree ==
    Free # {} => Lowest \in FDs /\ Lowest \notin opened /\ Lowest # 0
<1> SUFFICES ASSUME Free # {}
             PROVE  Lowest \in FDs /\ Lowest \notin opened /\ Lowest # 0
  OBVIOUS
<1>1. Free \subseteq Nat
  BY Counts DEF Free
<1>2. \E f \in Free : \A g \in Free : f <= g
  BY <1>1, LeastElement
<1>3. Lowest \in Free
  BY <1>2 DEF Lowest
<1> QED
  BY <1>3, Counts DEF Free

-----------------------------------------------------------------------------
(* What the helpers leave of a request.                                      *)

Alike(p, q) ==
    /\ p.client = q.client /\ p.logline = q.logline
    /\ p.data = q.data /\ p.post = q.post /\ p.torn = q.torn
    /\ p.left = q.left /\ p.fill = q.fill /\ p.cgi = q.cgi

(* A request waits for an open descriptor of its own.                        *)
LEMMA WatchType ==
    ASSUME NEW f \in FDs, NEW q \in Requests, Shape(f, q)
    PROVE  Watch(f, q) \in {"r", "w"} \X FDs
<1>1. q.data \in FDs \cup {0} /\ q.post \in FDs \cup {0}
  BY DEF Requests
<1>2. q.status = "PIPE_READ" => q.data \in FDs
  BY <1>1 DEF Shape
<1>3. q.status = "BODY_WRITE" => q.post \in FDs
  BY <1>1 DEF Shape
<1> QED
  BY <1>2, <1>3 DEF Watch

(* Stopping the keep-alive and marking a request dead change one field.      *)
LEMMA MarkEffect ==
    ASSUME NEW q \in Requests
    PROVE  /\ Stopped(q) \in Requests /\ Alike(Stopped(q), q)
           /\ Stopped(q).ka = "stopped" /\ Stopped(q).buf = q.buf
           /\ Stopped(q).status = q.status
           /\ Dead(q) \in Requests /\ Alike(Dead(q), q)
           /\ Dead(q).ka = q.ka /\ Dead(q).buf = q.buf
           /\ Dead(q).status = "DEAD"
<1>1. Stopped(q) \in Requests /\ Dead(q) \in Requests
  BY DEF Requests, Stopped, Dead, Statuses
<1> QED
  BY <1>1 DEF Requests, Stopped, Dead, Alike

(* A flush leaves a request as it was but for the buffer, or finds its       *)
(* client gone.                                                              *)
LEMMA FlushedEffect ==
    ASSUME NEW q \in Requests, NEW p \in Flushed(q)
    PROVE  /\ p \in Requests /\ Alike(p, q) /\ p.ka = q.ka
           /\ \/ p.status = q.status
              \/ p.status = "DEAD" /\ Gone(q) /\ ~p.buf
<1>1. PICK r \in {q, Dead(q)}, b \in BOOLEAN :
          /\ p = [r EXCEPT !.buf = b]
          /\ r # q => Gone(q) /\ ~b
  BY DEF Flushed
<1>2. r \in Requests /\ Alike(r, q) /\ r.ka = q.ka
      /\ (r.status = q.status \/ (r.status = "DEAD" /\ Gone(q) /\ ~b))
  <2>1. Alike(q, q)
    BY DEF Alike
  <2>2. CASE r = q
    BY <2>1, <2>2
  <2>3. CASE r # q
    BY <1>1, <2>3, MarkEffect
  <2> QED
    BY <2>2, <2>3
<1>3. p \in Requests
  BY <1>1, <1>2 DEF Requests
<1>4. p.buf = b /\ p.ka = r.ka /\ p.status = r.status /\ Alike(p, r)
  BY <1>1, <1>2 DEF Requests, Alike
<1> QED
  BY <1>2, <1>3, <1>4 DEF Alike

(* An error page also stops the keep-alive.                                  *)
LEMMA PagedEffect ==
    ASSUME NEW q \in Requests, NEW p \in Paged(q)
    PROVE  /\ p \in Requests /\ Alike(p, q) /\ p.ka = "stopped"
           /\ p.status \in {q.status, "DEAD"}
<1>1. p \in Flushed(Stopped(q))
  BY DEF Paged
<1>2. /\ Stopped(q) \in Requests /\ Alike(Stopped(q), q)
      /\ Stopped(q).ka = "stopped" /\ Stopped(q).status = q.status
  BY MarkEffect
<1>3. /\ p \in Requests /\ Alike(p, Stopped(q)) /\ p.ka = Stopped(q).ka
      /\ p.status \in {Stopped(q).status, "DEAD"}
  BY <1>1, <1>2, FlushedEffect
<1> QED
  BY <1>2, <1>3 DEF Alike

(* Neither disturbs what the fields say of one another.                      *)
LEMMA ShapeKept ==
    ASSUME NEW f, NEW p, NEW q, Shape(f, q), Alike(p, q),
           p.status \in {q.status, "DEAD"}, p.ka \in {q.ka, "stopped"}
    PROVE  Shape(f, p)
BY DEF Shape, Alike

-----------------------------------------------------------------------------
(* What every handler does.                                                  *)

(* It leaves the request p on f as q, well formed, and answers r.            *)
Good(f, p, q, r) ==
    /\ q \in Requests /\ q.client = p.client /\ Shape(f, q)
    /\ q.logline = "none" => p.logline = "none"
    /\ r \in {"block", "done", "more"}
    /\ r = "done" => Ended(q)
    /\ q.status = "WRITE" /\ q.left = 0 => r = "done"

(* What it opens was free, and it closes only what it owned, or forgets it.  *)
Moves(f, p, q) ==
    /\ opened' = (opened \ (Owned(f, p) \ leaked')) \cup Owned(f, q)
    /\ Owned(f, q) \subseteq Owned(f, p) \cup (FDs \ opened)
    /\ leaked \subseteq leaked'
    /\ leaked' \subseteq leaked \cup (Owned(f, p) \ Owned(f, q))

(* It parses no more than was read, and reads no more than was sent.         *)
Reads ==
    /\ got' \in [Clients -> Nat] /\ parsed' \in [Clients -> Nat]
    /\ \A c \in Clients : parsed'[c] <= got'[c] /\ got'[c] <= sent[c]

Leaves(f) ==
    \E q, r : /\ Good(f, req[f], q, r) /\ Moves(f, req[f], q)
              /\ Becomes(f, q, r)

Handled(f) ==
    /\ pc = "pass" /\ pc' = "poll"
    /\ f \in todo /\ todo' = todo \ {f} /\ current' = f
    /\ UNCHANGED <<max_fd, queues, pending, signals, client>>
    /\ Reads /\ Leaves(f)

(* Lame duck mode stops the keep-alive of a request that was good.           *)
LEMMA GoodStopped ==
    ASSUME NEW f, NEW p, NEW q, NEW r, Good(f, p, q, r)
    PROVE  /\ Good(f, p, Stopped(q), r)
           /\ Owned(f, Stopped(q)) = Owned(f, q)
<1>1. /\ Stopped(q) \in Requests /\ Alike(Stopped(q), q)
      /\ Stopped(q).ka = "stopped" /\ Stopped(q).status = q.status
  BY MarkEffect DEF Good
<1>2. Shape(f, Stopped(q))
  BY <1>1, ShapeKept DEF Good
<1>3. Owned(f, Stopped(q)) = Owned(f, q)
  BY <1>1 DEF Owned, Alike
<1> QED
  BY <1>1, <1>2, <1>3 DEF Good, Ended, Alike

(* A page is a good end of any request.                                      *)
LEMMA PagedGood ==
    ASSUME NEW f, NEW p, NEW q \in Requests, NEW e \in Paged(q),
           Shape(f, q), q.client = p.client,
           q.logline = "none" => p.logline = "none"
    PROVE  Good(f, p, e, "done")
<1>1. /\ e \in Requests /\ Alike(e, q) /\ e.ka = "stopped"
      /\ e.status \in {q.status, "DEAD"}
  BY PagedEffect
<1>2. Shape(f, e)
  BY <1>1, ShapeKept
<1> QED
  BY <1>1, <1>2 DEF Good, Ended, Alike

(* A handler that opens and closes nothing moves nothing.                    *)
LEMMA NothingMoves ==
    ASSUME NEW f, NEW p, NEW q, UNCHANGED files,
           q.data = p.data, q.post = p.post, Owned(f, p) \subseteq opened
    PROVE  Moves(f, p, q)
BY DEF Moves, Owned, files

(* Every request on a queue is a request.                                    *)
LEMMA LiveType ==
    ASSUME TypeOK, TotalCounts, NEW f \in Live
    PROVE  f \in FDs /\ f # 0 /\ req[f] \in Requests /\ req[f].client \in Clients
<1>1. f \in FDs /\ req[f] # Nobody
  BY DEF TotalCounts, Live
<1>2. req[f] \in Requests
  BY <1>1 DEF TypeOK
<1>3. req[f].client \in Clients
  BY <1>2 DEF Requests
<1> QED
  BY <1>1, <1>2, <1>3, Counts

(* What a handler may rely on when the pass comes to the request on f.       *)
LEMMA VisitFacts ==
    ASSUME IInv, pc = "pass", NEW f \in todo
    PROVE  /\ f \in Live /\ f \in FDs /\ f # 0
           /\ req[f] \in Requests /\ Shape(f, req[f])
           /\ req[f].client \in Clients
           /\ req[f].status = "WRITE" => req[f].left # 0
           /\ Owned(f, req[f]) \subseteq opened /\ f \in opened
           /\ Owned(f, req[f]) \cap leaked = {} /\ 0 \notin opened
<1> USE DEF IInv
<1>1. f \in Live
  BY DEF TypeOK, Live
<1>2. f \in FDs /\ f # 0 /\ req[f] \in Requests /\ req[f].client \in Clients
  BY <1>1, LiveType
<1>3. /\ Shape(f, req[f]) /\ Owned(f, req[f]) \subseteq opened
      /\ Owned(f, req[f]) \cap leaked = {}
  BY <1>1 DEF ShapeInv, OwnInv
<1>4. req[f].status = "WRITE" => req[f].left # 0
  BY <1>1 DEF WriteInv, AtSwitch
<1>5. f \in opened
  BY <1>2, <1>3 DEF Owned
<1>6. 0 \notin opened
  BY Counts DEF TypeOK
<1> QED
  BY <1>1, <1>2, <1>3, <1>4, <1>5, <1>6

(* A handler that reads nothing.                                             *)
LEMMA ReadsNothing ==
    ASSUME TypeOK, UNCHANGED <<got, parsed>>
    PROVE  Reads
BY DEF Reads, TypeOK

-----------------------------------------------------------------------------
(* The handlers, one by one.                                                 *)

(* A buffer that goes out, in part or not at all, or whose client has gone.  *)
LEMMA FlushesBufferHandled ==
    ASSUME IInv, NEW f \in FDs, FlushesBuffer(f)
    PROVE  Handled(f)
<1> DEFINE q == req[f]
<1>1. pc = "pass" /\ f \in todo /\ Buffered(q) /\ Same
  BY DEF FlushesBuffer
<1>2. PICK p \in Flushed(q) :
          Becomes(f, p, IF p.buf THEN "block"
                        ELSE IF p.status = "DEAD" THEN "done" ELSE "more")
  BY DEF FlushesBuffer
<1> DEFINE r == IF p.buf THEN "block"
                ELSE IF p.status = "DEAD" THEN "done" ELSE "more"
<1>3. q \in Requests /\ Shape(f, q) /\ Owned(f, q) \subseteq opened
      /\ (q.status = "WRITE" => q.left # 0)
  BY <1>1, VisitFacts
<1>4. /\ p \in Requests /\ Alike(p, q) /\ p.ka = q.ka
      /\ \/ p.status = q.status
         \/ p.status = "DEAD" /\ Gone(q) /\ ~p.buf
  BY <1>3, FlushedEffect
<1>5. Shape(f, p)
  BY <1>3, <1>4, ShapeKept
<1>6. r = "done" => Ended(p)
  BY <1>1, <1>4 DEF Ended, Buffered, Gone, Alike
<1>7. Good(f, q, p, r)
  BY <1>3, <1>4, <1>5, <1>6 DEF Good, Alike
<1>8. Moves(f, q, p)
  BY <1>1, <1>3, <1>4, NothingMoves DEF Same, Alike
<1>9. Reads
  BY <1>1, ReadsNothing DEF Same, IInv
<1> QED
  BY <1>2, <1>7, <1>8, <1>9 DEF FlushesBuffer, Handled, Leaves

(* A finished answer waits for its buffer, and is then done and whole.       *)
LEMMA FinishesAnswerHandled ==
    ASSUME IInv, NEW f \in FDs, FinishesAnswer(f)
    PROVE  Handled(f)
<1> DEFINE q == req[f]
<1>1. pc = "pass" /\ f \in todo /\ q.status = "DONE" /\ Same
  BY DEF FinishesAnswer, Visits
<1>2. PICK p \in IF q.buf THEN Flushed(q) ELSE {q} :
          Becomes(f, p, IF p.buf THEN "block" ELSE "done")
  BY DEF FinishesAnswer
<1>3. q \in Requests /\ Shape(f, q) /\ Owned(f, q) \subseteq opened
  BY <1>1, VisitFacts
<1>4. /\ p \in Requests /\ Alike(p, q) /\ p.ka = q.ka
      /\ p.status = "DONE" \/ (p.status = "DEAD" /\ Gone(q))
  <2>1. CASE q.buf
    BY <1>1, <1>2, <1>3, <2>1, FlushedEffect
  <2>2. CASE ~q.buf
    BY <1>1, <1>2, <1>3, <2>2 DEF Alike
  <2> QED
    BY <2>1, <2>2
<1>5. Shape(f, p)
  BY <1>1, <1>3, <1>4, ShapeKept
<1>6. ~p.buf => Ended(p)
  BY <1>1, <1>3, <1>4 DEF Ended, Shape, Whole, Gone, Alike
<1>7. Good(f, q, p, IF p.buf THEN "block" ELSE "done")
  BY <1>4, <1>5, <1>6 DEF Good, Alike
<1>8. Moves(f, q, p)
  BY <1>1, <1>3, <1>4, NothingMoves DEF Same, Alike
<1>9. Reads
  BY <1>1, ReadsNothing DEF Same, IInv
<1> QED
  BY <1>2, <1>7, <1>8, <1>9 DEF FinishesAnswer, Visits, Handled, Leaves

(* A dead request is done, and its connection is not kept.                   *)
LEMMA BuriesHandled ==
    ASSUME IInv, NEW f \in FDs, Buries(f)
    PROVE  Handled(f)
<1> DEFINE q == req[f]
           p == [Stopped(q) EXCEPT !.buf = FALSE]
<1>1. pc = "pass" /\ f \in todo /\ q.status = "DEAD" /\ Same
  BY DEF Buries, Visits
<1>2. Becomes(f, p, "done")
  BY DEF Buries
<1>3. q \in Requests /\ Shape(f, q) /\ Owned(f, q) \subseteq opened
  BY <1>1, VisitFacts
<1>4. /\ p \in Requests /\ Alike(p, q) /\ p.ka = "stopped"
      /\ p.status = "DEAD"
  BY <1>1, <1>3 DEF Requests, Stopped, Alike
<1>5. Shape(f, p)
  BY <1>1, <1>3, <1>4, ShapeKept
<1>6. Good(f, q, p, "done")
  BY <1>4, <1>5 DEF Good, Alike, Ended
<1>7. Moves(f, q, p)
  BY <1>1, <1>3, <1>4, NothingMoves DEF Same, Alike
<1>8. Reads
  BY <1>1, ReadsNothing DEF Same, IInv
<1> QED
  BY <1>2, <1>6, <1>7, <1>8 DEF Buries, Visits, Handled, Leaves

(* init_cgi: the pipe is opened and the POST's file closed; or it fails and  *)
(* the keep-alive is off.                                                    *)
LEMMA InitCgiLeaves ==
    ASSUME NEW f \in FDs, NEW q \in Requests,
           Shape(f, q), q.client = req[f].client,
           q.logline = "none" => req[f].logline = "none",
           q.data = 0, req[f].data = 0, q.post = req[f].post,
           Owned(f, req[f]) \subseteq opened, f # 0, 0 \notin opened,
           Owned(f, req[f]) \cap leaked = {}, InitCgi(f, q)
    PROVE  Leaves(f)
<1> DEFINE s == Stopped(q)
           e == [Stopped(q) EXCEPT !.status = "PIPE_READ", !.cgi = "parse",
                     !.data = Lowest, !.post = 0, !.left = Chunks,
                     !.fill = FALSE]
<1>1. /\ s \in Requests /\ Alike(s, q) /\ s.ka = "stopped"
      /\ s.status = q.status /\ s.buf = q.buf
  BY MarkEffect
<1>2. q.post \in opened \cup {0} /\ f \in opened
  BY DEF Owned, Requests
<1>0. leaked' = leaked
  BY DEF InitCgi
<1>3. CASE /\ Room /\ opened' = (opened \cup {Lowest}) \ {q.post}
           /\ Becomes(f, e, "more")
  <2>0. Lowest \in FDs /\ Lowest \notin opened /\ Lowest # 0
    BY <1>3, LowestIsFree DEF Room
  <2> HIDE DEF s
  <2>1. e = [s EXCEPT !.status = "PIPE_READ", !.cgi = "parse",
                !.data = Lowest, !.post = 0, !.left = Chunks, !.fill = FALSE]
    BY DEF s
  <2> HIDE DEF e
  <2>2. Chunks \in 0 .. Chunks
    BY BoaAssumption
  <2>3. e \in Requests
    <3>1. \A a \in Statuses, b \in {"parse", "buffer", "done"},
             d \in FDs \cup {0}, i \in 0 .. Chunks :
              [s EXCEPT !.status = a, !.cgi = b, !.data = d, !.post = 0,
                        !.left = i, !.fill = FALSE] \in Requests
      BY ZenonT(60), <1>1 DEF Requests
    <3>2. "PIPE_READ" \in Statuses /\ Lowest \in FDs \cup {0}
      BY <2>0 DEF Statuses
    <3> QED
      BY Zenon, <2>1, <2>2, <3>1, <3>2
  <2>4. /\ e.client = s.client /\ e.logline = s.logline
        /\ e.status = "PIPE_READ" /\ e.data = Lowest /\ e.post = 0
        /\ e.cgi = "parse"
    BY <1>1, <2>1 DEF Requests
  <2>5. Shape(f, e)
    BY <1>2, <2>0, <2>4 DEF Shape
  <2>6. Good(f, req[f], e, "more")
    BY <1>1, <2>3, <2>4, <2>5 DEF Good, Alike
  <2>7. Owned(f, req[f]) = {f, q.post} \ {0} /\ Owned(f, e) = {f, Lowest}
    BY <2>0, <2>4 DEF Owned
  <2>8. f # q.post
    BY DEF Shape
  <2>9. opened' = (opened \ (Owned(f, req[f]) \ leaked')) \cup Owned(f, e)
    <3>1. Owned(f, req[f]) \ leaked' = Owned(f, req[f])
      BY <1>0
    <3>2. Lowest # q.post
      BY <1>2, <2>0
    <3>3. (opened \cup {Lowest}) \ {q.post}
              = (opened \ ({f, q.post} \ {0})) \cup {f, Lowest}
      BY <1>2, <2>8, <3>2
    <3> QED
      BY <1>3, <2>7, <3>1, <3>3
  <2>10. Moves(f, req[f], e)
    BY <1>0, <2>0, <2>7, <2>9 DEF Moves
  <2> QED
    BY <1>3, <2>6, <2>10 DEF Leaves
<1>4. CASE UNCHANGED opened /\ Becomes(f, s, "done")
  <2>1. Shape(f, s)
    BY <1>1, ShapeKept
  <2>2. Good(f, req[f], s, "done")
    BY <1>1, <2>1 DEF Good, Ended, Alike
  <2>3. Moves(f, req[f], s)
    BY <1>0, <1>1, <1>4, NothingMoves DEF Alike, files
  <2> QED
    BY <1>4, <2>2, <2>3 DEF Leaves
<1>5. CASE UNCHANGED opened /\ \E p \in Paged(q) : Becomes(f, p, "done")
  <2>1. PICK p \in Paged(q) : Becomes(f, p, "done")
    BY <1>5
  <2>2. Good(f, req[f], p, "done")
    BY PagedGood
  <2>3. p.data = req[f].data /\ p.post = req[f].post
    BY PagedEffect DEF Alike
  <2>4. Moves(f, req[f], p)
    BY <1>0, <1>5, <2>3, NothingMoves DEF files
  <2> QED
    BY <2>1, <2>2, <2>4 DEF Leaves
<1> QED
  BY <1>3, <1>4, <1>5 DEF InitCgi

(* A page that is sent while nothing is opened or closed.                    *)
LEMMA PageLeaves ==
    ASSUME NEW f \in FDs, NEW q \in Requests, NEW p \in Paged(q),
           Shape(f, q), q.client = req[f].client,
           q.logline = "none" => req[f].logline = "none",
           q.data = req[f].data, q.post = req[f].post,
           Owned(f, req[f]) \subseteq opened,
           UNCHANGED files, Becomes(f, p, "done")
    PROVE  Leaves(f)
<1>1. Good(f, req[f], p, "done")
  BY PagedGood
<1>2. p.data = req[f].data /\ p.post = req[f].post
  BY PagedEffect DEF Alike
<1>3. Moves(f, req[f], p)
  BY <1>2, NothingMoves
<1> QED
  BY <1>1, <1>3 DEF Leaves

(* A request that is left well formed, still owning what it owned.           *)
LEMMA GoodLeaves ==
    ASSUME NEW f \in FDs, NEW q, NEW r, Good(f, req[f], q, r),
           q.data = req[f].data, q.post = req[f].post,
           Owned(f, req[f]) \subseteq opened,
           UNCHANGED files, Becomes(f, q, r)
    PROVE  Leaves(f)
BY NothingMoves DEF Leaves

(* What a request may be when the header of a GET is complete: every file    *)
(* and every CGI gets what it needs, and every failure ends the answer.      *)
LEMMA StartsAnswerLeaves ==
    ASSUME NEW f \in FDs, NEW q \in Requests,
           Shape(f, q), q.client = req[f].client, q.logline # "none",
           q.status = "READ_HEADER", q.post = 0,
           req[f].data = 0, req[f].post = 0,
           Owned(f, req[f]) \subseteq opened, f # 0, 0 \notin opened,
           Owned(f, req[f]) \cap leaked = {}, StartsAnswer(f, q)
    PROVE  Leaves(f)
<1>1. q.data = 0 /\ q.left = 0 /\ ~q.fill /\ q.cgi = "buffer"
  BY DEF Shape
<1>2. f \in opened /\ Chunks \in 0 .. Chunks /\ Chunks # 0
  BY BoaAssumption DEF Owned
<1>3. Owned(f, req[f]) = {f}
  BY DEF Owned
<1>4. CASE /\ UNCHANGED files
           /\ \E p \in Flushed(q) :
                  Becomes(f, [p EXCEPT !.status = "DONE"], "more")
  <2>1. PICK p \in Flushed(q) :
            Becomes(f, [p EXCEPT !.status = "DONE"], "more")
    BY <1>4
  <2> DEFINE e == [p EXCEPT !.status = "DONE"]
  <2>2. p \in Requests /\ Alike(p, q)
    BY FlushedEffect
  <2>3. e \in Requests /\ Alike(e, p) /\ e.status = "DONE"
    <3>1. "DONE" \in Statuses
      BY DEF Statuses
    <3>2. \A s \in Statuses : [p EXCEPT !.status = s] \in Requests
      BY <2>2 DEF Requests
    <3>3. e \in Requests
      BY Zenon, <3>1, <3>2
    <3> QED
      BY <2>2, <3>3 DEF Requests, Alike
  <2> HIDE DEF e
  <2>4. Shape(f, e)
    BY <1>1, <2>2, <2>3 DEF Shape, Alike
  <2>5. Good(f, req[f], e, "more")
    BY <1>1, <2>2, <2>3, <2>4 DEF Good, Alike
  <2>6. Becomes(f, e, "more") /\ UNCHANGED files
    BY Zenon, <1>4, <2>1 DEF e
  <2>7. e.data = 0 /\ e.post = 0
    BY <1>1, <2>2, <2>3 DEF Alike
  <2> QED
    BY <1>1, <2>5, <2>6, <2>7, GoodLeaves
<1>5. CASE /\ UNCHANGED files
           /\ Becomes(f, [q EXCEPT !.status = "WRITE", !.buf = TRUE,
                                   !.left = Chunks], "more")
  <2> DEFINE e == [q EXCEPT !.status = "WRITE", !.buf = TRUE, !.left = Chunks]
  <2>1. e \in Requests
    BY <1>2 DEF Requests, Statuses
  <2>2. /\ e.client = q.client /\ e.logline = q.logline /\ e.data = q.data
        /\ e.post = q.post /\ e.status = "WRITE" /\ e.left = Chunks
        /\ e.fill = q.fill /\ e.cgi = q.cgi
    BY DEF Requests
  <2> HIDE DEF e
  <2>3. Shape(f, e)
    BY <1>1, <2>2 DEF Shape
  <2>4. Good(f, req[f], e, "more")
    BY <1>1, <1>2, <2>1, <2>2, <2>3 DEF Good
  <2> QED
    BY <1>1, <1>5, <2>2, <2>4, GoodLeaves DEF e
<1>6. CASE /\ Free # {}
           /\ opened' = opened \cup {Lowest} /\ UNCHANGED leaked
           /\ \E p \in Flushed([q EXCEPT !.status = "PIPE_READ",
                                   !.data = Lowest, !.left = Chunks]) :
                  Becomes(f, p, "more")
  <2> DEFINE e == [q EXCEPT !.status = "PIPE_READ", !.data = Lowest,
                       !.left = Chunks]
  <2>0. Lowest \in FDs /\ Lowest \notin opened /\ Lowest # 0
    BY <1>6, LowestIsFree
  <2>1. e \in Requests
    BY <1>2, <2>0 DEF Requests, Statuses
  <2>2. /\ e.client = q.client /\ e.logline = q.logline /\ e.data = Lowest
        /\ e.post = q.post /\ e.status = "PIPE_READ" /\ e.cgi = q.cgi
    BY DEF Requests
  <2>3. PICK p \in Flushed(e) : Becomes(f, p, "more")
    BY <1>6
  <2> HIDE DEF e
  <2>4. /\ p \in Requests /\ Alike(p, e) /\ p.ka = e.ka
        /\ p.status \in {e.status, "DEAD"}
    BY <2>1, FlushedEffect
  <2>5. Shape(f, e)
    BY <1>1, <1>2, <2>0, <2>2 DEF Shape
  <2>6. Shape(f, p)
    BY <2>4, <2>5, ShapeKept
  <2>7. Good(f, req[f], p, "more")
    BY <1>1, <2>2, <2>4, <2>6 DEF Good, Alike
  <2>8. Owned(f, p) = {f, Lowest}
    BY <1>1, <2>0, <2>2, <2>4 DEF Owned, Alike
  <2>9. Moves(f, req[f], p)
    BY <1>2, <1>3, <1>6, <2>0, <2>8 DEF Moves
  <2> QED
    BY <2>3, <2>7, <2>9 DEF Leaves
<1>7. CASE UNCHANGED files /\ \E p \in Paged(q) : Becomes(f, p, "done")
  BY <1>1, <1>7, PageLeaves
<1>8. CASE InitCgi(f, q)
  BY <1>1, <1>8, InitCgiLeaves
<1> QED
  BY <1>4, <1>5, <1>6, <1>7, <1>8 DEF StartsAnswer

(* A POST's temporary file cannot be made: the request ends in silence.      *)
LEMMA CreatesNoneLeaves ==
    ASSUME NEW f \in FDs, NEW q \in Requests,
           Shape(f, q), q.client = req[f].client, q.logline # "none",
           q.status = "READ_HEADER", ~q.buf, q.data = req[f].data,
           q.post = req[f].post,
           Owned(f, req[f]) \subseteq opened, f # 0,
           CreatesNone(f, q)
    PROVE  Leaves(f)
<1> DEFINE e == [q EXCEPT !.post = 0, !.torn = TRUE]
<1>1. /\ opened' = opened /\ leaked' = leaked \cup ({q.post} \ {0})
      /\ Becomes(f, e, "done")
  BY DEF CreatesNone
<1>2. e \in Requests
  BY DEF Requests
<1>3. /\ e.client = q.client /\ e.logline = q.logline /\ e.data = q.data
      /\ e.post = 0 /\ e.status = q.status /\ e.left = q.left
      /\ e.fill = q.fill /\ e.cgi = q.cgi /\ e.torn /\ ~e.buf
  BY DEF Requests
<1> HIDE DEF e
<1>4. Shape(f, e)
  BY <1>3 DEF Shape
<1>5. Good(f, req[f], e, "done")
  BY <1>2, <1>3, <1>4 DEF Good, Ended
<1>6. /\ Owned(f, req[f]) = {f, q.data, q.post} \ {0}
      /\ Owned(f, e) = {f, q.data} \ {0}
  BY <1>3 DEF Owned
<1>7. f # q.post /\ (q.data = 0 \/ q.post = 0)
  BY DEF Shape
<1>8. Moves(f, req[f], e)
  BY <1>1, <1>6, <1>7 DEF Moves
<1> QED
  BY <1>1, <1>5, <1>8 DEF Leaves

(* It is made: the request has the new one, and any old one is forgotten.    *)
LEMMA CreatesFileLeaves ==
    ASSUME NEW f \in FDs, NEW q \in Requests, NEW e, NEW r,
           Shape(f, q), q.data = 0, req[f].data = 0,
           q.post = req[f].post, CreatesFile(q),
           e.data = 0, e.post = Lowest, Good(f, req[f], e, r),
           Owned(f, req[f]) \subseteq opened, f # 0,
           Becomes(f, e, r)
    PROVE  Leaves(f)
<1>1. Lowest \in FDs /\ Lowest \notin opened /\ Lowest # 0
  BY LowestIsFree DEF CreatesFile
<1>2. /\ opened' = opened \cup {Lowest}
      /\ leaked' = leaked \cup ({q.post} \ {0})
  BY DEF CreatesFile
<1>3. /\ Owned(f, req[f]) = {f, q.post} \ {0} /\ Owned(f, e) = {f, Lowest}
  BY <1>1 DEF Owned
<1>4. f # q.post /\ f \in opened /\ q.post \in opened \cup {0}
  BY <1>3 DEF Shape
<1>5. Moves(f, req[f], e)
  BY <1>1, <1>2, <1>3, <1>4 DEF Moves
<1> QED
  BY <1>5 DEF Leaves

(* What a POST may be when its header is complete.                           *)
LEMMA StartsBodyLeaves ==
    ASSUME NEW f \in FDs, NEW q \in Requests, NEW n,
           Shape(f, q), q.client = req[f].client,
           q.logline \in {"post", "old_post"},
           q.status = "READ_HEADER", ~q.buf, req[f].data = 0,
           q.post = req[f].post,
           Owned(f, req[f]) \subseteq opened, f # 0, 0 \notin opened,
           StartsBody(f, q, n)
    PROVE  Leaves(f)
<1> DEFINE body == n < got[q.client]
           p == [q EXCEPT !.post = Lowest]
           e == [p EXCEPT !.status = "BODY_WRITE", !.fill = body,
                          !.left = IF body THEN 0 ELSE 1]
<1>1. /\ q.data = 0 /\ q.left = 0 /\ ~q.fill /\ q.cgi = "buffer"
      /\ q.logline # "none"
  BY DEF Shape
<1>2. f \in opened /\ 0 \in 0 .. Chunks /\ 1 \in 0 .. Chunks
  BY BoaAssumption DEF Owned
<1>3. CASE CreatesNone(f, q)
  BY <1>1, <1>3, CreatesNoneLeaves
<1>4. ASSUME CreatesFile(q)
      PROVE  /\ Lowest \in FDs /\ Lowest \notin opened /\ Lowest # 0
             /\ p \in Requests
             /\ p.client = q.client /\ p.logline = q.logline /\ p.data = 0
             /\ p.post = Lowest /\ p.status = "READ_HEADER" /\ p.left = 0
             /\ ~p.fill /\ p.cgi = "buffer" /\ Shape(f, p)
  <2>1. Lowest \in FDs /\ Lowest \notin opened /\ Lowest # 0
    BY <1>4, LowestIsFree DEF CreatesFile
  <2>2. p \in Requests
    BY <2>1 DEF Requests
  <2>3. /\ p.client = q.client /\ p.logline = q.logline /\ p.data = 0
        /\ p.post = Lowest /\ p.status = "READ_HEADER" /\ p.left = 0
        /\ ~p.fill /\ p.cgi = "buffer"
    BY <1>1 DEF Requests
  <2> HIDE DEF p
  <2>4. Shape(f, p)
    BY <1>1, <1>2, <2>1, <2>3 DEF Shape
  <2> QED
    BY <2>1, <2>2, <2>3, <2>4
<1> HIDE DEF p
<1>5. CASE CreatesFile(q) /\ Becomes(f, e, "more")
  <2>1. e \in Requests
    <3>1. body \in BOOLEAN /\ (IF body THEN 0 ELSE 1) \in 0 .. Chunks
      BY <1>2
    <3> HIDE DEF body
    <3>0. p \in Requests
      BY <1>4, <1>5
    <3>2. \A s \in Statuses, b \in BOOLEAN, i \in 0 .. Chunks :
              [p EXCEPT !.status = s, !.fill = b, !.left = i] \in Requests
      BY ONLY <3>0 DEF Requests
    <3>3. "BODY_WRITE" \in Statuses
      BY Zenon DEF Statuses
    <3> QED
      BY Zenon, <3>1, <3>2, <3>3
  <2>2. /\ e.client = q.client /\ e.logline = q.logline /\ e.data = 0
        /\ e.post = Lowest /\ e.status = "BODY_WRITE" /\ e.cgi = "buffer"
    BY <1>4, <1>5 DEF Requests
  <2> HIDE DEF e
  <2>3. Shape(f, e)
    BY <1>2, <1>4, <1>5, <2>2 DEF Shape
  <2>4. Good(f, req[f], e, "more")
    BY <1>1, <2>1, <2>2, <2>3 DEF Good
  <2> QED
    BY <1>1, <1>5, <2>2, <2>4, CreatesFileLeaves
<1>6. CASE CreatesFile(q) /\ \E d \in Paged(p) : Becomes(f, d, "done")
  <2>1. PICK d \in Paged(p) : Becomes(f, d, "done")
    BY <1>6
  <2>2. Good(f, req[f], d, "done")
    BY <1>1, <1>4, <1>6, PagedGood
  <2>3. d.data = 0 /\ d.post = Lowest
    BY <1>4, <1>6, PagedEffect DEF Alike
  <2> QED
    BY <1>1, <1>6, <2>1, <2>2, <2>3, CreatesFileLeaves
<1> QED
  BY <1>3, <1>5, <1>6 DEF StartsBody, p

(* read on the socket brings what was sent, or nothing, or the end.          *)
LEMMA ReadsSocketLeaves ==
    ASSUME NEW f \in FDs, NEW q \in Requests, NEW read,
           Shape(f, q), q.client = req[f].client,
           q.logline = "none" => req[f].logline = "none",
           q.status \in {"READ_HEADER", "BODY_READ"}, ~q.buf,
           q.data = req[f].data, q.post = req[f].post,
           read.data = q.data, read.post = q.post,
           Good(f, req[f], read, "more"),
           Owned(f, req[f]) \subseteq opened,
           ReadsSocket(f, q, read)
    PROVE  Leaves(f)
<1>1. UNCHANGED files
  BY DEF ReadsSocket
<1>2. CASE Becomes(f, read, "more")
  BY <1>1, <1>2, GoodLeaves
<1>3. CASE Becomes(f, q, "block")
  <2>1. Good(f, req[f], q, "block")
    BY DEF Good
  <2> QED
    BY <1>1, <1>3, <2>1, GoodLeaves
<1>4. CASE /\ gone[q.client]
           /\ \E p \in IF q.status = "BODY_READ" THEN Paged(q) ELSE {q} :
                  Becomes(f, p, "done")
  <2>1. CASE q.status = "BODY_READ"
    BY <1>1, <1>4, <2>1, PageLeaves
  <2>2. CASE q.status = "READ_HEADER"
    <3>1. Good(f, req[f], q, "done")
      BY <1>4 DEF Good, Ended, Gone
    <3> QED
      BY <1>1, <1>4, <2>2, <3>1, GoodLeaves
  <2> QED
    BY <2>1, <2>2
<1> QED
  BY <1>2, <1>3, <1>4 DEF ReadsSocket

(* It does not read past what was sent.                                      *)
LEMMA ReadsSocketReads ==
    ASSUME TypeOK, NEW f, NEW q, NEW read, q.client \in Clients,
           ReadsSocket(f, q, read),
           parsed' \in [Clients -> Nat],
           \A c \in Clients : parsed'[c] <= got[c]
    PROVE  Reads
<1> DEFINE c == q.client
<1>1. /\ got \in [Clients -> Nat] /\ sent \in [Clients -> Nat]
      /\ \A d \in Clients : got[d] <= sent[d]
  BY DEF TypeOK
<1>2. CASE UNCHANGED got
  BY <1>1, <1>2 DEF Reads
<1>3. CASE got' = [got EXCEPT ![c] = sent[c]]
  <2>1. got' \in [Clients -> Nat]
    BY <1>1, <1>3
  <2>3. ASSUME NEW d \in Clients
        PROVE  parsed'[d] <= got'[d] /\ got'[d] <= sent[d]
    <3> DEFINE g == got[d]
               s == sent[d]
               p == parsed'[d]
               h == got'[d]
    <3>1. p \in Nat /\ g \in Nat /\ s \in Nat /\ p <= g /\ g <= s
      BY <1>1
    <3>2. h = s \/ h = g
      BY <1>1, <1>3
    <3> HIDE DEF g, s, p, h
    <3>3. p <= h /\ h <= s
      BY <3>1, <3>2
    <3> QED
      BY <3>3 DEF p, s, h
  <2> QED
    BY <2>1, <2>3 DEF Reads
<1> QED
  BY <1>2, <1>3 DEF ReadsSocket

(* Both kinds of POST ask for a POST.                                        *)
LEMMA AsksPost ==
    ASSUME NEW line
    PROVE  Asks(line) = "post" <=> line \in {"post", "old_post"}
<1>1. CASE line \in DOMAIN Old
  BY <1>1 DEF Asks, Old
<1>2. CASE line \notin DOMAIN Old
  BY <1>2 DEF Asks, Old
<1> QED
  BY <1>1, <1>2

(* read_header: the line, and what follows it, come from what the client     *)
(* sends.                                                                    *)
LEMMA ReadsHeaderHandled ==
    ASSUME IInv, NEW f \in FDs, ReadsHeader(f)
    PROVE  Handled(f)
<1> DEFINE o    == req[f]
           c    == o.client
           new  == o.logline = "none" /\ parsed[c] < got[c]
           line == IF new THEN script[c][parsed[c] + 1] ELSE o.logline
           n    == IF new THEN parsed[c] + 1 ELSE parsed[c]
           q    == [o EXCEPT !.logline = line]
           head == line \in Lines \/ (line = "old_post" /\ ~new)
           rest == IF head /\ n < got[c] THEN script[c][n + 1] ELSE "none"
           k    == [q EXCEPT !.ka = IF rest = "end" THEN "active" ELSE @]
           p    == [q EXCEPT !.post = Lowest]
<1>1. /\ pc = "pass" /\ f \in todo /\ o.status = "READ_HEADER"
      /\ ~Buffered(o) /\ Visits(f, "READ_HEADER")
  BY DEF ReadsHeader, Visits
<1>2. /\ f \in Live /\ f # 0 /\ o \in Requests /\ Shape(f, o)
      /\ c \in Clients /\ Owned(f, o) \subseteq opened /\ 0 \notin opened
      /\ f \in opened /\ Owned(f, o) \cap leaked = {}
  BY <1>1, VisitFacts
<1>3. ~o.buf /\ o.data = 0
      /\ (o.post # 0 => o.logline \in {"post", "old_post"})
  BY <1>1, <1>2 DEF Buffered, Shape
<1>4. /\ parsed \in [Clients -> Nat] /\ got \in [Clients -> Nat]
      /\ sent \in [Clients -> Nat]
      /\ \A d \in Clients : parsed[d] <= got[d] /\ got[d] <= sent[d]
  BY DEF IInv, TypeOK
<1>5. c \in DOMAIN script /\ sent[c] <= Len(script[c])
      /\ script[c] \in Seq(Pieces)
  <2>1. phase[c] = "open"
    BY <1>2 DEF IInv, ClientInv
  <2>2. c \in DOMAIN script /\ script \in Scripts
    BY <1>2, <2>1 DEF IInv, ScriptInv, TypeOK
  <2> QED
    BY <2>2, BoaAssumption DEF IInv, ScriptInv
<1>6. line \in Pieces \cup {"none"} /\ (line = "none" => o.logline = "none")
  <2>1. CASE new
    <3>1. parsed[c] + 1 \in 1 .. Len(script[c])
      <4> DEFINE m == Len(script[c])
      <4>1. m \in Nat /\ sent[c] <= m
        BY <1>5
      <4> HIDE DEF m
      <4>2. parsed[c] + 1 \in 1 .. m
        BY <1>2, <1>4, <2>1, <4>1
      <4> QED
        BY <4>2 DEF m
    <3>2. script[c][parsed[c] + 1] \in Pieces
      BY <1>5, <3>1
    <3>3. "none" \notin Pieces
      BY DEF Pieces, Lines, Old
    <3> QED
      BY <2>1, <3>2, <3>3
  <2>2. CASE ~new
    BY <1>2, <2>2 DEF Requests
  <2> QED
    BY <2>1, <2>2
<1>7. n \in Nat /\ n <= got[c]
  BY <1>2, <1>4
<1>8. (new => o.post = 0) /\ (~new => line = o.logline)
  BY <1>3
<1>9. rest # "none" => n < got[c] /\ head
  OBVIOUS
<1> HIDE DEF line, n, rest
<1>10. /\ q \in Requests /\ q.client = c /\ q.logline = line
       /\ q.status = "READ_HEADER" /\ ~q.buf /\ q.data = 0
       /\ q.post = o.post /\ q.left = 0 /\ ~q.fill /\ q.cgi = "buffer"
       /\ Shape(f, q)
  <2>1. q \in Requests
    BY <1>2, <1>6 DEF Requests
  <2>2. /\ q.client = c /\ q.logline = line /\ q.status = o.status
        /\ q.buf = o.buf /\ q.data = o.data /\ q.post = o.post
        /\ q.left = o.left /\ q.fill = o.fill /\ q.cgi = o.cgi
    BY <1>2 DEF Requests
  <2> HIDE DEF q
  <2>3. /\ q.left = 0 /\ ~q.fill /\ q.cgi = "buffer"
        /\ q.post # 0 => q.logline \in {"post", "old_post"}
    BY <1>1, <1>2, <1>3, <1>8, <2>2 DEF Shape
  <2>4. Shape(f, q)
    BY <1>1, <1>2, <1>3, <2>2, <2>3 DEF Shape
  <2> QED
    BY <1>1, <1>3, <2>1, <2>2, <2>3, <2>4
<1>11. head => line # "none"
  BY DEF Lines
<1> HIDE DEF q, new, head
<1>12. CASE /\ new /\ line \in DOMAIN Old
            /\ parsed' = [parsed EXCEPT ![c] = n] /\ UNCHANGED got
            /\ IF line = "old_post"
               THEN \/ CreatesNone(f, q)
                    \/ CreatesFile(q) /\ Becomes(f, p, "more")
               ELSE StartsAnswer(f, q)
  <2>1. line # "none"
    BY <1>12 DEF Old
  <2>2. Reads
    BY <1>2, <1>4, <1>7, <1>12 DEF Reads
  <2>3. q.post = 0
    BY <1>8, <1>10, <1>12
  <2> SUFFICES Leaves(f)
    BY <1>1, <2>2 DEF Visits, Handled
  <2>4. CASE CreatesNone(f, q)
    BY <1>2, <1>3, <1>10, <2>1, <2>4, CreatesNoneLeaves
  <2>5. CASE line = "old_post" /\ CreatesFile(q) /\ Becomes(f, p, "more")
    <3>1. Lowest \in FDs /\ Lowest \notin opened /\ Lowest # 0
      BY <2>5, LowestIsFree DEF CreatesFile
    <3>2. p \in Requests
      BY <1>10, <3>1 DEF Requests
    <3>3. /\ p.client = c /\ p.logline = "old_post" /\ p.data = 0
          /\ p.post = Lowest /\ p.status = "READ_HEADER" /\ p.left = 0
          /\ ~p.fill /\ p.cgi = "buffer"
      BY <1>10, <2>5 DEF Requests
    <3> HIDE DEF p
    <3>4. Shape(f, p)
      BY <1>2, <3>1, <3>3 DEF Shape
    <3>5. Good(f, o, p, "more")
      BY <3>2, <3>3, <3>4 DEF Good
    <3> QED
      BY <1>2, <1>3, <1>10, <2>5, <3>3, <3>5, CreatesFileLeaves
  <2>6. CASE StartsAnswer(f, q)
    BY <1>2, <1>3, <1>10, <2>1, <2>3, <2>6, StartsAnswerLeaves
  <2> QED
    BY <1>12, <2>4, <2>5, <2>6
<1>13. CASE /\ rest \in {"end", "blank"}
            /\ parsed' = [parsed EXCEPT ![c] = n + 1] /\ UNCHANGED got
            /\ IF Asks(line) = "post" THEN StartsBody(f, k, n + 1)
                                      ELSE StartsAnswer(f, k)
  <2>1. line # "none" /\ n < got[c]
    BY <1>9, <1>11, <1>13
  <2>2. n + 1 \in Nat /\ n + 1 <= got[c]
    BY <1>2, <1>4, <1>7, <2>1
  <2>3. Reads
    BY <1>2, <1>4, <1>13, <2>2 DEF Reads
  <2>4. /\ k \in Requests /\ k.client = c /\ k.logline = line
        /\ k.status = "READ_HEADER" /\ ~k.buf /\ k.data = 0 /\ k.post = o.post
        /\ k.left = 0 /\ ~k.fill /\ k.cgi = "buffer"
    BY <1>10 DEF Requests
  <2> HIDE DEF k
  <2>5. Shape(f, k)
    BY <1>10, <2>4 DEF Shape
  <2> SUFFICES Leaves(f)
    BY <1>1, <2>3 DEF Visits, Handled
  <2>6. CASE Asks(line) = "post" /\ StartsBody(f, k, n + 1)
    <3>1. k.logline \in {"post", "old_post"}
      BY <2>4, <2>6, AsksPost
    <3> QED
      BY <1>2, <1>3, <2>4, <2>5, <2>6, <3>1, StartsBodyLeaves
  <2>7. CASE Asks(line) # "post" /\ StartsAnswer(f, k)
    <3>1. k.post = 0
      BY <2>4, <2>5, <2>7, AsksPost DEF Shape
    <3> QED
      BY <1>2, <1>3, <2>1, <2>4, <2>5, <2>7, <3>1, StartsAnswerLeaves
  <2> QED
    BY <1>13, <2>6, <2>7
<1>14. CASE /\ rest \notin {"none", "blank"}
            /\ parsed' = [parsed EXCEPT ![c] = n + 1]
            /\ UNCHANGED <<files, got>>
            /\ \E ka \in {q.ka} \cup (IF rest = "bad" THEN {"active"} ELSE {}) :
                   Becomes(f, [q EXCEPT !.ka = ka, !.torn = TRUE], "done")
  <2>1. line # "none" /\ n < got[c]
    BY <1>9, <1>11, <1>14
  <2>2. n + 1 \in Nat /\ n + 1 <= got[c]
    BY <1>2, <1>4, <1>7, <2>1
  <2>3. Reads
    BY <1>2, <1>4, <1>14, <2>2 DEF Reads
  <2>4. PICK ka \in {q.ka, "active"} :
            Becomes(f, [q EXCEPT !.ka = ka, !.torn = TRUE], "done")
    BY <1>14
  <2> DEFINE e == [q EXCEPT !.ka = ka, !.torn = TRUE]
  <2>5. e \in Requests
    BY <1>10 DEF Requests
  <2>6. /\ e.client = q.client /\ e.logline = q.logline /\ e.data = q.data
        /\ e.post = q.post /\ e.status = q.status /\ e.left = q.left
        /\ e.fill = q.fill /\ e.cgi = q.cgi /\ e.torn /\ e.buf = q.buf
    BY <1>10 DEF Requests
  <2> HIDE DEF e
  <2>7. Shape(f, e)
    BY <1>10, <2>6 DEF Shape
  <2>8. Good(f, o, e, "done")
    BY <1>10, <2>1, <2>5, <2>6, <2>7 DEF Good, Ended
  <2>9. Leaves(f)
    BY <1>2, <1>3, <1>10, <1>14, <2>4, <2>6, <2>8, GoodLeaves DEF e
  <2> QED
    BY <1>1, <2>3, <2>9 DEF Visits, Handled
<1>15. CASE /\ parsed' = [parsed EXCEPT ![c] = n]
            /\ ReadsSocket(f, q, q)
  <2>1. Good(f, o, q, "more")
    BY <1>6, <1>10 DEF Good
  <2>2. Leaves(f)
    BY <1>2, <1>3, <1>6, <1>10, <1>15, <2>1, ReadsSocketLeaves
  <2>3. parsed' \in [Clients -> Nat]
        /\ \A d \in Clients : parsed'[d] <= got[d]
    BY <1>2, <1>4, <1>7, <1>15
  <2>4. Reads
    BY <1>2, <1>10, <1>15, <2>3, ReadsSocketReads DEF IInv
  <2> QED
    BY <1>1, <2>2, <2>4 DEF Visits, Handled
<1>16. CASE /\ parsed' = [parsed EXCEPT ![c] = n]
            /\ UNCHANGED <<files, got>>
            /\ \E d \in Paged(q) : Becomes(f, d, "done")
  <2>1. Leaves(f)
    BY <1>2, <1>3, <1>6, <1>10, <1>16, PageLeaves
  <2>2. Reads
    BY <1>2, <1>4, <1>7, <1>16 DEF Reads
  <2> QED
    BY <1>1, <2>1, <2>2 DEF Visits, Handled
<1> QED
  BY ZenonT(60), <1>12, <1>13, <1>14, <1>15, <1>16
  DEF ReadsHeader, line, n, q, new, head, rest

(* The rest of a POST's body is read into the buffer.                        *)
LEMMA ReadsBodyHandled ==
    ASSUME IInv, NEW f \in FDs, ReadsBody(f)
    PROVE  Handled(f)
<1> DEFINE q == req[f]
           e == [q EXCEPT !.status = "BODY_WRITE", !.fill = TRUE, !.left = 0]
<1>1. /\ pc = "pass" /\ f \in todo /\ q.status = "BODY_READ"
      /\ ~Buffered(q) /\ Visits(f, "BODY_READ")
      /\ UNCHANGED parsed /\ ReadsSocket(f, q, e)
  <2>1. /\ Visits(f, "BODY_READ") /\ UNCHANGED parsed
        /\ ReadsSocket(f, q, e)
    BY Zenon DEF ReadsBody
  <2> HIDE DEF e
  <2>2. pc = "pass" /\ f \in todo /\ q.status = "BODY_READ" /\ ~Buffered(q)
    BY <2>1 DEF Visits
  <2> QED
    BY <2>1, <2>2
<1>2. /\ q \in Requests /\ Shape(f, q) /\ q.client \in Clients
      /\ Owned(f, q) \subseteq opened /\ ~q.buf
  BY <1>1, VisitFacts DEF Buffered
<1>0. q = req[f] /\ 0 \in 0 .. Chunks
  BY BoaAssumption
<1> HIDE DEF q
<1>3. e \in Requests
  <2>1. \A s \in Statuses, b \in BOOLEAN, i \in 0 .. Chunks :
            [q EXCEPT !.status = s, !.fill = b, !.left = i] \in Requests
    BY <1>2 DEF Requests
  <2>2. "BODY_WRITE" \in Statuses /\ TRUE \in BOOLEAN
    BY Zenon DEF Statuses
  <2> QED
    BY Zenon, <1>0, <2>1, <2>2
<1>4. /\ e.client = q.client /\ e.logline = q.logline /\ e.data = q.data
      /\ e.post = q.post /\ e.status = "BODY_WRITE" /\ e.left = 0
  BY <1>2 DEF Requests
<1> HIDE DEF e
<1>5. Shape(f, e)
  BY <1>1, <1>2, <1>4 DEF Shape
<1>6. Good(f, q, e, "more")
  BY <1>3, <1>4, <1>5 DEF Good
<1>7. Leaves(f)
  BY <1>0, <1>1, <1>2, <1>4, <1>6, ReadsSocketLeaves
<1>8. parsed' \in [Clients -> Nat] /\ \A c \in Clients : parsed'[c] <= got[c]
  BY <1>1 DEF IInv, TypeOK
<1>9. Reads
  BY <1>1, <1>2, <1>8, ReadsSocketReads DEF IInv
<1> QED
  BY <1>1, <1>7, <1>9 DEF Visits, Handled

(* A piece of the body goes to the file; when all is there the CGI starts.   *)
LEMMA WritesBodyHandled ==
    ASSUME IInv, NEW f \in FDs, WritesBody(f)
    PROVE  Handled(f)
<1> DEFINE q == req[f]
           w == [q EXCEPT !.fill = FALSE]
           e == [q EXCEPT !.status = "BODY_READ"]
<1>1. /\ pc = "pass" /\ f \in todo /\ q.status = "BODY_WRITE"
      /\ Visits(f, "BODY_WRITE") /\ UNCHANGED <<got, parsed>>
  BY DEF WritesBody, Visits
<1> SUFFICES Leaves(f)
  <2>1. Reads
    BY <1>1, ReadsNothing DEF IInv
  <2> QED
    BY <1>1, <2>1 DEF Visits, Handled
<1>2. /\ q \in Requests /\ Shape(f, q) /\ f # 0 /\ 0 \notin opened
      /\ Owned(f, q) \subseteq opened /\ Owned(f, q) \cap leaked = {}
  BY <1>1, VisitFacts
<1>3. \/ UNCHANGED files /\ Becomes(f, w, "more")
      \/ UNCHANGED files /\ \E p \in Paged(q) : Becomes(f, p, "done")
      \/ InitCgi(f, q)
      \/ UNCHANGED files /\ Becomes(f, e, "more")
  BY Zenon DEF WritesBody
<1>0. q = req[f] /\ 0 \in 0 .. Chunks
  BY BoaAssumption
<1> HIDE DEF q
<1>4. q.data = 0
  BY <1>1, <1>2 DEF Shape
<1>5. /\ w \in Requests
      /\ w.client = q.client /\ w.logline = q.logline /\ w.data = q.data
      /\ w.post = q.post /\ w.status = q.status /\ w.cgi = q.cgi
      /\ w.left = q.left
  BY <1>2 DEF Requests
<1>6. /\ e \in Requests
      /\ e.client = q.client /\ e.logline = q.logline /\ e.data = q.data
      /\ e.post = q.post /\ e.status = "BODY_READ" /\ e.cgi = q.cgi
      /\ e.left = q.left
  BY <1>2 DEF Requests, Statuses
<1> HIDE DEF w, e
<1>7. Good(f, q, w, "more")
  <2>1. Shape(f, w)
    BY <1>1, <1>2, <1>5 DEF Shape
  <2> QED
    BY <1>1, <1>5, <2>1 DEF Good
<1>8. Good(f, q, e, "more")
  <2>1. Shape(f, e)
    BY <1>1, <1>2, <1>6 DEF Shape
  <2> QED
    BY <1>6, <2>1 DEF Good
<1>9. CASE UNCHANGED files /\ Becomes(f, w, "more")
  BY <1>0, <1>2, <1>5, <1>7, <1>9, GoodLeaves
<1>10. CASE UNCHANGED files /\ \E p \in Paged(q) : Becomes(f, p, "done")
  BY <1>0, <1>2, <1>10, PageLeaves
<1>11. CASE InitCgi(f, q)
  BY <1>0, <1>2, <1>4, <1>11, InitCgiLeaves
<1>12. CASE UNCHANGED files /\ Becomes(f, e, "more")
  BY <1>0, <1>2, <1>6, <1>8, <1>12, GoodLeaves
<1> QED
  BY <1>3, <1>9, <1>10, <1>11, <1>12

(* process_get: the response is whole when it answers "done", or the client  *)
(* has gone, or the file has failed under it.                                *)
LEMMA GetsHandled ==
    ASSUME IInv, NEW f \in FDs, Gets(f)
    PROVE  Handled(f)
<1> DEFINE q == req[f]
           e == [q EXCEPT !.left = @ - 1]
           r == IF q.left = 1 THEN "done" ELSE "more"
           t == [Dead(q) EXCEPT !.torn = TRUE]
<1>1. /\ pc = "pass" /\ f \in todo /\ q.status = "WRITE"
      /\ ~Buffered(q) /\ Visits(f, "WRITE") /\ UNCHANGED <<files, got, parsed>>
  BY DEF Gets, Visits, Same
<1> SUFFICES Leaves(f)
  <2>1. Reads
    BY <1>1, ReadsNothing DEF IInv
  <2> QED
    BY <1>1, <2>1 DEF Visits, Handled
<1>2. /\ q \in Requests /\ Shape(f, q) /\ q.left # 0
      /\ Owned(f, q) \subseteq opened
  BY <1>1, VisitFacts
<1>3. \/ Becomes(f, e, r) \/ Becomes(f, q, "block")
      \/ Gone(q) /\ Becomes(f, Dead(q), "done")
      \/ Becomes(f, t, "done")
  BY Zenon DEF Gets
<1>0. q = req[f] /\ 0 \in 0 .. Chunks
  BY BoaAssumption
<1> HIDE DEF q
<1>4. ~q.buf /\ ~q.fill
  BY <1>1, <1>2 DEF Buffered, Shape
<1>5. q.left - 1 \in 0 .. Chunks /\ (q.left - 1 = 0 <=> q.left = 1)
  <2>1. q.left \in 0 .. Chunks /\ Chunks \in Nat
    BY <1>2, BoaAssumption DEF Requests
  <2> QED
    BY <1>2, <2>1
<1>6. /\ e \in Requests
      /\ e.client = q.client /\ e.logline = q.logline /\ e.data = q.data
      /\ e.post = q.post /\ e.status = q.status /\ e.cgi = q.cgi
      /\ e.left = q.left - 1 /\ e.fill = q.fill /\ e.buf = q.buf
  BY <1>2, <1>5 DEF Requests
<1>7. /\ Dead(q) \in Requests /\ Alike(Dead(q), q) /\ Dead(q).ka = q.ka
      /\ Dead(q).status = "DEAD"
  BY <1>2, MarkEffect
<1>8. /\ t \in Requests
      /\ t.client = q.client /\ t.logline = q.logline /\ t.data = q.data
      /\ t.post = q.post /\ t.status = "DEAD" /\ t.cgi = q.cgi
      /\ t.left = q.left /\ t.torn
  <2> DEFINE d == Dead(q)
  <2>1. t = [d EXCEPT !.torn = TRUE]
    OBVIOUS
  <2> HIDE DEF d, t
  <2>2. d \in Requests /\ Alike(d, q) /\ d.status = "DEAD"
    BY <1>7 DEF d
  <2> QED
    BY <2>1, <2>2 DEF Requests, Alike
<1> HIDE DEF e, t, r
<1>9. CASE Becomes(f, e, r)
  <2>1. Shape(f, e)
    BY <1>1, <1>2, <1>4, <1>5, <1>6 DEF Shape
  <2>2. Good(f, q, e, r)
    BY <1>1, <1>4, <1>5, <1>6, <2>1 DEF Good, Ended, Whole, r
  <2> QED
    BY <1>0, <1>1, <1>2, <1>9, <1>6, <2>2, GoodLeaves
<1>10. CASE Becomes(f, q, "block")
  <2>1. Good(f, q, q, "block")
    BY <1>2 DEF Good
  <2> QED
    BY <1>0, <1>1, <1>2, <1>10, <2>1, GoodLeaves
<1>11. CASE Gone(q) /\ Becomes(f, Dead(q), "done")
  <2>1. Shape(f, Dead(q))
    BY <1>2, <1>7, ShapeKept
  <2>2. Good(f, q, Dead(q), "done")
    BY <1>7, <1>11, <2>1 DEF Good, Ended, Gone, Alike
  <2> QED
    BY <1>0, <1>1, <1>2, <1>7, <1>11, <2>2, GoodLeaves DEF Alike
<1>12. CASE Becomes(f, t, "done")
  <2>1. Shape(f, t)
    BY <1>2, <1>8 DEF Shape
  <2>2. Good(f, q, t, "done")
    BY <1>8, <2>1 DEF Good, Ended
  <2> QED
    BY <1>0, <1>1, <1>2, <1>8, <1>12, <2>2, GoodLeaves
<1> QED
  BY <1>3, <1>9, <1>10, <1>11, <1>12

(* process_cgi_header: the header goes into the buffer, or an error page.    *)
LEMMA ParsesCgiLeaves ==
    ASSUME NEW f \in FDs, NEW q \in Requests,
           Shape(f, q), q.client = req[f].client,
           q.logline = "none" => req[f].logline = "none",
           q.data = req[f].data, q.post = req[f].post,
           q.status \in {"PIPE_READ", "PIPE_WRITE"},
           Owned(f, req[f]) \subseteq opened, UNCHANGED files,
           ParsesCgi(f, q)
    PROVE  Leaves(f)
<1>1. CASE \E p \in Flushed([q EXCEPT !.fill = FALSE]) : Becomes(f, p, "more")
  <2> DEFINE e == [q EXCEPT !.fill = FALSE]
  <2>1. PICK p \in Flushed(e) : Becomes(f, p, "more")
    BY <1>1
  <2>2. /\ e \in Requests
        /\ e.client = q.client /\ e.logline = q.logline /\ e.data = q.data
        /\ e.post = q.post /\ e.status = q.status /\ e.cgi = q.cgi
        /\ e.left = q.left
    BY DEF Requests
  <2> HIDE DEF e
  <2>3. Shape(f, e)
    BY <2>2 DEF Shape
  <2>4. /\ p \in Requests /\ Alike(p, e) /\ p.ka = e.ka
        /\ p.status \in {e.status, "DEAD"}
    BY <2>2, FlushedEffect
  <2>5. Shape(f, p)
    BY <2>3, <2>4, ShapeKept
  <2>6. Good(f, req[f], p, "more")
    BY <2>2, <2>4, <2>5 DEF Good, Alike
  <2> QED
    BY <2>1, <2>2, <2>4, <2>6, GoodLeaves DEF Alike
<1>2. CASE \E p \in Paged(q) : Becomes(f, p, "done")
  BY <1>2, PageLeaves
<1>3. CASE \E p \in Paged(q) : Becomes(f, [p EXCEPT !.status = "DONE"], "more")
  <2>1. PICK p \in Paged(q) : Becomes(f, [p EXCEPT !.status = "DONE"], "more")
    BY <1>3
  <2> DEFINE e == [p EXCEPT !.status = "DONE"]
  <2>2. p \in Requests /\ Alike(p, q) /\ p.ka = "stopped"
    BY PagedEffect
  <2>3. e \in Requests /\ Alike(e, p) /\ e.ka = p.ka /\ e.status = "DONE"
    BY <2>2 DEF Requests, Statuses, Alike
  <2> HIDE DEF e
  <2>4. Shape(f, e)
    BY <2>2, <2>3 DEF Shape, Alike
  <2>5. Good(f, req[f], e, "more")
    BY <2>2, <2>3, <2>4 DEF Good, Alike
  <2> QED
    BY <2>1, <2>2, <2>3, <2>5, GoodLeaves DEF Alike, e
<1>4. CASE Becomes(f, [q EXCEPT !.fill = TRUE], "more")
  <2> DEFINE e == [q EXCEPT !.fill = TRUE]
  <2>1. /\ e \in Requests
        /\ e.client = q.client /\ e.logline = q.logline /\ e.data = q.data
        /\ e.post = q.post /\ e.status = q.status /\ e.cgi = q.cgi
        /\ e.left = q.left
    BY DEF Requests
  <2> HIDE DEF e
  <2>2. Shape(f, e)
    BY <2>1 DEF Shape
  <2>3. Good(f, req[f], e, "more")
    BY <2>1, <2>2 DEF Good
  <2> QED
    BY <1>4, <2>1, <2>3, GoodLeaves DEF e
<1> QED
  BY <1>1, <1>2, <1>3, <1>4 DEF ParsesCgi

(* read_from_pipe: a buffer, the end, nothing yet, or a failed read.         *)
LEMMA ReadsPipeHandled ==
    ASSUME IInv, NEW f \in FDs, ReadsPipe(f)
    PROVE  Handled(f)
<1> DEFINE q == req[f]
           b == [q EXCEPT !.cgi = "buffer"]
           w == [q EXCEPT !.status = "PIPE_WRITE"]
           n == [q EXCEPT !.fill = TRUE, !.left = @ - 1]
           e == [q EXCEPT !.status = "PIPE_WRITE", !.cgi = "done"]
           t == [Dead(q) EXCEPT !.torn = TRUE]
<1>0. q = req[f]
  OBVIOUS
<1>1. /\ pc = "pass" /\ f \in todo /\ q.status = "PIPE_READ"
      /\ Visits(f, "PIPE_READ") /\ UNCHANGED <<files, got, parsed>>
  BY DEF ReadsPipe, Visits, Same
<1>2. /\ q \in Requests /\ Shape(f, q) /\ Owned(f, q) \subseteq opened
  BY <1>1, VisitFacts
<1>3. \/ ParsesCgi(f, b) \/ Becomes(f, w, "more")
      \/ q.left > 0 /\ Becomes(f, n, "more")
      \/ ~q.fill /\ q.left = 0 /\ (ParsesCgi(f, e) \/ Becomes(f, e, "more"))
      \/ Becomes(f, q, "block") \/ Becomes(f, t, "done")
  BY Zenon DEF ReadsPipe
<1> SUFFICES Leaves(f)
  <2>1. Reads
    BY <1>1, ReadsNothing DEF IInv
  <2> QED
    BY <1>1, <2>1 DEF Visits, Handled
<1> HIDE DEF q
<1>4. /\ b \in Requests
      /\ b.client = q.client /\ b.logline = q.logline /\ b.data = q.data
      /\ b.post = q.post /\ b.status = q.status /\ b.cgi = "buffer"
  BY <1>2 DEF Requests
<1>5. /\ w \in Requests
      /\ w.client = q.client /\ w.logline = q.logline /\ w.data = q.data
      /\ w.post = q.post /\ w.status = "PIPE_WRITE" /\ w.cgi = q.cgi
      /\ w.left = q.left
  BY <1>2 DEF Requests, Statuses
<1>6. /\ e \in Requests
      /\ e.client = q.client /\ e.logline = q.logline /\ e.data = q.data
      /\ e.post = q.post /\ e.status = "PIPE_WRITE" /\ e.left = q.left
  BY <1>2 DEF Requests, Statuses
<1>7. /\ t \in Requests
      /\ t.client = q.client /\ t.logline = q.logline /\ t.data = q.data
      /\ t.post = q.post /\ t.status = "DEAD" /\ t.cgi = q.cgi
      /\ t.left = q.left /\ t.torn
  <2> DEFINE d == Dead(q)
  <2>1. t = [d EXCEPT !.torn = TRUE]
    OBVIOUS
  <2>2. d \in Requests /\ Alike(d, q) /\ d.status = "DEAD"
    BY <1>2, MarkEffect
  <2> HIDE DEF d, t
  <2> QED
    BY <2>1, <2>2 DEF Requests, Alike
<1> HIDE DEF b, w, e, t
<1>8. CASE ParsesCgi(f, b)
  <2>1. Shape(f, b)
    BY <1>1, <1>2, <1>4 DEF Shape
  <2> QED
    BY <1>0, <1>1, <1>2, <1>4, <1>8, <2>1, ParsesCgiLeaves
<1>9. CASE Becomes(f, w, "more")
  <2>1. Shape(f, w)
    BY <1>1, <1>2, <1>5 DEF Shape
  <2>2. Good(f, q, w, "more")
    BY <1>5, <2>1 DEF Good
  <2> QED
    BY <1>0, <1>1, <1>2, <1>5, <1>9, <2>2, GoodLeaves
<1>10. CASE q.left > 0 /\ Becomes(f, n, "more")
  <2>1. q.left \in 0 .. Chunks /\ Chunks \in Nat
    BY <1>2, BoaAssumption DEF Requests
  <2>2. q.left - 1 \in 0 .. Chunks /\ q.left # 0
    BY <1>10, <2>1
  <2>3. /\ n \in Requests
        /\ n.client = q.client /\ n.logline = q.logline /\ n.data = q.data
        /\ n.post = q.post /\ n.status = q.status /\ n.cgi = q.cgi
    BY <1>2, <2>2 DEF Requests
  <2> HIDE DEF n
  <2>4. Shape(f, n)
    BY <1>1, <1>2, <2>2, <2>3 DEF Shape
  <2>5. Good(f, q, n, "more")
    BY <1>1, <2>3, <2>4 DEF Good
  <2> QED
    BY <1>0, <1>1, <1>2, <1>10, <2>3, <2>5, GoodLeaves
<1> HIDE DEF n
<1>11. CASE /\ ~q.fill /\ q.left = 0
            /\ ParsesCgi(f, e) \/ Becomes(f, e, "more")
  <2>1. Shape(f, e)
    BY <1>1, <1>2, <1>6, <1>11 DEF Shape
  <2>2. Good(f, q, e, "more")
    BY <1>6, <2>1 DEF Good
  <2>3. CASE ParsesCgi(f, e)
    BY <1>0, <1>1, <1>2, <1>6, <2>1, <2>3, ParsesCgiLeaves
  <2>4. CASE Becomes(f, e, "more")
    BY <1>0, <1>1, <1>2, <1>6, <2>2, <2>4, GoodLeaves
  <2> QED
    BY <1>11, <2>3, <2>4
<1>12. CASE Becomes(f, q, "block")
  <2>1. Good(f, q, q, "block")
    BY <1>1, <1>2 DEF Good
  <2> QED
    BY <1>0, <1>1, <1>2, <1>12, <2>1, GoodLeaves
<1>13. CASE Becomes(f, t, "done")
  <2>1. Shape(f, t)
    BY <1>2, <1>7 DEF Shape
  <2>2. Good(f, q, t, "done")
    BY <1>7, <2>1 DEF Good, Ended
  <2> QED
    BY <1>0, <1>1, <1>2, <1>7, <1>13, <2>2, GoodLeaves
<1> QED
  BY <1>3, <1>8, <1>9, <1>10, <1>11, <1>12, <1>13

(* write_from_pipe: it is done when the buffer is out and the data ended.    *)
LEMMA WritesPipeHandled ==
    ASSUME IInv, NEW f \in FDs, WritesPipe(f)
    PROVE  Handled(f)
<1> DEFINE q == req[f]
           r == [q EXCEPT !.status = "PIPE_READ"]
           w == [q EXCEPT !.fill = FALSE]
           d == Dead(q)
           t == [Stopped(d) EXCEPT !.buf = TRUE]
<1>0. q = req[f]
  OBVIOUS
<1>1. /\ pc = "pass" /\ f \in todo /\ q.status = "PIPE_WRITE" /\ ~Buffered(q)
      /\ Visits(f, "PIPE_WRITE") /\ UNCHANGED <<files, got, parsed>>
  BY DEF WritesPipe, Visits, Same
<1>2. /\ q \in Requests /\ Shape(f, q) /\ Owned(f, q) \subseteq opened
  BY <1>1, VisitFacts
<1>3. \/ ~q.fill /\ q.cgi = "done" /\ Becomes(f, q, "done")
      \/ Becomes(f, r, "more") \/ Becomes(f, w, "more")
      \/ Becomes(f, q, "block") \/ Becomes(f, t, "done")
  BY Zenon DEF WritesPipe
<1> SUFFICES Leaves(f)
  <2>1. Reads
    BY <1>1, ReadsNothing DEF IInv
  <2> QED
    BY <1>1, <2>1 DEF Visits, Handled
<1> HIDE DEF q
<1>4. /\ r \in Requests
      /\ r.client = q.client /\ r.logline = q.logline /\ r.data = q.data
      /\ r.post = q.post /\ r.status = "PIPE_READ" /\ r.cgi = q.cgi
      /\ r.left = q.left
  BY <1>2 DEF Requests, Statuses
<1>5. /\ w \in Requests
      /\ w.client = q.client /\ w.logline = q.logline /\ w.data = q.data
      /\ w.post = q.post /\ w.status = q.status /\ w.cgi = q.cgi
      /\ w.left = q.left
  BY <1>2 DEF Requests
<1>6. d \in Requests /\ Alike(d, q) /\ d.status = "DEAD"
  BY <1>2, MarkEffect
<1> HIDE DEF d
<1>7. t \in Requests /\ Alike(t, d) /\ t.status = "DEAD" /\ t.ka = "stopped"
  <2> DEFINE s == Stopped(d)
  <2>1. t = [s EXCEPT !.buf = TRUE]
    OBVIOUS
  <2>2. s \in Requests /\ Alike(s, d) /\ s.ka = "stopped"
        /\ s.status = "DEAD"
    BY <1>6, MarkEffect
  <2> HIDE DEF s, t
  <2> QED
    BY <2>1, <2>2 DEF Requests, Alike
<1> HIDE DEF r, w, t
<1>8. CASE ~q.fill /\ q.cgi = "done" /\ Becomes(f, q, "done")
  <2>1. Whole(q)
    BY <1>1, <1>2, <1>8 DEF Whole, Shape, Buffered
  <2>2. Good(f, q, q, "done")
    BY <1>2, <2>1 DEF Good, Ended, Whole
  <2> QED
    BY <1>0, <1>1, <1>2, <1>8, <2>2, GoodLeaves
<1>9. CASE Becomes(f, r, "more")
  <2>1. Shape(f, r)
    BY <1>1, <1>2, <1>4 DEF Shape
  <2>2. Good(f, q, r, "more")
    BY <1>4, <2>1 DEF Good
  <2> QED
    BY <1>0, <1>1, <1>2, <1>4, <1>9, <2>2, GoodLeaves
<1>10. CASE Becomes(f, w, "more")
  <2>1. Shape(f, w)
    BY <1>1, <1>2, <1>5 DEF Shape
  <2>2. Good(f, q, w, "more")
    BY <1>1, <1>5, <2>1 DEF Good
  <2> QED
    BY <1>0, <1>1, <1>2, <1>5, <1>10, <2>2, GoodLeaves
<1>11. CASE Becomes(f, q, "block")
  <2>1. Good(f, q, q, "block")
    BY <1>1, <1>2 DEF Good
  <2> QED
    BY <1>0, <1>1, <1>2, <1>11, <2>1, GoodLeaves
<1>12. CASE Becomes(f, t, "done")
  <2>1. Shape(f, d)
    BY <1>2, <1>6 DEF Shape, Alike
  <2>2. Shape(f, t)
    BY <1>6, <1>7, <2>1 DEF Shape, Alike
  <2>3. Good(f, q, t, "done")
    BY <1>6, <1>7, <2>2 DEF Good, Ended, Alike
  <2> QED
    BY <1>0, <1>1, <1>2, <1>6, <1>7, <1>12, <2>3, GoodLeaves DEF Alike
<1> QED
  BY <1>3, <1>8, <1>9, <1>10, <1>11, <1>12

(* Every handler is one of these steps.                                      *)
LEMMA HandlesHandled ==
    ASSUME IInv, NEW f \in FDs, Handles(f)
    PROVE  Handled(f)
BY FlushesBufferHandled, FinishesAnswerHandled, BuriesHandled,
   ReadsHeaderHandled, ReadsBodyHandled, WritesBodyHandled, GetsHandled,
   ReadsPipeHandled, WritesPipeHandled DEF Handles

-----------------------------------------------------------------------------
(* The inductive invariant, step by step.                                    *)

(* What a handler's step changes, put in one place.                          *)
LEMMA HandledEffect ==
    ASSUME IInv, NEW f \in FDs, Handled(f)
    PROVE  \E s, r :
               /\ Good(f, req[f], s, r) /\ Moves(f, req[f], s)
               /\ req' = [req EXCEPT ![f] = s] /\ result' = r
               /\ term # 0 => s.ka = "stopped"
               /\ \A g \in Live : req'[g] = IF g = f THEN s ELSE req[g]
<1>1. PICK q, r : /\ Good(f, req[f], q, r) /\ Moves(f, req[f], q)
                  /\ Becomes(f, q, r)
  BY DEF Handled, Leaves
<1> DEFINE s == IF term # 0 THEN Stopped(q) ELSE q
<1>2. Good(f, req[f], s, r) /\ Owned(f, s) = Owned(f, q)
  BY <1>1, GoodStopped
<1>3. term # 0 => s.ka = "stopped"
  <2>1. q \in Requests
    BY <1>1 DEF Good
  <2>2. Stopped(q).ka = "stopped"
    BY <2>1, MarkEffect
  <2> QED
    BY <2>2
<1>4. req' = [req EXCEPT ![f] = s] /\ result' = r
  BY <1>1 DEF Becomes
<1> HIDE DEF s
<1>5. Moves(f, req[f], s)
  BY <1>1, <1>2 DEF Moves
<1>6. ASSUME NEW g \in Live
      PROVE  req'[g] = IF g = f THEN s ELSE req[g]
  <2>1. g \in FDs /\ f \in FDs /\ req \in [FDs -> Requests \cup {Nobody}]
    BY LiveType DEF IInv, TypeOK
  <2> QED
    BY <1>4, <2>1
<1> QED
  BY <1>2, <1>3, <1>4, <1>5, <1>6

(* Descriptors stay with one owner each when one request closes some of its  *)
(* own and opens some that were free.                                        *)
LEMMA OwnMoves ==
    ASSUME OwnInv, NEW f \in Live, NEW s, Live' = Live,
           Moves(f, req[f], s), term' = 2 <=> term = 2,
           \A g \in Live : req'[g] = IF g = f THEN s ELSE req[g]
    PROVE  OwnInv'
<1>1. /\ opened' = (opened \ (Owned(f, req[f]) \ leaked')) \cup Owned(f, s)
      /\ Owned(f, s) \subseteq Owned(f, req[f]) \cup (FDs \ opened)
      /\ leaked \subseteq leaked'
      /\ leaked' \subseteq leaked \cup (Owned(f, req[f]) \ Owned(f, s))
  BY DEF Moves
<1>2. \A g \in Live : Owned(g, req'[g]) = IF g = f THEN Owned(f, s)
                                                   ELSE Owned(g, req[g])
  OBVIOUS
<1>3. /\ \A x \in opened : \/ x = server_s /\ term # 2
                           \/ x \in leaked
                           \/ \E g \in Live : x \in Owned(g, req[g])
      /\ term # 2 => server_s \in opened /\ server_s \notin leaked
      /\ leaked \subseteq opened
      /\ \A g \in Live : /\ Owned(g, req[g]) \subseteq opened
                         /\ Owned(g, req[g]) \cap leaked = {}
                         /\ term # 2 => server_s \notin Owned(g, req[g])
      /\ \A g, h \in Live :
             g # h => Owned(g, req[g]) \cap Owned(h, req[h]) = {}
  BY DEF OwnInv
<1>4. ASSUME NEW x \in opened'
      PROVE  \/ x = server_s /\ term # 2
             \/ x \in leaked'
             \/ \E g \in Live : x \in Owned(g, req'[g])
  <2>1. CASE x \in Owned(f, s)
    BY <1>2, <2>1
  <2>2. CASE x \in opened /\ x \notin Owned(f, req[f])
    BY <1>1, <1>2, <1>3, <2>2
  <2> QED
    BY <1>1, <2>1, <2>2
<1>5. /\ term # 2 => server_s \in opened' /\ server_s \notin leaked'
      /\ leaked' \subseteq opened'
  BY <1>1, <1>3
<1>6. ASSUME NEW g \in Live
      PROVE  /\ Owned(g, req'[g]) \subseteq opened'
             /\ Owned(g, req'[g]) \cap leaked' = {}
             /\ term # 2 => server_s \notin Owned(g, req'[g])
  <2>1. CASE g = f
    BY <1>1, <1>2, <1>3, <2>1
  <2>2. CASE g # f
    BY <1>1, <1>2, <1>3, <2>2
  <2> QED
    BY <2>1, <2>2
<1>7. ASSUME NEW g \in Live, NEW h \in Live, g # h
      PROVE  Owned(g, req'[g]) \cap Owned(h, req'[h]) = {}
  <2>1. CASE g = f
    BY <1>1, <1>2, <1>3, <1>7, <2>1
  <2>2. CASE h = f
    BY <1>1, <1>2, <1>3, <1>7, <2>2
  <2>3. CASE g # f /\ h # f
    BY <1>2, <1>3, <1>7, <2>3
  <2> QED
    BY <2>1, <2>2, <2>3
<1> QED
  BY <1>4, <1>5, <1>6, <1>7 DEF OwnInv

(* The handlers preserve the invariant.                                      *)
LEMMA HandledStep ==
    ASSUME IInv, NEW f \in FDs, Handled(f)
    PROVE  IInv'
<1>1. PICK s, r :
          /\ Good(f, req[f], s, r) /\ Moves(f, req[f], s)
          /\ req' = [req EXCEPT ![f] = s] /\ result' = r
          /\ term # 0 => s.ka = "stopped"
          /\ \A g \in Live : req'[g] = IF g = f THEN s ELSE req[g]
  BY HandledEffect
<1>2. /\ pc = "pass" /\ pc' = "poll" /\ f \in todo /\ todo' = todo \ {f}
      /\ current' = f /\ max_fd' = max_fd /\ ready' = ready /\ block' = block
      /\ total' = total /\ watched' = watched /\ pending' = pending
      /\ term' = term /\ hup' = hup /\ limits' = limits
      /\ script' = script /\ phase' = phase /\ sent' = sent /\ gone' = gone
      /\ Reads
  BY DEF Handled, queues, signals, client
<1>3. f \in Live /\ f \in ready /\ f \notin block /\ Live' = Live
  BY <1>2 DEF IInv, TypeOK, TotalCounts, Live
<1>4. /\ s \in Requests /\ s.client = req[f].client /\ Shape(f, s)
      /\ r \in {"block", "done", "more"} /\ (r = "done" => Ended(s))
      /\ (s.status = "WRITE" /\ s.left = 0 => r = "done")
  BY <1>1 DEF Good
<1>5. req' \in [FDs -> Requests \cup {Nobody}] /\ s # Nobody
  BY <1>1, <1>4, BoaAssumption DEF IInv, TypeOK
<1>6. /\ opened' = (opened \ (Owned(f, req[f]) \ leaked')) \cup Owned(f, s)
      /\ Owned(f, s) \subseteq Owned(f, req[f]) \cup (FDs \ opened)
      /\ leaked' \subseteq leaked \cup Owned(f, req[f])
  BY <1>1 DEF Moves
<1>7. TypeOK'
  <2>1. opened' \subseteq FDs /\ leaked' \subseteq FDs
    <3>1. /\ Owned(f, req[f]) \subseteq opened /\ opened \subseteq FDs
          /\ leaked \subseteq FDs
      BY <1>3 DEF IInv, OwnInv, TypeOK
    <3> QED
      BY <1>6, <3>1
  <2> QED
    BY <1>1, <1>2, <1>4, <1>5, <2>1 DEF IInv, TypeOK, Reads
<1>8. TotalCounts'
  <2>1. {g \in FDs : req'[g] # Nobody} = {g \in FDs : req[g] # Nobody}
    <3>1. req[f] # Nobody
      BY <1>3 DEF IInv, TotalCounts, Live
    <3> QED
      BY <1>1, <1>5, <3>1 DEF IInv, TypeOK
  <2> QED
    BY <1>2, <2>1 DEF IInv, TotalCounts
<1>9. OwnInv'
  BY <1>1, <1>2, <1>3, OwnMoves DEF IInv
<1>10. ShapeInv'
  BY <1>1, <1>3, <1>4 DEF IInv, ShapeInv
<1>11. ClientInv'
  BY <1>1, <1>2, <1>3, <1>4 DEF IInv, ClientInv
<1>12. ScriptInv'
  BY <1>2 DEF IInv, ScriptInv
<1>13. WriteInv'
  BY <1>1, <1>2, <1>3, <1>4 DEF IInv, WriteInv, AtSwitch
<1>14. CurrentInv'
  <2>1. req'[f] = s
    BY <1>1, <1>3
  <2>2. r = "done" => \/ s.ka # "active"
                      \/ /\ ~s.buf \/ s.status = "DEAD"
                         /\ Whole(s) \/ gone[s.client] \/ s.torn
    BY <1>4 DEF Ended, Gone
  <2> QED
    BY <1>1, <1>2, <1>3, <2>1, <2>2 DEF CurrentInv, Ended, Gone, Whole
<1>15. WatchInv'
  BY <1>1, <1>2, <1>3 DEF IInv, WatchInv, Live
<1> QED
  BY <1>7, <1>8, <1>9, <1>10, <1>11, <1>12, <1>13, <1>14, <1>15
  DEF IInv

(* The owners do not change when requests are only marked, moved between     *)
(* the queues or aged; the server socket may go.                             *)
LEMMA Retouched ==
    ASSUME TypeOK, TotalCounts, OwnInv, ShapeInv, ClientInv,
           Live' = Live, ready' \cap block' = {}, total' = total,
           req' \in [FDs -> Requests \cup {Nobody}],
           \A f \in FDs : req[f] = Nobody => req'[f] = Nobody,
           \A f \in Live : /\ req'[f] \in Requests
                           /\ Alike(req'[f], req[f]) /\ Shape(f, req'[f]),
           \/ opened' = opened /\ (term' = 2 <=> term = 2)
           \/ opened' = opened \ {server_s} /\ term # 2 /\ term' = 2,
           leaked' = leaked,
           \A c \in Clients : phase[c] = "open" => phase'[c] = "open"
    PROVE  TotalCounts' /\ OwnInv' /\ ShapeInv' /\ ClientInv'
<1>1. TotalCounts'
  <2>1. \A f \in Live : req'[f] # Nobody
    BY BoaAssumption
  <2>2. Live = {f \in FDs : req[f] # Nobody}
    BY DEF TotalCounts, Live
  <2>3. {f \in FDs : req'[f] # Nobody} = Live
    BY <2>1, <2>2
  <2> QED
    BY <2>3 DEF TotalCounts, Live
<1>2. OwnInv'
  <2>1. \A f \in Live : Owned(f, req'[f]) = Owned(f, req[f])
    BY DEF Owned, Alike
  <2>2. /\ \A x \in opened : \/ x = server_s /\ term # 2
                             \/ x \in leaked
                             \/ \E g \in Live : x \in Owned(g, req[g])
        /\ term # 2 => server_s \in opened /\ server_s \notin leaked
        /\ leaked \subseteq opened
        /\ \A g \in Live : /\ Owned(g, req[g]) \subseteq opened
                           /\ Owned(g, req[g]) \cap leaked = {}
                           /\ term # 2 => server_s \notin Owned(g, req[g])
        /\ \A g, h \in Live :
               g # h => Owned(g, req[g]) \cap Owned(h, req[h]) = {}
    BY DEF OwnInv
  <2>3. ASSUME NEW x \in opened'
        PROVE  \/ x = server_s /\ term' # 2
               \/ x \in leaked
               \/ \E g \in Live : x \in Owned(g, req'[g])
    BY <2>1, <2>2
  <2>4. /\ term' # 2 => server_s \in opened' /\ server_s \notin leaked
        /\ leaked \subseteq opened'
    BY <2>2
  <2>5. ASSUME NEW g \in Live
        PROVE  /\ Owned(g, req'[g]) \subseteq opened'
               /\ Owned(g, req'[g]) \cap leaked = {}
               /\ term' # 2 => server_s \notin Owned(g, req'[g])
    BY <2>1, <2>2
  <2>6. ASSUME NEW g \in Live, NEW h \in Live, g # h
        PROVE  Owned(g, req'[g]) \cap Owned(h, req'[h]) = {}
    BY <2>1, <2>2, <2>6
  <2> QED
    BY <2>3, <2>4, <2>5, <2>6 DEF OwnInv
<1>3. ShapeInv'
  BY DEF ShapeInv
<1>4. ClientInv'
  <2>1. \A f \in Live : req'[f].client = req[f].client
                        /\ req[f].client \in Clients
    BY LiveType DEF Alike
  <2> QED
    BY <2>1 DEF ClientInv
<1> QED
  BY <1>1, <1>2, <1>3, <1>4

(* A request that is only older, or younger.                                 *)
LEMMA AgeEffect ==
    ASSUME NEW f, NEW q \in Requests, NEW a \in 0 .. 2, Shape(f, q)
    PROVE  /\ [q EXCEPT !.age = a] \in Requests
           /\ Alike([q EXCEPT !.age = a], q)
           /\ [q EXCEPT !.age = a].ka = q.ka
           /\ [q EXCEPT !.age = a].status = q.status
           /\ Shape(f, [q EXCEPT !.age = a])
           /\ Watch(f, [q EXCEPT !.age = a]) = Watch(f, q)
<1> DEFINE e == [q EXCEPT !.age = a]
<1>1. e \in Requests
  BY DEF Requests
<1>2. Alike(e, q) /\ e.ka = q.ka /\ e.status = q.status /\ e.buf = q.buf
  BY DEF Alike, Requests
<1> HIDE DEF e
<1>3. Shape(f, e)
  BY <1>2, ShapeKept
<1>4. Watch(f, e) = Watch(f, q)
  BY <1>2 DEF Watch, Alike
<1> QED
  BY <1>1, <1>2, <1>3, <1>4 DEF e

(* What a blocked request waits for is a descriptor.                         *)
LEMMA BlockWatched ==
    ASSUME TypeOK, TotalCounts, ShapeInv, NEW f \in Live
    PROVE  Watch(f, req[f]) \in {"r", "w"} \X FDs
<1>1. f \in FDs /\ req[f] \in Requests /\ Shape(f, req[f])
  BY LiveType DEF ShapeInv
<1> QED
  BY <1>1, WatchType

-----------------------------------------------------------------------------
(* Clients, signals and time.                                                *)

(* Nobody's request changes when a client acts or a signal comes.            *)
LEMMA OutsideStep ==
    ASSUME IInv, UNCHANGED <<queues, req, files, todo, current, result,
                             max_fd, got, parsed, script, limits>>,
           pc \in {"pass", "select"}, pc' \in {pc, "top"},
           pending' \in BOOLEAN, hup' \in 0 .. 2,
           term' \in 0 .. 2, term' = 2 <=> term = 2,
           phase' \in [Clients -> {"new", "backlog", "open", "closed"}],
           gone' \in [Clients -> BOOLEAN], sent' \in [Clients -> Nat],
           \A c \in Clients :
               /\ phase[c] = "open" => phase'[c] = "open"
               /\ phase[c] = "closed" => phase'[c] = "closed"
               /\ sent[c] <= sent'[c],
           \A c \in DOMAIN script : sent'[c] <= Len(script[c])
    PROVE  IInv'
<1>1. /\ ready' = ready /\ block' = block /\ total' = total
      /\ watched' = watched /\ req' = req /\ opened' = opened
      /\ todo' = todo /\ current' = current /\ result' = result
      /\ max_fd' = max_fd /\ got' = got /\ parsed' = parsed
      /\ script' = script /\ limits' = limits
      /\ leaked' = leaked /\ Live' = Live
  BY DEF queues, files, Live
<1>2. TypeOK'
  <2>1. /\ got \in [Clients -> Nat] /\ sent \in [Clients -> Nat]
        /\ \A c \in Clients : parsed[c] <= got[c] /\ got[c] <= sent[c]
    BY DEF IInv, TypeOK
  <2>2. \A c \in Clients : got[c] <= sent'[c]
    <3>1. ASSUME NEW c \in Clients
          PROVE  got[c] <= sent'[c]
      <4>1. /\ got[c] \in Nat /\ sent[c] \in Nat /\ sent'[c] \in Nat
            /\ got[c] <= sent[c] /\ sent[c] <= sent'[c]
        BY <2>1
      <4> QED
        BY <4>1
    <3> QED
      BY <3>1
  <2>3. pc' \in {"top", "accept", "pass", "poll", "switch", "select", "exited"}
    OBVIOUS
  <2> QED
    BY <1>1, <2>1, <2>2, <2>3 DEF IInv, TypeOK
<1>3. TotalCounts' /\ OwnInv' /\ ShapeInv' /\ ClientInv'
  <2>1. \A f \in Live : req[f] \in Requests /\ Alike(req[f], req[f])
                        /\ Shape(f, req[f])
    BY LiveType DEF IInv, ShapeInv, Alike
  <2>2. req \in [FDs -> Requests \cup {Nobody}] /\ ready \cap block = {}
    BY DEF IInv, TypeOK, TotalCounts
  <2> QED
    BY <1>1, <2>1, <2>2, Retouched DEF IInv
<1>4. ScriptInv'
  BY <1>1 DEF IInv, ScriptInv
<1>5. WriteInv' /\ CurrentInv'
  BY <1>1 DEF IInv, WriteInv, CurrentInv, AtSwitch
<1>6. WatchInv'
  BY <1>1 DEF IInv, WatchInv
<1> QED
  BY <1>2, <1>3, <1>4, <1>5, <1>6 DEF IInv

(* A client connects, sends a piece or hangs up.                             *)
LEMMA ClientStep ==
    ASSUME IInv, NEW c \in Clients, Connects(c) \/ Sends(c) \/ HangsUp(c)
    PROVE  IInv'
<1>1. /\ phase \in [Clients -> {"new", "backlog", "open", "closed"}]
      /\ gone \in [Clients -> BOOLEAN] /\ sent \in [Clients -> Nat]
      /\ \A d \in DOMAIN script : sent[d] <= Len(script[d])
      /\ DOMAIN script \subseteq Clients
      /\ pending \in BOOLEAN /\ hup \in 0 .. 2 /\ term \in 0 .. 2
  BY BoaAssumption DEF IInv, TypeOK, ScriptInv
<1>2. \A d \in Clients : sent[d] <= sent[d]
  BY <1>1
<1>3. CASE Connects(c)
  BY <1>1, <1>2, <1>3, OutsideStep
  DEF Connects, Observed, loop, queues, signals
<1>4. CASE Sends(c)
  <2>1. sent' = [sent EXCEPT ![c] = @ + 1] /\ sent[c] < Len(script[c])
        /\ c \in DOMAIN script
    BY <1>4 DEF Sends, IInv, ScriptInv
  <2>2. sent' \in [Clients -> Nat] /\ \A d \in Clients : sent[d] <= sent'[d]
    BY <1>1, <2>1
  <2>3. sent'[c] <= Len(script[c])
    <3> DEFINE m == Len(script[c])
    <3>1. m \in Nat /\ sent[c] < m /\ sent[c] \in Nat /\ sent'[c] = sent[c] + 1
      <4>1. script[c] \in Seq(Pieces)
        BY <2>1, BoaAssumption DEF IInv, TypeOK
      <4> QED
        BY <1>1, <2>1, <4>1
    <3> HIDE DEF m
    <3>2. sent'[c] <= m
      BY <3>1
    <3> QED
      BY <3>2 DEF m
  <2>4. \A d \in DOMAIN script : sent'[d] <= Len(script[d])
    BY <1>1, <2>1, <2>3
  <2> QED
    BY <1>1, <1>4, <2>2, <2>4, OutsideStep
    DEF Sends, Observed, loop, queues, signals
<1>5. CASE HangsUp(c)
  BY <1>1, <1>2, <1>5, OutsideStep
  DEF HangsUp, Observed, loop, queues, signals
<1> QED
  BY <1>3, <1>4, <1>5

(* A signal sets a flag.                                                     *)
LEMMA SignalStep ==
    ASSUME IInv, Signal
    PROVE  IInv'
<1>1. /\ phase \in [Clients -> {"new", "backlog", "open", "closed"}]
      /\ gone \in [Clients -> BOOLEAN] /\ sent \in [Clients -> Nat]
      /\ \A d \in DOMAIN script : sent[d] <= Len(script[d])
      /\ pending \in BOOLEAN /\ hup \in 0 .. 2 /\ term \in 0 .. 2
  BY DEF IInv, TypeOK, ScriptInv
<1>2. \A d \in Clients : sent[d] <= sent[d]
  BY <1>1
<1>3. /\ pc \in {"pass", "select"} /\ pc' \in {pc, "top"}
      /\ term' \in 0 .. 2 /\ hup' \in 0 .. 2 /\ (term' = 2 <=> term = 2)
  BY <1>1 DEF Signal, Observed
<1>4. UNCHANGED <<limits, todo, current, result, max_fd, queues, req,
                  pending, files, client, got, parsed>>
  BY DEF Signal
<1> QED
  BY <1>1, <1>2, <1>3, <1>4, OutsideStep DEF queues, client

(* A blocked request gets older.                                             *)
LEMMA TimePassesStep ==
    ASSUME IInv, NEW f \in FDs, TimePasses(f)
    PROVE  IInv'
<1> DEFINE q == req[f]
           a == q.age + 1
           e == [q EXCEPT !.age = a]
<1>1. /\ pc = "select" /\ f \in block /\ q.age < 2
      /\ req' = [req EXCEPT ![f].age = @ + 1]
      /\ UNCHANGED <<loop, queues, pending, signals, files, client, got,
                     parsed>>
  BY DEF TimePasses
<1>2. /\ pc' = pc /\ ready' = ready /\ block' = block /\ total' = total
      /\ watched' = watched /\ opened' = opened /\ todo' = todo
      /\ current' = current /\ result' = result /\ max_fd' = max_fd
      /\ got' = got /\ parsed' = parsed /\ script' = script
      /\ phase' = phase /\ sent' = sent /\ gone' = gone /\ term' = term
      /\ hup' = hup /\ limits' = limits
      /\ pending' = pending /\ leaked' = leaked /\ Live' = Live
  BY <1>1 DEF loop, queues, signals, files, client, Live
<1>3. f \in Live /\ q \in Requests /\ Shape(f, q)
  BY <1>1, LiveType DEF IInv, ShapeInv, Live
<1>4. req' = [req EXCEPT ![f] = e]
  BY <1>1
<1> HIDE DEF q
<1>5. a \in 0 .. 2
  <2>1. q.age \in 0 .. 2
    BY <1>3 DEF Requests
  <2> QED
    BY <1>1, <2>1
<1> HIDE DEF a
<1>6. /\ e \in Requests /\ Alike(e, q) /\ e.status = q.status
      /\ Shape(f, e) /\ Watch(f, e) = Watch(f, q)
  BY <1>3, <1>5, AgeEffect
<1> HIDE DEF e
<1>7. req \in [FDs -> Requests \cup {Nobody}] /\ ready \cap block = {}
  BY DEF IInv, TypeOK, TotalCounts
<1>8. req' \in [FDs -> Requests \cup {Nobody}]
  BY <1>4, <1>6, <1>7
<1>9. ASSUME NEW g \in Live
      PROVE  /\ req'[g] \in Requests /\ Alike(req'[g], req[g])
             /\ Shape(g, req'[g]) /\ req'[g].status = req[g].status
             /\ Watch(g, req'[g]) = Watch(g, req[g])
  <2>1. g \in FDs /\ req[g] \in Requests /\ Shape(g, req[g])
    BY LiveType DEF IInv, ShapeInv
  <2>2. CASE g = f
    BY <1>4, <1>6, <1>7, <2>1, <2>2 DEF q
  <2>3. CASE g # f
    BY <1>4, <1>7, <2>1, <2>3 DEF Alike
  <2> QED
    BY <2>2, <2>3
<1>10. \A g \in FDs : req[g] = Nobody => req'[g] = Nobody
  BY <1>3, <1>4, <1>7, BoaAssumption DEF q
<1>11. TypeOK'
  BY <1>2, <1>8 DEF IInv, TypeOK
<1>12. TotalCounts' /\ OwnInv' /\ ShapeInv' /\ ClientInv'
  BY <1>2, <1>7, <1>8, <1>9, <1>10, Retouched DEF IInv
<1>13. ScriptInv'
  BY <1>2 DEF IInv, ScriptInv
<1>14. WriteInv' /\ CurrentInv'
  BY <1>1, <1>2, <1>9 DEF IInv, WriteInv, CurrentInv, AtSwitch, Alike
<1>15. WatchInv'
  <2>1. \A g \in block : Watch(g, req'[g]) \in watched
    BY <1>1, <1>9 DEF IInv, WatchInv, Live
  <2> QED
    BY <1>2, <2>1 DEF WatchInv
<1> QED
  BY <1>11, <1>12, <1>13, <1>14, <1>15 DEF IInv

(* The requests stay as they are while select is entered and left.           *)
LEMMA SelectStep ==
    ASSUME IInv, EntersSelect \/ SelectReturns
    PROVE  IInv'
<1>1. /\ todo' = todo /\ current' = current /\ result' = result
      /\ ready' = ready /\ block' = block /\ req' = req /\ total' = total
      /\ opened' = opened /\ got' = got /\ parsed' = parsed
      /\ script' = script /\ phase' = phase /\ sent' = sent /\ gone' = gone
      /\ term' = term /\ hup' = hup /\ limits' = limits
      /\ leaked' = leaked /\ Live' = Live
      /\ pc \in {"pass", "select"} /\ pc' \in {"select", "top"}
  BY DEF EntersSelect, SelectReturns, signals, files, client, Live
<1>2. \A f \in Live : Watch(f, req[f]) \in {"r", "w"} \X FDs
  BY BlockWatched DEF IInv
<1>3. /\ watched' \subseteq {"r", "w"} \X FDs /\ pending' \in BOOLEAN
      /\ max_fd' \in FDs \cup {0}
      /\ pc' = "select" => watched \subseteq watched'
  <2>1. watched \subseteq {"r", "w"} \X FDs /\ pending \in BOOLEAN
        /\ max_fd \in FDs \cup {0}
    BY DEF IInv, TypeOK
  <2>2. CASE EntersSelect
    <3> DEFINE server == IF term = 0 /\ total + Slack < max_connections
                         THEN {<<"r", server_s>>} ELSE {}
               put == {Watch(f, req[f]) : f \in block} \cup server
               T == {w[2] : w \in put} \cup {0}
               m == CHOOSE n \in T : \A w \in put : w[2] <= n
    <3>1. watched' = watched \cup server /\ max_fd' = m /\ pending' = pending
      BY <2>2 DEF EntersSelect
    <3>2. server \subseteq {"r", "w"} \X FDs
      BY Counts
    <3> HIDE DEF server
    <3>3. put \subseteq {"r", "w"} \X FDs
      BY <1>2, <3>2 DEF Live
    <3> HIDE DEF put
    <3>4. T \subseteq FDs \cup {0}
      BY <3>3
    <3> DEFINE b == OpenMax
    <3>5. b \in Nat /\ FDs = 1 .. b
      BY BoaAssumption DEF FDs
    <3> HIDE DEF b
    <3>6. T \subseteq 0 .. b /\ T # {}
      BY <3>4, <3>5
    <3>7. \E n \in T : \A t \in T : t <= n
      BY <3>5, <3>6, GreatestElement
    <3>8. \E n \in T : \A w \in put : w[2] <= n
      BY <3>7
    <3>9. m \in T
      BY <3>8
    <3> QED
      BY <2>1, <3>1, <3>2, <3>4, <3>9
  <2>3. CASE SelectReturns
    <3>1. watched' \subseteq watched
      BY <2>3 DEF SelectReturns, Selected
    <3>2. pending' \in BOOLEAN /\ max_fd' = max_fd /\ pc' = "top"
      BY <2>1, <2>3 DEF SelectReturns
    <3> QED
      BY <2>1, <3>1, <3>2
  <2> QED
    BY <2>2, <2>3
<1>4. TypeOK'
  BY <1>1, <1>3 DEF IInv, TypeOK
<1>5. TotalCounts' /\ OwnInv' /\ ShapeInv' /\ ClientInv'
  <2>1. \A f \in Live : req[f] \in Requests /\ Alike(req[f], req[f])
                        /\ Shape(f, req[f])
    BY LiveType DEF IInv, ShapeInv, Alike
  <2>2. req \in [FDs -> Requests \cup {Nobody}] /\ ready \cap block = {}
    BY DEF IInv, TypeOK, TotalCounts
  <2> QED
    BY <1>1, <2>1, <2>2, Retouched DEF IInv
<1>6. ScriptInv'
  BY <1>1 DEF IInv, ScriptInv
<1>7. WriteInv' /\ CurrentInv'
  BY <1>1 DEF IInv, WriteInv, CurrentInv, AtSwitch
<1>8. WatchInv'
  BY <1>1, <1>3 DEF IInv, WatchInv
<1> QED
  BY <1>4, <1>5, <1>6, <1>7, <1>8 DEF IInv

(* A request that timed out is dead; the others are as they were.            *)
LEMMA UpdatedEffect ==
    ASSUME TypeOK, TotalCounts, ShapeInv, NEW f \in Live
    PROVE  /\ Updated(f) \in Requests /\ Alike(Updated(f), req[f])
           /\ Updated(f).status \in {req[f].status, "DEAD"}
           /\ Shape(f, Updated(f))
           /\ Watch(f, Updated(f)) \in {"r", "w"} \X FDs
<1> DEFINE q == req[f]
<1>1. f \in FDs /\ q \in Requests /\ Shape(f, q)
  BY LiveType DEF ShapeInv
<1>2. Updated(f) \in {q, Dead(q)}
  BY DEF Updated
<1> HIDE DEF q
<1>3. /\ Dead(q) \in Requests /\ Alike(Dead(q), q) /\ Dead(q).ka = q.ka
      /\ Dead(q).status = "DEAD"
  BY <1>1, MarkEffect
<1>4. Shape(f, Dead(q))
  BY <1>1, <1>3, ShapeKept
<1>5. Alike(q, q)
  BY DEF Alike
<1>6. /\ Updated(f) \in Requests /\ Alike(Updated(f), q)
      /\ Updated(f).status \in {q.status, "DEAD"} /\ Shape(f, Updated(f))
  BY <1>1, <1>2, <1>3, <1>4, <1>5
<1>7. Watch(f, Updated(f)) \in {"r", "w"} \X FDs
  BY <1>1, <1>6, WatchType
<1> QED
  BY <1>6, <1>7 DEF q

(* The top of the loop: signals are served, and the sets are brought up to   *)
(* date from whatever SIGHUP left of them.                                   *)
LEMMA TopStep ==
    ASSUME IInv, Top
    PROVE  IInv'
<1> DEFINE sets  == IF hup = 1 THEN {}
                    ELSE watched \ (IF term = 1 THEN {<<"r", server_s>>}
                                    ELSE {})
           woken == {f \in block : \/ Updated(f).status = "DEAD"
                                   \/ Watch(f, Updated(f)) \in sets}
<1>1. /\ pc = "top" /\ hup' = (IF hup = 1 THEN 2 ELSE hup)
      /\ term' = (IF term = 1 THEN 2 ELSE term)
      /\ opened' = (IF term = 1 THEN opened \ {server_s} ELSE opened)
      /\ max_fd' = 0
      /\ UNCHANGED <<limits, todo, current, result, total, pending,
                     leaked, client, got, parsed>>
  BY DEF Top
<1>2. \/ /\ ready \cup block = {} /\ pc' = "exited" /\ watched' = sets
         /\ UNCHANGED <<ready, block, req>>
      \/ /\ pc' = "accept"
         /\ req' = [f \in FDs |-> IF f \in block THEN Updated(f) ELSE req[f]]
         /\ ready' = ready \cup woken /\ block' = block \ woken
         /\ watched' = (sets \ {Watch(f, Updated(f)) : f \in woken})
                           \cup {Watch(f, Updated(f)) : f \in block \ woken}
  BY DEF Top
<1>3. /\ script' = script /\ phase' = phase /\ sent' = sent /\ gone' = gone
      /\ todo' = todo /\ current' = current /\ result' = result
      /\ total' = total /\ pending' = pending /\ got' = got
      /\ parsed' = parsed /\ limits' = limits
      /\ leaked' = leaked
  BY <1>1 DEF client
<1>4. /\ term \in 0 .. 2 /\ hup \in 0 .. 2
      /\ req \in [FDs -> Requests \cup {Nobody}] /\ ready \cap block = {}
      /\ watched \subseteq {"r", "w"} \X FDs
      /\ ready \subseteq FDs /\ block \subseteq FDs
  BY DEF IInv, TypeOK, TotalCounts
<1>5. sets \subseteq {"r", "w"} \X FDs /\ woken \subseteq block
  BY <1>4
<1> HIDE DEF sets, woken
<1>6. \A f \in block :
          /\ f \in Live /\ f \in FDs
          /\ Updated(f) \in Requests /\ Alike(Updated(f), req[f])
          /\ Updated(f).status \in {req[f].status, "DEAD"}
          /\ Shape(f, Updated(f))
          /\ Watch(f, Updated(f)) \in {"r", "w"} \X FDs
  BY <1>4, UpdatedEffect DEF IInv, Live
<1>7. Live' = Live /\ ready' \cap block' = {} /\ ready \subseteq ready'
      /\ ready' \subseteq FDs /\ block' \subseteq FDs
  BY <1>2, <1>4, <1>5 DEF Live
<1>8. ASSUME NEW f \in Live
      PROVE  /\ req'[f] \in Requests /\ Alike(req'[f], req[f])
             /\ req'[f].status \in {req[f].status, "DEAD"}
             /\ Shape(f, req'[f])
  <2>1. f \in FDs /\ req[f] \in Requests /\ Shape(f, req[f])
        /\ Alike(req[f], req[f])
    BY LiveType DEF IInv, ShapeInv, Alike
  <2>2. CASE req' = req
    BY <2>1, <2>2
  <2>3. CASE req' = [g \in FDs |-> IF g \in block THEN Updated(g) ELSE req[g]]
    BY <1>6, <2>1, <2>3
  <2> QED
    BY <1>2, <2>2, <2>3
<1>9. req' \in [FDs -> Requests \cup {Nobody}]
      /\ \A f \in FDs : req[f] = Nobody => req'[f] = Nobody
  <2>1. CASE req' = req
    BY <1>4, <2>1
  <2>2. CASE req' = [g \in FDs |-> IF g \in block THEN Updated(g) ELSE req[g]]
    <3>1. ASSUME NEW g \in FDs
          PROVE  /\ req'[g] \in Requests \cup {Nobody}
                 /\ req[g] = Nobody => req'[g] = Nobody
      <4>1. CASE g \in block
        <5>1. req[g] \in Requests
          BY <1>6, <4>1, LiveType DEF IInv
        <5> QED
          BY <1>6, <2>2, <4>1, <5>1, BoaAssumption
      <4>2. CASE g \notin block
        BY <1>4, <2>2, <4>2
      <4> QED
        BY <4>1, <4>2
    <3> QED
      BY <2>2, <3>1
  <2> QED
    BY <1>2, <2>1, <2>2
<1>10. TypeOK'
  <2>1. watched' \subseteq {"r", "w"} \X FDs
    BY <1>2, <1>5, <1>6
  <2>2. term' \in 0 .. 2 /\ hup' \in 0 .. 2 /\ max_fd' \in FDs \cup {0}
    BY <1>1, <1>4
  <2>3. opened' \subseteq FDs /\ todo' \subseteq ready'
    BY <1>1, <1>3, <1>7 DEF IInv, TypeOK
  <2>4. pc' \in {"accept", "exited"}
    BY <1>2
  <2> QED
    BY <1>3, <1>7, <1>9, <2>1, <2>2, <2>3, <2>4 DEF IInv, TypeOK
<1>11. TotalCounts' /\ OwnInv' /\ ShapeInv' /\ ClientInv'
  <2>1. \/ opened' = opened /\ (term' = 2 <=> term = 2)
        \/ opened' = opened \ {server_s} /\ term # 2 /\ term' = 2
    BY <1>1, <1>4
  <2> QED
    BY <1>3, <1>7, <1>8, <1>9, <2>1, Retouched DEF IInv
<1>12. ScriptInv'
  BY <1>3 DEF IInv, ScriptInv
<1>13. WriteInv' /\ CurrentInv'
  BY <1>1, <1>2, <1>7, <1>8 DEF IInv, WriteInv, CurrentInv, AtSwitch, Alike
<1>14. WatchInv'
  <2>1. CASE /\ pc' = "accept"
             /\ req' = [f \in FDs |-> IF f \in block THEN Updated(f)
                                                      ELSE req[f]]
             /\ block' = block \ woken
             /\ watched' = (sets \ {Watch(f, Updated(f)) : f \in woken})
                              \cup {Watch(f, Updated(f)) : f \in block \ woken}
    <3>1. \A f \in block' : Watch(f, req'[f]) \in watched'
      BY <1>6, <2>1
    <3> QED
      BY <3>1 DEF WatchInv
  <2>2. CASE ready \cup block = {} /\ block' = block
    BY <2>2 DEF WatchInv
  <2> QED
    BY <1>2, <2>1, <2>2
<1> QED
  BY <1>10, <1>11, <1>12, <1>13, <1>14 DEF IInv

-----------------------------------------------------------------------------
(* get_request.                                                              *)

(* A connection that has just been accepted has its socket and nothing more, *)
(* also when it is over the limit and only gets an error page.               *)
LEMMA AcceptedEffect ==
    ASSUME IInv, NEW c \in Clients, GetRequest(c)
    PROVE  \E e \in Requests :
               /\ req' = [req EXCEPT ![Lowest] = e]
               /\ e.client = c /\ e.data = 0 /\ e.post = 0
               /\ e.status # "WRITE" /\ Shape(Lowest, e)
<1> DEFINE q == Fresh(c, KaMax)
<1>1. Lowest \in FDs /\ Lowest # 0
  BY LowestIsFree DEF GetRequest
<1>2. q \in Requests
  BY BoaAssumption DEF Fresh, Requests, Statuses
<1>3. /\ q.client = c /\ q.data = 0 /\ q.post = 0 /\ q.left = 0 /\ ~q.fill
      /\ q.cgi = "buffer" /\ q.status = "READ_HEADER" /\ q.ka = "inactive"
  BY DEF Fresh
<1> HIDE DEF q
<1>4. CASE req' = [req EXCEPT ![Lowest] = q]
  <2>1. Shape(Lowest, q)
    BY <1>1, <1>3 DEF Shape
  <2> QED
    BY <1>2, <1>3, <1>4, <2>1
<1>5. CASE \E p \in Paged(q) :
               req' = [req EXCEPT ![Lowest] = [p EXCEPT !.status = "DONE"]]
  <2>1. PICK p \in Paged(q) :
            req' = [req EXCEPT ![Lowest] = [p EXCEPT !.status = "DONE"]]
    BY <1>5
  <2> DEFINE e == [p EXCEPT !.status = "DONE"]
  <2>2. p \in Requests /\ Alike(p, q) /\ p.ka = "stopped"
    BY <1>2, PagedEffect
  <2>3. e \in Requests /\ Alike(e, p) /\ e.ka = p.ka /\ e.status = "DONE"
    BY <2>2 DEF Requests, Statuses, Alike
  <2>4. req' = [req EXCEPT ![Lowest] = e]
    BY <2>1
  <2> HIDE DEF e
  <2>5. Shape(Lowest, e)
    BY <1>1, <1>3, <2>2, <2>3 DEF Shape, Alike
  <2> QED
    BY <1>3, <2>2, <2>3, <2>4, <2>5 DEF Alike
<1> QED
  BY <1>4, <1>5 DEF GetRequest, q

(* Accepting a connection disturbs no other.                                 *)
LEMMA GetRequestEffect ==
    ASSUME IInv, NEW c \in Clients, GetRequest(c),
           block' = block, term' = term, script' = script, sent' = sent,
           leaked' = leaked
    PROVE  /\ term # 2
           /\ ready' \subseteq FDs /\ ready \subseteq ready'
           /\ opened' \subseteq FDs /\ total' \in Nat
           /\ req' \in [FDs -> Requests \cup {Nobody}]
           /\ pending' \in BOOLEAN
           /\ phase' \in [Clients -> {"new", "backlog", "open", "closed"}]
           /\ \A f \in Live : req'[f] = req[f]
           /\ \A f \in Live' : f \in Live \/ req'[f].status # "WRITE"
           /\ TotalCounts' /\ OwnInv' /\ ShapeInv' /\ ClientInv' /\ ScriptInv'
<1> DEFINE L == Lowest
<1>1. L \in FDs /\ L \notin opened /\ L # 0
  BY LowestIsFree DEF GetRequest
<1>2. /\ term # 2 /\ phase[c] = "backlog"
      /\ phase' = [phase EXCEPT ![c] = "open"]
      /\ opened' = opened \cup {L} /\ total' = total + 1
      /\ ready' = ready \cup {L} /\ pending' \in BOOLEAN
  BY DEF GetRequest, IInv, TypeOK
<1>3. PICK e \in Requests :
          /\ req' = [req EXCEPT ![L] = e]
          /\ e.client = c /\ e.data = 0 /\ e.post = 0
          /\ e.status # "WRITE" /\ Shape(L, e)
  BY AcceptedEffect
<1> HIDE DEF L
<1>4. /\ req \in [FDs -> Requests \cup {Nobody}] /\ total \in Nat
      /\ phase \in [Clients -> {"new", "backlog", "open", "closed"}]
      /\ ready \subseteq FDs /\ block \subseteq FDs /\ opened \subseteq FDs
      /\ ready \cap block = {} /\ total = Cardinality(Live)
      /\ Live = {f \in FDs : req[f] # Nobody}
  BY DEF IInv, TypeOK, TotalCounts, Live
<1>5. L \notin Live
  <2>1. ASSUME L \in Live
        PROVE  FALSE
    <3>1. L \in Owned(L, req[L])
      BY <1>1 DEF Owned
    <3> QED
      BY <1>1, <2>1, <3>1 DEF IInv, OwnInv
  <2> QED
    BY <2>1
<1>6. Live' = Live \cup {L} /\ req'[L] = e
      /\ \A f \in Live : req'[f] = req[f] /\ f # L
  BY <1>1, <1>2, <1>3, <1>4, <1>5 DEF Live
<1>7. TotalCounts'
  <2>1. IsFiniteSet(Live)
    BY <1>4, Counts, FS_Subset
  <2>2. Cardinality(Live \cup {L}) = Cardinality(Live) + 1
    BY <1>5, <2>1, FS_AddElement
  <2>3. {f \in FDs : req'[f] # Nobody} = Live \cup {L}
    BY <1>1, <1>3, <1>4, BoaAssumption
  <2>4. ready' \cap block' = {}
    BY <1>2, <1>4, <1>5 DEF Live
  <2> QED
    BY <1>2, <1>4, <1>6, <2>2, <2>3, <2>4 DEF TotalCounts, Live
<1>8. OwnInv'
  <2>1. Owned(L, req'[L]) = {L}
    BY <1>1, <1>3, <1>6 DEF Owned
  <2>2. \A f \in Live : Owned(f, req'[f]) = Owned(f, req[f])
    BY <1>6
  <2>3. /\ \A x \in opened : \/ x = server_s /\ term # 2
                             \/ x \in leaked
                             \/ \E g \in Live : x \in Owned(g, req[g])
        /\ term # 2 => server_s \in opened /\ server_s \notin leaked
        /\ leaked \subseteq opened
        /\ \A g \in Live : /\ Owned(g, req[g]) \subseteq opened
                           /\ Owned(g, req[g]) \cap leaked = {}
                           /\ term # 2 => server_s \notin Owned(g, req[g])
        /\ \A g, h \in Live :
               g # h => Owned(g, req[g]) \cap Owned(h, req[h]) = {}
    BY DEF IInv, OwnInv
  <2>4. ASSUME NEW x \in opened'
        PROVE  \/ x = server_s /\ term # 2
               \/ x \in leaked
               \/ \E g \in Live' : x \in Owned(g, req'[g])
    BY <1>2, <1>6, <2>1, <2>2, <2>3
  <2>5. ASSUME NEW g \in Live'
        PROVE  /\ Owned(g, req'[g]) \subseteq opened'
               /\ Owned(g, req'[g]) \cap leaked = {}
               /\ term # 2 => server_s \notin Owned(g, req'[g])
    BY <1>1, <1>2, <1>6, <2>1, <2>2, <2>3
  <2>6. ASSUME NEW g \in Live', NEW h \in Live', g # h
        PROVE  Owned(g, req'[g]) \cap Owned(h, req'[h]) = {}
    <3>1. CASE g = L
      BY <1>1, <1>6, <2>1, <2>2, <2>3, <2>6, <3>1
    <3>2. CASE h = L
      BY <1>1, <1>6, <2>1, <2>2, <2>3, <2>6, <3>2
    <3>3. CASE g \in Live /\ h \in Live
      BY <2>2, <2>3, <2>6, <3>3
    <3> QED
      BY <1>6, <3>1, <3>2, <3>3
  <2> QED
    BY <1>2, <2>3, <2>4, <2>5, <2>6 DEF OwnInv
<1>9. ShapeInv'
  BY <1>3, <1>6 DEF IInv, ShapeInv
<1>10. ClientInv'
  <2>1. \A f \in Live : phase[req[f].client] = "open"
                        /\ req[f].client \in Clients /\ req[f].client # c
    BY <1>2, LiveType DEF IInv, ClientInv
  <2>2. phase'[c] = "open"
        /\ \A d \in Clients : phase[d] = "open" => phase'[d] = "open"
    BY <1>2, <1>4
  <2> QED
    BY <1>3, <1>6, <2>1, <2>2 DEF IInv, ClientInv
<1>11. ScriptInv'
  BY <1>2, <1>4 DEF IInv, ScriptInv
<1>12. req' \in [FDs -> Requests \cup {Nobody}]
       /\ phase' \in [Clients -> {"new", "backlog", "open", "closed"}]
  BY <1>2, <1>3, <1>4
<1>13. \A f \in Live' : f \in Live \/ req'[f].status # "WRITE"
  BY <1>3, <1>6
<1> QED
  BY <1>1, <1>2, <1>4, <1>6, <1>7, <1>8, <1>9, <1>10, <1>11, <1>12, <1>13

(* get_request, whether a connection comes, none does, or none was due.      *)
LEMMA PollEffect ==
    ASSUME IInv, PollServer
    PROVE  /\ ready' \subseteq FDs /\ ready \subseteq ready'
           /\ opened' \subseteq FDs /\ total' \in Nat
           /\ req' \in [FDs -> Requests \cup {Nobody}]
           /\ pending' \in BOOLEAN
           /\ phase' \in [Clients -> {"new", "backlog", "open", "closed"}]
           /\ \A f \in Live : req'[f] = req[f]
           /\ \A f \in Live' : f \in Live \/ req'[f].status # "WRITE"
           /\ term = 2 => Live' = Live
           /\ TotalCounts' /\ OwnInv' /\ ShapeInv' /\ ClientInv' /\ ScriptInv'
<1>1. /\ block' = block /\ term' = term /\ script' = script /\ sent' = sent
      /\ leaked' = leaked
  BY DEF PollServer, signals
<1>2. CASE \E c \in Clients : GetRequest(c)
  BY <1>1, <1>2, GetRequestEffect
<1>3. CASE UNCHANGED <<phase, opened, total, ready, req>> /\ pending' \in BOOLEAN
  <2>1. /\ phase' = phase /\ opened' = opened /\ total' = total
        /\ ready' = ready /\ req' = req /\ Live' = Live
    BY <1>1, <1>3 DEF Live
  <2>2. \A f \in Live : req[f] \in Requests /\ Alike(req[f], req[f])
                        /\ Shape(f, req[f])
    BY LiveType DEF IInv, ShapeInv, Alike
  <2>3. req \in [FDs -> Requests \cup {Nobody}] /\ ready \cap block = {}
    BY DEF IInv, TypeOK, TotalCounts
  <2>4. TotalCounts' /\ OwnInv' /\ ShapeInv' /\ ClientInv'
    BY <1>1, <2>1, <2>2, <2>3, Retouched DEF IInv
  <2>5. ScriptInv'
    BY <1>1, <2>1 DEF IInv, ScriptInv
  <2> QED
    BY <1>3, <2>1, <2>4, <2>5 DEF IInv, TypeOK
<1>4. pending \in BOOLEAN
  BY DEF IInv, TypeOK
<1> QED
  BY <1>2, <1>3, <1>4 DEF PollServer, NoRequest

(* The pass begins, and after each handler the server socket is polled.      *)
LEMMA PollStep ==
    ASSUME IInv, BeginsPass \/ PollsAgain
    PROVE  IInv'
<1>1. /\ PollServer
      /\ \/ pc = "accept" /\ pc' = "pass" /\ todo' = ready'
         \/ pc = "poll" /\ pc' = "switch" /\ todo' = todo
  BY DEF BeginsPass, PollsAgain
<1>2. /\ current' = current /\ result' = result /\ max_fd' = max_fd
      /\ block' = block /\ watched' = watched /\ term' = term /\ hup' = hup
      /\ limits' = limits /\ script' = script
      /\ sent' = sent /\ gone' = gone /\ got' = got /\ parsed' = parsed
      /\ leaked' = leaked
  BY <1>1 DEF PollServer, signals
<1>3. /\ ready' \subseteq FDs /\ ready \subseteq ready'
      /\ opened' \subseteq FDs /\ total' \in Nat
      /\ req' \in [FDs -> Requests \cup {Nobody}]
      /\ pending' \in BOOLEAN
      /\ phase' \in [Clients -> {"new", "backlog", "open", "closed"}]
      /\ \A f \in Live : req'[f] = req[f]
      /\ \A f \in Live' : f \in Live \/ req'[f].status # "WRITE"
      /\ TotalCounts' /\ OwnInv' /\ ShapeInv' /\ ClientInv' /\ ScriptInv'
  BY <1>1, PollEffect
<1>4. TypeOK'
  <2>1. todo' \subseteq ready'
    BY <1>1, <1>3 DEF IInv, TypeOK
  <2>2. pc' \in {"pass", "switch"}
    BY <1>1
  <2> QED
    BY <1>2, <1>3, <2>1, <2>2 DEF IInv, TypeOK
<1>5. WriteInv'
  BY <1>1, <1>2, <1>3 DEF IInv, WriteInv, AtSwitch
<1>6. CurrentInv'
  <2>1. CASE pc' = "pass"
    BY <2>1 DEF CurrentInv, AtSwitch
  <2>2. CASE pc = "poll" /\ pc' = "switch" /\ todo' = todo
    <3>1. /\ current \in ready \ todo
          /\ term # 0 => req[current].ka = "stopped"
          /\ result = "done" => Ended(req[current])
      BY <2>2 DEF IInv, CurrentInv, AtSwitch
    <3>2. req'[current] = req[current]
      BY <1>3, <3>1 DEF Live
    <3> QED
      BY <1>2, <1>3, <2>2, <3>1, <3>2 DEF CurrentInv, Ended, Gone, Whole
  <2> QED
    BY <1>1, <2>1, <2>2
<1>7. WatchInv'
  <2>1. \A f \in block : Watch(f, req[f]) \in watched
    BY <1>1 DEF IInv, WatchInv
  <2>2. \A f \in block : req'[f] = req[f]
    BY <1>3 DEF Live
  <2> QED
    BY <1>2, <2>1, <2>2 DEF WatchInv
<1> QED
  BY <1>3, <1>4, <1>5, <1>6, <1>7 DEF IInv

-----------------------------------------------------------------------------
(* free_request and the other ends of a visit.                               *)

(* A visit that ends changes its own request and what is said of it.         *)
LEMMA SettledStep ==
    ASSUME IInv, Settles,
           ready' \subseteq FDs, todo \subseteq ready', block' \subseteq FDs,
           opened' \subseteq FDs, total' \in Nat,
           req' \in [FDs -> Requests \cup {Nobody}],
           phase' \in [Clients -> {"new", "backlog", "open", "closed"}],
           watched \subseteq watched', watched' \subseteq {"r", "w"} \X FDs,
           \A c \in Clients : phase[c] = "closed" => phase'[c] = "closed",
           \A g \in Live' : /\ g \in Live
                            /\ g # current => req'[g] = req[g],
           current \in Live' => \/ req'[current].status # "WRITE"
                                \/ req'[current].left # 0,
           \A g \in block' : \/ g \in block /\ g # current
                             \/ Watch(g, req'[g]) \in watched',
           TotalCounts', OwnInv', ShapeInv', ClientInv'
    PROVE  IInv'
<1>1. /\ pc = "switch" /\ pc' = "pass" /\ current' = server_s
      /\ result' = "more" /\ todo' = todo /\ max_fd' = max_fd
      /\ pending' = pending /\ term' = term /\ hup' = hup
      /\ limits' = limits /\ script' = script
      /\ sent' = sent /\ gone' = gone /\ got' = got /\ parsed' = parsed
      /\ leaked' = leaked
  BY DEF Settles, signals
<1>2. TypeOK'
  BY <1>1, Counts DEF IInv, TypeOK
<1>3. ScriptInv'
  BY <1>1 DEF IInv, ScriptInv
<1>4. WriteInv'
  <2>1. \A g \in Live : g # current => req[g].status # "WRITE"
                                       \/ req[g].left # 0
    BY DEF IInv, WriteInv
  <2> QED
    BY <2>1 DEF WriteInv
<1>5. CurrentInv'
  BY <1>1 DEF CurrentInv, AtSwitch
<1>6. WatchInv'
  <2>1. \A g \in block : Watch(g, req[g]) \in watched
    BY <1>1 DEF IInv, WatchInv
  <2>2. ASSUME NEW g \in block'
        PROVE  Watch(g, req'[g]) \in watched'
    <3>1. CASE g \in block /\ g # current
      <4>1. req'[g] = req[g]
        BY <3>1 DEF Live
      <4> QED
        BY <2>1, <3>1, <4>1
    <3> QED
      BY <3>1
  <2> QED
    BY <2>2 DEF WatchInv
<1> QED
  BY <1>2, <1>3, <1>4, <1>5, <1>6 DEF IInv

(* What is known of the request whose visit ends.                            *)
LEMMA SettlesFacts ==
    ASSUME IInv, pc = "switch"
    PROVE  /\ current \in ready /\ current \notin todo /\ current \in Live
           /\ current \in FDs /\ current # 0 /\ current \notin block
           /\ req[current] \in Requests /\ Shape(current, req[current])
           /\ req[current].client \in Clients
           /\ result = "done" => Ended(req[current])
           /\ term # 0 => req[current].ka = "stopped"
           /\ \/ result = "done" \/ req[current].status # "WRITE"
              \/ req[current].left # 0
           /\ req \in [FDs -> Requests \cup {Nobody}]
           /\ todo \subseteq ready /\ ready \cap block = {}
           /\ ready \subseteq FDs /\ block \subseteq FDs
           /\ opened \subseteq FDs /\ total \in Nat
           /\ phase \in [Clients -> {"new", "backlog", "open", "closed"}]
           /\ watched \subseteq {"r", "w"} \X FDs
<1>1. /\ current \in ready \ todo
      /\ term # 0 => req[current].ka = "stopped"
      /\ result = "done" => Ended(req[current])
  BY DEF IInv, CurrentInv, AtSwitch
<1>2. current \in Live
  BY <1>1 DEF Live
<1>3. /\ current \in FDs /\ current # 0 /\ req[current] \in Requests
      /\ req[current].client \in Clients /\ Shape(current, req[current])
  BY <1>2, LiveType DEF IInv, ShapeInv
<1>4. \/ result = "done" \/ req[current].status # "WRITE"
      \/ req[current].left # 0
  BY <1>2 DEF IInv, WriteInv
<1>5. ready \cap block = {}
  BY DEF IInv, TotalCounts
<1> QED
  BY <1>1, <1>2, <1>3, <1>4, <1>5 DEF IInv, TypeOK

(* The requests whose visit does not end with a kept or closed connection.   *)
LEMMA SettledAlike ==
    ASSUME IInv, pc = "switch", NEW s \in Requests,
           Alike(s, req[current]), Shape(current, s),
           Live' = Live, ready' \cap block' = {}, total' = total,
           opened' = opened, leaked' = leaked, term' = term, phase' = phase,
           req' = [req EXCEPT ![current] = s]
    PROVE  /\ req' \in [FDs -> Requests \cup {Nobody}]
           /\ TotalCounts' /\ OwnInv' /\ ShapeInv' /\ ClientInv'
<1>1. /\ current \in Live /\ current \in FDs /\ req[current] \in Requests
      /\ req \in [FDs -> Requests \cup {Nobody}]
  BY SettlesFacts
<1>2. req' \in [FDs -> Requests \cup {Nobody}]
  BY <1>1
<1>3. ASSUME NEW g \in Live
      PROVE  /\ req'[g] \in Requests /\ Alike(req'[g], req[g])
             /\ Shape(g, req'[g])
  <2>1. g \in FDs /\ req[g] \in Requests /\ Shape(g, req[g])
        /\ Alike(req[g], req[g])
    BY LiveType DEF IInv, ShapeInv, Alike
  <2> QED
    BY <1>1, <2>1
<1>4. \A g \in FDs : req[g] = Nobody => req'[g] = Nobody
  BY <1>1, BoaAssumption
<1> QED
  BY <1>2, <1>3, <1>4, Retouched DEF IInv

(* "block": the request waits for its descriptor.                            *)
LEMMA BlocksStep ==
    ASSUME IInv, Settles, result = "block"
    PROVE  IInv'
<1> DEFINE f == current
           q == req[f]
<1>1. /\ pc = "switch" /\ ready' = ready \ {f} /\ block' = block \cup {f}
      /\ watched' = watched \cup {Watch(f, q)} /\ req' = req
      /\ opened' = opened /\ phase' = phase /\ total' = total
      /\ term' = term /\ leaked' = leaked
  BY DEF Settles, signals
<1>2. /\ f \in ready /\ f \notin todo /\ f \in Live /\ f \in FDs
      /\ q \in Requests /\ Shape(f, q) /\ ready \cap block = {}
      /\ req \in [FDs -> Requests \cup {Nobody}] /\ todo \subseteq ready
      /\ q.status # "WRITE" \/ q.left # 0
  BY <1>1, SettlesFacts
<1>3. Live' = Live /\ ready' \cap block' = {}
  BY <1>1, <1>2 DEF Live
<1>4. req' = [req EXCEPT ![f] = q] /\ Alike(q, q)
  BY <1>1, <1>2 DEF Alike
<1>5. TotalCounts' /\ OwnInv' /\ ShapeInv' /\ ClientInv'
  BY <1>1, <1>2, <1>3, <1>4, SettledAlike
<1>6. watched' \subseteq {"r", "w"} \X FDs
  BY <1>1, <1>2, SettlesFacts, WatchType
<1> QED
  BY <1>1, <1>2, <1>3, <1>5, <1>6, SettlesFacts, SettledStep

(* "more": the request stays ready, its age starts anew.                     *)
LEMMA StaysStep ==
    ASSUME IInv, Settles, result = "more"
    PROVE  IInv'
<1> DEFINE f == current
           q == req[f]
           z == 0
           e == [q EXCEPT !.age = z]
<1>1. /\ pc = "switch" /\ ready' = ready /\ block' = block
      /\ watched' = watched /\ req' = [req EXCEPT ![f].age = 0]
      /\ opened' = opened /\ phase' = phase /\ total' = total
      /\ term' = term /\ leaked' = leaked /\ Live' = Live
  BY DEF Settles, signals, queues, Live
<1>2. req' = [req EXCEPT ![f] = e]
  BY <1>1
<1>3. /\ f \in ready /\ f \notin todo /\ f \in Live /\ f \in FDs
      /\ q \in Requests /\ Shape(f, q) /\ ready \cap block = {}
      /\ req \in [FDs -> Requests \cup {Nobody}] /\ todo \subseteq ready
      /\ q.status # "WRITE" \/ q.left # 0
      /\ f \notin block
  BY <1>1, SettlesFacts
<1>4. /\ e \in Requests /\ Alike(e, q) /\ Shape(f, e)
      /\ e.status = q.status /\ e.left = q.left
  <2>1. z \in 0 .. 2
    OBVIOUS
  <2> HIDE DEF q, z
  <2>2. e \in Requests /\ Alike(e, q) /\ Shape(f, e) /\ e.status = q.status
    BY <1>3, <2>1, AgeEffect
  <2> HIDE DEF e
  <2> QED
    BY <2>2 DEF Alike
<1> HIDE DEF e
<1>5. /\ req' \in [FDs -> Requests \cup {Nobody}]
      /\ TotalCounts' /\ OwnInv' /\ ShapeInv' /\ ClientInv'
  BY <1>1, <1>2, <1>3, <1>4, SettledAlike
<1>6. \A g \in Live : g # f => req'[g] = req[g]
  BY <1>2, <1>3, LiveType DEF IInv
<1>7. req'[f] = e
  BY <1>2, <1>3
<1> QED
  BY <1>1, <1>3, <1>4, <1>5, <1>6, <1>7, SettlesFacts, SettledStep

(* "done", but the buffer is not out: the request stays, to flush it.        *)
LEMMA LingersStep ==
    ASSUME IInv, Settles, result = "done",
           req[current].buf, req[current].status # "DEAD"
    PROVE  IInv'
<1> DEFINE f == current
           q == req[f]
           e == [q EXCEPT !.status = "DONE", !.age = 0]
<1>0. q = req[f] /\ 0 \in 0 .. 2
  OBVIOUS
<1>1. /\ pc = "switch" /\ FreeRequest(f, q) /\ term' = term
      /\ leaked' = leaked
  BY DEF Settles, signals
<1>2. /\ ready' = ready /\ block' = block /\ total' = total
      /\ watched' = watched /\ req' = [req EXCEPT ![f] = e]
      /\ opened' = opened /\ phase' = phase /\ Live' = Live
  BY <1>1 DEF FreeRequest, queues, Live
<1>3. /\ f \in ready /\ f \notin todo /\ f \in Live /\ f \in FDs
      /\ q \in Requests /\ Shape(f, q) /\ ready \cap block = {}
      /\ req \in [FDs -> Requests \cup {Nobody}] /\ todo \subseteq ready
      /\ Ended(q) /\ f \notin block
  BY <1>1, SettlesFacts
<1>4. q.ka # "active"
  BY <1>3 DEF Ended
<1>5. e \in Requests /\ Alike(e, q) /\ Shape(f, e) /\ e.status = "DONE"
  <2> HIDE DEF q
  <2>1. e \in Requests /\ Alike(e, q) /\ e.ka = q.ka /\ e.status = "DONE"
    <3>1. \A s \in Statuses, i \in 0 .. 2 :
              [q EXCEPT !.status = s, !.age = i] \in Requests
      BY <1>3 DEF Requests
    <3>2. e \in Requests
      <4>1. "DONE" \in Statuses
        BY Zenon DEF Statuses
      <4> QED
        BY Zenon, <1>0, <3>1, <4>1
    <3> QED
      BY <1>3, <3>2 DEF Requests, Alike
  <2> HIDE DEF e
  <2>2. Shape(f, e)
    BY <1>3, <1>4, <2>1 DEF Shape, Alike
  <2> QED
    BY <2>1, <2>2
<1> HIDE DEF e
<1>6. /\ req' \in [FDs -> Requests \cup {Nobody}]
      /\ TotalCounts' /\ OwnInv' /\ ShapeInv' /\ ClientInv'
  BY <1>1, <1>2, <1>3, <1>5, SettledAlike
<1>7. \A g \in Live : g # f => req'[g] = req[g]
  BY <1>2, <1>3, LiveType DEF IInv
<1>8. req'[f] = e
  BY <1>2, <1>3
<1> QED
  BY <1>1, <1>2, <1>3, <1>5, <1>6, <1>7, <1>8, SettlesFacts, SettledStep

(* "done", and the connection is kept for a next request: its file and pipe  *)
(* are closed, its socket is not.                                            *)
LEMMA KeepsStep ==
    ASSUME IInv, Settles, result = "done",
           ~(req[current].buf /\ req[current].status # "DEAD"),
           KeepsConnection(req[current])
    PROVE  IInv'
<1> DEFINE f == current
           q == req[f]
           e == Fresh(q.client, q.kacount - 1)
<1>0. q = req[f]
  OBVIOUS
<1>1. /\ pc = "switch" /\ FreeRequest(f, q) /\ term' = term
      /\ leaked' = leaked
  BY DEF Settles, signals
<1>2. /\ ready' = ready \ {f} /\ block' = block \cup {f} /\ total' = total
      /\ watched' = watched \cup {<<"r", f>>} /\ req' = [req EXCEPT ![f] = e]
      /\ opened' = opened \ (Owned(f, q) \ {f}) /\ phase' = phase
  BY <1>1 DEF FreeRequest
<1>3. /\ f \in ready /\ f \notin todo /\ f \in Live /\ f \in FDs /\ f # 0
      /\ q \in Requests /\ q.client \in Clients /\ ready \cap block = {}
      /\ req \in [FDs -> Requests \cup {Nobody}] /\ todo \subseteq ready
      /\ f \notin block /\ watched \subseteq {"r", "w"} \X FDs
  BY <1>1, SettlesFacts
<1>4. Live' = Live /\ ready' \cap block' = {}
  BY <1>2, <1>3 DEF Live
<1>5. q.kacount - 1 \in 0 .. KaMax
  <2> HIDE DEF q
  <2>1. q.kacount \in 0 .. KaMax /\ KaMax \in Nat
    BY <1>3, BoaAssumption DEF Requests
  <2>2. q.kacount > 0
    BY <1>0 DEF KeepsConnection
  <2> QED
    BY <2>1, <2>2
<1>6. /\ e \in Requests /\ e.client = q.client /\ e.data = 0 /\ e.post = 0
      /\ e.status = "READ_HEADER" /\ ~e.buf /\ Shape(f, e)
  <2> DEFINE c == q.client
             k == q.kacount - 1
  <2>1. c \in Clients /\ k \in 0 .. KaMax
    BY <1>3, <1>5
  <2> HIDE DEF c, k
  <2>2. Fresh(c, k) \in Requests
    BY <2>1, BoaAssumption DEF Fresh, Requests, Statuses
  <2>3. /\ Fresh(c, k).client = c /\ Fresh(c, k).data = 0
        /\ Fresh(c, k).post = 0 /\ Fresh(c, k).status = "READ_HEADER"
        /\ ~Fresh(c, k).buf /\ Shape(f, Fresh(c, k))
    BY <1>3 DEF Fresh, Shape
  <2> QED
    BY <2>2, <2>3 DEF c, k
<1> HIDE DEF e
<1>7. \A g \in Live : req'[g] = IF g = f THEN e ELSE req[g]
  BY <1>2, <1>3, LiveType DEF IInv
<1>8. req' \in [FDs -> Requests \cup {Nobody}]
  BY <1>2, <1>3, <1>6
<1>9. TotalCounts'
  <2>1. {g \in FDs : req'[g] # Nobody} = {g \in FDs : req[g] # Nobody}
    BY <1>2, <1>3, <1>6, BoaAssumption
  <2> QED
    BY <1>2, <1>4, <2>1 DEF IInv, TotalCounts, Live
<1>10. OwnInv'
  <2>1. Owned(f, e) = {f}
    BY <1>3, <1>6 DEF Owned
  <2>2. /\ f \in Owned(f, q) /\ Owned(f, q) \subseteq opened
        /\ Owned(f, q) \cap leaked = {}
    BY <1>3 DEF Owned, IInv, OwnInv
  <2>3. Moves(f, req[f], e)
    BY <1>1, <1>2, <2>1, <2>2 DEF Moves
  <2> QED
    BY <1>1, <1>3, <1>4, <1>7, <2>3, OwnMoves DEF IInv
<1>11. ShapeInv'
  BY <1>3, <1>4, <1>6, <1>7 DEF IInv, ShapeInv
<1>12. ClientInv'
  BY <1>2, <1>3, <1>4, <1>6, <1>7 DEF IInv, ClientInv
<1>13. req'[f] = e /\ Watch(f, e) = <<"r", f>>
  BY <1>3, <1>6, <1>7 DEF Watch
<1>14. watched' \subseteq {"r", "w"} \X FDs
  BY <1>2, <1>3
<1> QED
  BY <1>1, <1>2, <1>3, <1>4, <1>6, <1>7, <1>8, <1>9, <1>10, <1>11, <1>12,
     <1>13, <1>14, SettlesFacts, SettledStep

(* "done", and the connection is closed with all that belongs to it.         *)
LEMMA ClosesStep ==
    ASSUME IInv, Settles, result = "done",
           ~(req[current].buf /\ req[current].status # "DEAD"),
           ~KeepsConnection(req[current])
    PROVE  IInv'
<1> DEFINE f == current
           q == req[f]
           c == q.client
<1>1. /\ pc = "switch" /\ FreeRequest(f, q) /\ term' = term
      /\ leaked' = leaked
  BY DEF Settles, signals
<1>2. /\ ready' = ready \ {f} /\ block' = block /\ total' = total - 1
      /\ watched' = watched /\ req' = [req EXCEPT ![f] = Nobody]
      /\ opened' = opened \ Owned(f, q)
      /\ phase' = [phase EXCEPT ![c] = "closed"]
  BY <1>1 DEF FreeRequest
<1>3. /\ f \in ready /\ f \notin todo /\ f \in Live /\ f \in FDs /\ f # 0
      /\ q \in Requests /\ c \in Clients /\ ready \cap block = {}
      /\ req \in [FDs -> Requests \cup {Nobody}] /\ todo \subseteq ready
      /\ f \notin block /\ watched \subseteq {"r", "w"} \X FDs
      /\ ready \subseteq FDs /\ block \subseteq FDs /\ opened \subseteq FDs
      /\ phase \in [Clients -> {"new", "backlog", "open", "closed"}]
  BY <1>1, SettlesFacts
<1>4. Live' = Live \ {f}
  BY <1>2, <1>3 DEF Live
<1>5. \A g \in Live' : g # f /\ g \in Live /\ req'[g] = req[g]
  BY <1>2, <1>3, <1>4, LiveType DEF IInv
<1>6. req' \in [FDs -> Requests \cup {Nobody}]
      /\ phase' \in [Clients -> {"new", "backlog", "open", "closed"}]
      /\ \A d \in Clients : d # c => phase'[d] = phase[d]
      /\ phase'[c] = "closed"
  BY <1>2, <1>3
<1>7. TotalCounts' /\ total' \in Nat
  <2>1. total = Cardinality(Live) /\ Live = {g \in FDs : req[g] # Nobody}
        /\ Live \subseteq FDs
    BY DEF IInv, TotalCounts, Live
  <2>2. IsFiniteSet(Live)
    BY <2>1, Counts, FS_Subset
  <2>3. Cardinality(Live \ {f}) = Cardinality(Live) - 1
        /\ IsFiniteSet(Live \ {f})
    BY <1>3, <2>2, FS_RemoveElement
  <2>4. Cardinality(Live \ {f}) \in Nat
    BY <2>3, FS_CardinalityType
  <2>5. {g \in FDs : req'[g] # Nobody} = Live \ {f}
    BY <1>2, <1>3, <2>1
  <2>6. ready' \cap block' = {}
    BY <1>2, <1>3
  <2> QED
    BY <1>2, <1>4, <2>1, <2>3, <2>4, <2>5, <2>6 DEF TotalCounts, Live
<1>8. OwnInv'
  <2>1. /\ \A x \in opened : \/ x = server_s /\ term # 2
                             \/ x \in leaked
                             \/ \E g \in Live : x \in Owned(g, req[g])
        /\ term # 2 => server_s \in opened /\ server_s \notin leaked
        /\ leaked \subseteq opened
        /\ \A g \in Live : /\ Owned(g, req[g]) \subseteq opened
                           /\ Owned(g, req[g]) \cap leaked = {}
                           /\ term # 2 => server_s \notin Owned(g, req[g])
        /\ \A g, h \in Live :
               g # h => Owned(g, req[g]) \cap Owned(h, req[h]) = {}
    BY DEF IInv, OwnInv
  <2>2. ASSUME NEW x \in opened'
        PROVE  \/ x = server_s /\ term # 2
               \/ x \in leaked
               \/ \E g \in Live' : x \in Owned(g, req'[g])
    <3>1. x \in opened /\ x \notin Owned(f, q)
      BY <1>2
    <3>2. CASE \E g \in Live : x \in Owned(g, req[g])
      <4>1. PICK g \in Live : x \in Owned(g, req[g])
        BY <3>2
      <4>2. g # f
        BY <3>1, <4>1
      <4> QED
        BY <1>4, <1>5, <4>1, <4>2
    <3> QED
      BY <2>1, <3>1, <3>2
  <2>3. /\ term # 2 => server_s \in opened' /\ server_s \notin leaked
        /\ leaked \subseteq opened'
    BY <1>2, <1>3, <2>1
  <2>4. ASSUME NEW g \in Live'
        PROVE  /\ Owned(g, req'[g]) \subseteq opened'
               /\ Owned(g, req'[g]) \cap leaked = {}
               /\ term # 2 => server_s \notin Owned(g, req'[g])
    BY <1>2, <1>3, <1>5, <2>1
  <2>5. ASSUME NEW g \in Live', NEW h \in Live', g # h
        PROVE  Owned(g, req'[g]) \cap Owned(h, req'[h]) = {}
    BY <1>5, <2>1, <2>5
  <2> QED
    BY <1>1, <2>2, <2>3, <2>4, <2>5 DEF OwnInv
<1>9. ShapeInv'
  BY <1>5 DEF IInv, ShapeInv
<1>10. ClientInv'
  <2>1. \A g \in Live : g # f => req[g].client # c /\ req[g].client \in Clients
                                 /\ phase[req[g].client] = "open"
    BY <1>3, LiveType DEF IInv, ClientInv
  <2> QED
    BY <1>5, <1>6, <2>1 DEF IInv, ClientInv
<1>11. f \notin Live' /\ opened' \subseteq FDs
  BY <1>2, <1>3, <1>4
<1> QED
  BY <1>1, <1>2, <1>3, <1>5, <1>6, <1>7, <1>8, <1>9, <1>10, <1>11,
     SettledStep DEF Live

(* The end of a visit preserves the invariant.                               *)
LEMMA SettlesStep ==
    ASSUME IInv, Settles
    PROVE  IInv'
<1>1. result \in {"block", "more", "done"}
  BY DEF Settles
<1> QED
  BY <1>1, BlocksStep, StaysStep, LingersStep, KeepsStep, ClosesStep

-----------------------------------------------------------------------------
(* The initial state, and the theorems.                                      *)

(* The server starts with its socket and no request.                         *)
LEMMA InitInv == Init => IInv
<1> SUFFICES ASSUME Init
             PROVE  IInv
  OBVIOUS
<1>1. /\ pc = "top" /\ todo = {} /\ current = server_s /\ result = "more"
      /\ ready = {} /\ block = {} /\ watched = {} /\ max_fd = 0
      /\ req = [f \in FDs |-> Nobody]
      /\ total = 0 /\ pending = FALSE /\ term = 0 /\ hup = 0
      /\ limits \in Limits /\ opened = {server_s} /\ leaked = {}
      /\ script \in Scripts
      /\ phase = [c \in Clients |-> IF c \in DOMAIN script THEN "new"
                                                           ELSE "closed"]
      /\ sent = [c \in Clients |-> 0] /\ got = [c \in Clients |-> 0]
      /\ parsed = [c \in Clients |-> 0] /\ gone = [c \in Clients |-> FALSE]
      /\ Live = {}
  BY DEF Init, Live
<1>2. TypeOK
  <2>1. server_s \in FDs
    BY Counts
  <2>2. phase \in [Clients -> {"new", "backlog", "open", "closed"}]
    BY <1>1
  <2>3. /\ sent \in [Clients -> Nat] /\ got \in [Clients -> Nat]
        /\ parsed \in [Clients -> Nat] /\ gone \in [Clients -> BOOLEAN]
        /\ \A c \in Clients : parsed[c] <= got[c] /\ got[c] <= sent[c]
    BY <1>1
  <2>4. req \in [FDs -> Requests \cup {Nobody}]
    BY <1>1
  <2>5. /\ pc \in {"top", "accept", "pass", "poll", "switch", "select", "exited"}
        /\ result \in {"block", "done", "more"}
    BY <1>1
  <2>6. /\ todo \subseteq ready /\ current \in FDs /\ max_fd \in FDs \cup {0}
        /\ ready \subseteq FDs /\ block \subseteq FDs /\ opened \subseteq FDs
        /\ leaked \subseteq FDs
        /\ watched \subseteq {"r", "w"} \X FDs
    BY <1>1, <2>1
  <2>7. /\ total \in Nat /\ term \in 0 .. 2 /\ hup \in 0 .. 2
        /\ limits \in Limits /\ script \in Scripts
    BY <1>1
  <2>8. pending \in BOOLEAN
    BY <1>1, Zenon
  <2> QED
    BY <2>2, <2>3, <2>4, <2>5, <2>6, <2>7, <2>8 DEF TypeOK
<1>3. TotalCounts
  BY <1>1, FS_EmptySet DEF TotalCounts
<1>4. OwnInv
  BY <1>1 DEF OwnInv
<1>5. ShapeInv /\ ClientInv
  BY <1>1 DEF ShapeInv, ClientInv
<1>6. ScriptInv
  <2>1. \A c \in Clients : phase[c] # "closed" => c \in DOMAIN script
    BY <1>1
  <2>2. ASSUME NEW c \in DOMAIN script
        PROVE  sent[c] <= Len(script[c])
    <3>1. c \in Clients /\ script[c] \in Seq(Pieces)
      BY <1>1, BoaAssumption
    <3> DEFINE n == Len(script[c])
    <3>2. n \in Nat /\ sent[c] = 0
      BY <1>1, <3>1
    <3> HIDE DEF n
    <3>3. sent[c] <= n
      BY <3>2
    <3> QED
      BY <3>3 DEF n
  <2> QED
    BY <2>1, <2>2 DEF ScriptInv
<1>7. WriteInv /\ CurrentInv /\ WatchInv
  BY <1>1 DEF WriteInv, CurrentInv, WatchInv, AtSwitch
<1> QED
  BY <1>2, <1>3, <1>4, <1>5, <1>6, <1>7 DEF IInv

(* When nothing happens nothing changes.                                     *)
LEMMA StutterStep ==
    ASSUME IInv, UNCHANGED vars
    PROVE  IInv'
<1>1. /\ pc' = pc /\ todo' = todo /\ current' = current /\ result' = result
      /\ max_fd' = max_fd /\ ready' = ready /\ block' = block
      /\ total' = total /\ watched' = watched /\ req' = req
      /\ pending' = pending /\ term' = term /\ hup' = hup
      /\ limits' = limits /\ opened' = opened
      /\ script' = script /\ phase' = phase /\ sent' = sent /\ gone' = gone
      /\ got' = got /\ parsed' = parsed /\ leaked' = leaked /\ Live' = Live
  BY DEF vars, loop, queues, signals, files, client, Live
<1>2. TypeOK' /\ TotalCounts' /\ ScriptInv'
  BY <1>1 DEF IInv, TypeOK, TotalCounts, ScriptInv
<1>3. OwnInv' /\ ShapeInv' /\ ClientInv'
  BY <1>1 DEF IInv, OwnInv, ShapeInv, ClientInv
<1>4. WriteInv' /\ WatchInv'
  BY <1>1 DEF IInv, WriteInv, WatchInv, AtSwitch
<1>5. CurrentInv'
  BY <1>1 DEF IInv, CurrentInv, AtSwitch, Ended, Gone, Whole
<1> QED
  BY <1>2, <1>3, <1>4, <1>5 DEF IInv

(* Every step of the server, of its clients and of those who send signals.   *)
LEMMA NextStep ==
    ASSUME IInv, [Next]_vars
    PROVE  IInv'
<1>1. CASE Top
  BY <1>1, TopStep
<1>2. CASE BeginsPass \/ PollsAgain
  BY <1>2, PollStep
<1>3. CASE Settles
  BY <1>3, SettlesStep
<1>4. CASE EntersSelect \/ SelectReturns
  BY <1>4, SelectStep
<1>5. CASE \E f \in FDs : Handles(f)
  BY <1>5, HandlesHandled, HandledStep
<1>6. CASE Signal
  BY <1>6, SignalStep
<1>7. CASE \E f \in FDs : TimePasses(f)
  BY <1>7, TimePassesStep
<1>8. CASE \E c \in Clients : Connects(c) \/ Sends(c) \/ HangsUp(c)
  BY <1>8, ClientStep
<1>9. CASE UNCHANGED vars
  BY <1>9, StutterStep
<1> QED
  BY <1>1, <1>2, <1>3, <1>4, <1>5, <1>6, <1>7, <1>8, <1>9 DEF Next, Server

(* The inductive invariant holds in every reachable state.                   *)
THEOREM Invariance == Spec => []IInv
<1>1. Init => IInv
  BY InitInv
<1>2. IInv /\ [Next]_vars => IInv'
  BY NextStep
<1> QED
  BY <1>1, <1>2, PTL DEF Spec

(* Every variable has its type, and no client's data is parsed before it is  *)
(* read or read before it is sent (request.c:287-345, read.c).               *)
THEOREM TypeCorrect == Spec => []TypeOK
<1>1. IInv => TypeOK
  BY DEF IInv
<1> QED
  BY <1>1, Invariance, PTL

(* total_connections is the number of requests on the queues, whatever ends  *)
(* them (get_request, free_request).                                         *)
THEOREM ConnectionsCounted == Spec => []TotalCounts
<1>1. IInv => TotalCounts
  BY DEF IInv
<1> QED
  BY <1>1, Invariance, PTL

(* No descriptor leaks but a simple POST's first file (request.c:633), and no *)
(* two requests hold the same one.                                           *)
THEOREM NoDescriptorLeaks == Spec => []DescriptorsOwned
<1>1. IInv => DescriptorsOwned
  <2> SUFFICES ASSUME IInv
               PROVE  DescriptorsOwned
    OBVIOUS
  <2>1. /\ \A x \in opened : \/ x = server_s /\ term # 2
                             \/ x \in leaked
                             \/ \E g \in Live : x \in Owned(g, req[g])
        /\ term # 2 => server_s \in opened /\ server_s \notin leaked
        /\ leaked \subseteq opened
        /\ \A g \in Live : /\ Owned(g, req[g]) \subseteq opened
                           /\ Owned(g, req[g]) \cap leaked = {}
                           /\ term # 2 => server_s \notin Owned(g, req[g])
        /\ \A g, h \in Live :
               g # h => Owned(g, req[g]) \cap Owned(h, req[h]) = {}
    BY DEF IInv, OwnInv
  <2>2. opened = (IF term = 2 THEN {} ELSE {server_s}) \cup leaked
                     \cup UNION {Owned(f, req[f]) : f \in Live}
    <3> DEFINE U == UNION {Owned(f, req[f]) : f \in Live}
    <3>1. \A x : x \in U <=> \E f \in Live : x \in Owned(f, req[f])
      OBVIOUS
    <3> HIDE DEF U
    <3>2. opened = (IF term = 2 THEN {} ELSE {server_s}) \cup leaked \cup U
      BY <2>1, <3>1
    <3> QED
      BY <3>2 DEF U
  <2>3. ASSUME NEW f \in Live
        PROVE  /\ req[f].data = 0 \/ req[f].data # req[f].post
               /\ f \notin {req[f].data, req[f].post}
    <3>1. Shape(f, req[f])
      BY DEF IInv, ShapeInv
    <3> QED
      BY <3>1 DEF Shape
  <2> QED
    BY <2>1, <2>2, <2>3 DEF DescriptorsOwned
<1> QED
  BY <1>1, Invariance, PTL

(* Nobody who waits is forgotten by select, also after a SIGHUP.             *)
THEOREM NobodyForgotten == Spec => []BlockedIsWatched
<1>1. IInv => BlockedIsWatched
  BY DEF IInv, WatchInv, BlockedIsWatched
<1> QED
  BY <1>1, Invariance, PTL

-----------------------------------------------------------------------------
(* Which step forgets a request line.                                        *)

Remembers(f) == req'[f].logline = "none" => req[f].logline = "none"

(* Only the end of a visit forgets the line of the request, or adds or       *)
(* removes a request, but for get_request.                                   *)
LEMMA OthersRemember ==
    ASSUME IInv, [Next]_vars, ~Settles
    PROVE  /\ \A f \in Live : Remembers(f)
           /\ term = 2 => Live' = Live
<1>1. CASE Top
  <2> DEFINE sets  == IF hup = 1 THEN {}
                      ELSE watched \ (IF term = 1 THEN {<<"r", server_s>>}
                                      ELSE {})
             woken == {f \in block : \/ Updated(f).status = "DEAD"
                                     \/ Watch(f, Updated(f)) \in sets}
  <2>1. \/ UNCHANGED <<ready, block, req>>
        \/ /\ req' = [f \in FDs |-> IF f \in block THEN Updated(f) ELSE req[f]]
           /\ ready' = ready \cup woken /\ block' = block \ woken
    BY <1>1 DEF Top
  <2>2. woken \subseteq block
    OBVIOUS
  <2> HIDE DEF woken
  <2>3. \A f \in Live : f \in FDs /\ Alike(Updated(f), req[f])
    BY LiveType, UpdatedEffect DEF IInv
  <2>4. CASE UNCHANGED <<ready, block, req>>
    BY <2>4 DEF Remembers, Live
  <2>5. CASE /\ req' = [f \in FDs |-> IF f \in block THEN Updated(f)
                                                      ELSE req[f]]
             /\ ready' = ready \cup woken /\ block' = block \ woken
    BY <2>2, <2>3, <2>5 DEF Remembers, Alike, Live
  <2> QED
    BY <2>1, <2>4, <2>5
<1>2. CASE BeginsPass \/ PollsAgain
  <2>1. PollServer
    BY <1>2 DEF BeginsPass, PollsAgain
  <2> QED
    BY <2>1, PollEffect DEF Remembers
<1>3. CASE UNCHANGED <<ready, block, req>>
  BY <1>3 DEF Remembers, Live
<1>4. CASE \E f \in FDs : Handles(f)
  <2>1. PICK f \in FDs : Handled(f)
    BY <1>4, HandlesHandled
  <2>2. PICK s, r :
            /\ Good(f, req[f], s, r)
            /\ \A g \in Live : req'[g] = IF g = f THEN s ELSE req[g]
    BY <2>1, HandledEffect
  <2>3. Live' = Live
    BY <2>1 DEF Handled, queues, Live
  <2> QED
    BY <2>2, <2>3 DEF Good, Remembers
<1>5. CASE \E f \in FDs : TimePasses(f)
  <2>1. PICK f \in FDs : TimePasses(f)
    BY <1>5
  <2>2. /\ req' = [req EXCEPT ![f].age = @ + 1] /\ f \in Live
        /\ Live' = Live
    BY <2>1 DEF TimePasses, queues, Live
  <2>3. ASSUME NEW g \in Live
        PROVE  req'[g].logline = req[g].logline
    <3> DEFINE q == req[f]
               a == q.age + 1
    <3>1. req' = [req EXCEPT ![f] = [q EXCEPT !.age = a]]
      BY <2>2
    <3>2. /\ q \in Requests /\ g \in FDs
          /\ req \in [FDs -> Requests \cup {Nobody}] /\ q = req[f]
      BY <2>2, LiveType DEF IInv, TypeOK
    <3> HIDE DEF q, a
    <3>3. [q EXCEPT !.age = a].logline = q.logline
      BY <3>2 DEF Requests
    <3> QED
      BY <3>1, <3>2, <3>3
  <2> QED
    BY <2>2, <2>3 DEF Remembers
<1>6. CASE EntersSelect \/ SelectReturns \/ Signal
  BY <1>3, <1>6 DEF EntersSelect, SelectReturns, Signal, queues
<1>7. CASE \E c \in Clients : Connects(c) \/ Sends(c) \/ HangsUp(c)
  BY <1>3, <1>7 DEF Connects, Sends, HangsUp, queues
<1>8. CASE UNCHANGED vars
  BY <1>3, <1>8 DEF vars, queues
<1> QED
  BY <1>1, <1>2, <1>4, <1>5, <1>6, <1>7, <1>8 DEF Next, Server

(* The end of a visit forgets a line only when it keeps the connection.      *)
LEMMA SettlesRemembers ==
    ASSUME IInv, Settles
    PROVE  /\ Live' \subseteq Live
           /\ \A f \in Live' :
                  \/ Remembers(f)
                  \/ /\ f = current /\ result = "done"
                     /\ KeepsConnection(req[f])
                     /\ ~(req[f].buf /\ req[f].status # "DEAD")
<1> DEFINE f == current
           q == req[f]
<1>1. /\ f \in ready /\ f \in FDs /\ f \notin block /\ q \in Requests
      /\ req \in [FDs -> Requests \cup {Nobody}] /\ ready \cap block = {}
      /\ pc = "switch"
  BY SettlesFacts DEF Settles
<1>2. CASE /\ ready' = ready \ {f} /\ block' = block \cup {f}
           /\ UNCHANGED req
  BY <1>1, <1>2 DEF Live, Remembers
<1>3. ASSUME NEW e, e.logline = q.logline, req' = [req EXCEPT ![f] = e],
             ready' = ready, block' = block
      PROVE  Live' \subseteq Live /\ \A g \in Live' : Remembers(g)
  <2>1. Live' = Live /\ \A g \in Live : g \in FDs
    BY <1>3, LiveType DEF IInv, Live
  <2>2. \A g \in Live : req'[g].logline = req[g].logline
    BY <1>1, <1>3, <2>1
  <2> QED
    BY <2>1, <2>2 DEF Remembers
<1>4. CASE req' = [req EXCEPT ![f].age = 0] /\ UNCHANGED queues
  <2> DEFINE e == [q EXCEPT !.age = 0]
  <2>0. q = req[f] /\ req' = [req EXCEPT ![f] = e]
    BY <1>4
  <2>1. e.logline = q.logline
    <3> HIDE DEF q
    <3> QED
      BY <1>1 DEF Requests
  <2> HIDE DEF e
  <2> QED
    BY <1>3, <1>4, <2>0, <2>1 DEF queues
<1>5. CASE /\ req' = [req EXCEPT ![f] = [q EXCEPT !.status = "DONE", !.age = 0]]
           /\ UNCHANGED queues
  <2> DEFINE e == [q EXCEPT !.status = "DONE", !.age = 0]
  <2>0. q = req[f] /\ req' = [req EXCEPT ![f] = e]
    BY <1>5
  <2>1. e.logline = q.logline
    <3> HIDE DEF q
    <3> QED
      BY <1>1 DEF Requests
  <2> HIDE DEF e
  <2> QED
    BY <1>3, <1>5, <2>0, <2>1 DEF queues
<1>6. CASE /\ result = "done" /\ ~(q.buf /\ q.status # "DEAD")
           /\ FreeRequest(f, q)
  <2>1. ready' = ready \ {f} /\ block' \subseteq block \cup {f}
    BY <1>6 DEF FreeRequest
  <2>2. ASSUME NEW g \in Live'
        PROVE  /\ g \in Live
               /\ Remembers(g) \/ (g = f /\ KeepsConnection(q))
    <3>1. g \in Live /\ g \in FDs
      BY <1>1, <2>1, LiveType DEF IInv, Live
    <3>2. CASE g # f
      <4>1. PICK e : req' = [req EXCEPT ![f] = e]
        BY <1>6 DEF FreeRequest
      <4>2. req'[g] = req[g]
        BY <1>1, <3>1, <3>2, <4>1
      <4> QED
        BY <3>1, <4>2 DEF Remembers
    <3>3. CASE g = f /\ ~KeepsConnection(q)
      <4>1. block' = block
        BY <1>6, <3>3 DEF FreeRequest
      <4> QED
        BY <1>1, <2>1, <3>3, <4>1 DEF Live
    <3> QED
      BY <3>1, <3>2, <3>3
  <2> QED
    BY <1>6, <2>2
<1> QED
  BY <1>2, <1>4, <1>5, <1>6 DEF Settles, FreeRequest

(* A connection is kept only after a whole response, but for the exceptions  *)
(* KeptWhole names (free_request, request.c).                                *)
THEOREM KeptAfterWholeResponse == Spec => KeptWhole
<1>1. ASSUME IInv, [Next]_vars, NEW f \in Live,
             req[f].logline # "none", f \in block', req'[f].logline = "none"
      PROVE  \/ req[f].client # req'[f].client
             \/ Whole(req[f]) \/ Gone(req[f]) \/ req[f].torn
  <2>1. ~Remembers(f) /\ f \in Live'
    BY <1>1 DEF Remembers, Live
  <2>2. Settles
    BY <1>1, <2>1, OthersRemember
  <2>3. f = current /\ result = "done" /\ KeepsConnection(req[f])
    BY <1>1, <2>1, <2>2, SettlesRemembers
  <2>4. Ended(req[f])
    BY <1>1, <2>2, <2>3, SettlesFacts DEF Settles
  <2> QED
    BY <2>3, <2>4 DEF Ended, KeepsConnection
<1>2. IInv /\ [Next]_vars =>
        [\A f \in Live :
           req[f].logline # "none" /\ f \in block' /\ req'[f].logline = "none"
           => \/ req[f].client # req'[f].client
              \/ Whole(req[f]) \/ Gone(req[f]) \/ req[f].torn]_vars
  BY <1>1
<1> QED
  BY <1>2, Invariance, PTL DEF Spec, KeptWhole

(* In lame duck mode nobody is accepted and no connection is kept.           *)
THEOREM LameDuckLetsGo == Spec => LameDuckKeepsNothing
<1>1. ASSUME IInv, [Next]_vars, term = 2
      PROVE  /\ Live' \subseteq Live
             /\ \A f \in Live' : req'[f].logline = "none"
                                   => req[f].logline = "none"
  <2>1. CASE Settles
    <3>1. req[current].ka = "stopped"
      BY <1>1, <2>1, SettlesFacts DEF Settles
    <3>2. ~KeepsConnection(req[current])
      BY <3>1 DEF KeepsConnection
    <3> QED
      BY <1>1, <2>1, <3>2, SettlesRemembers DEF Remembers
  <2>2. CASE ~Settles
    BY <1>1, <2>2, OthersRemember DEF Remembers
  <2> QED
    BY <2>1, <2>2
<1>2. IInv /\ [Next]_vars =>
        [term = 2 => /\ Live' \subseteq Live
                     /\ \A f \in Live' : req'[f].logline = "none"
                                           => req[f].logline = "none"]_vars
  BY <1>1
<1> QED
  BY <1>2, Invariance, PTL DEF Spec, LameDuckKeepsNothing

=============================================================================
