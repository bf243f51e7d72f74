------------------------------ MODULE BoaServer ------------------------------
(***************************************************************************)
(* The web server Boa: one process, one thread, a select loop and two      *)
(* queues of requests.  A pass runs one handler for each ready request;    *)
(* the handler says whether the request must wait (it moves to the blocked *)
(* queue and its descriptor is added to select's sets), is done (it is     *)
(* freed, or its connection kept for the next request) or has more to do.  *)
(* Signals interrupt select and are served at the top of the loop.         *)
(*                                                                         *)
(* Clients send pieces: a request line; the rest of its header, with       *)
(* options ("end") or empty ("blank"), or options of which the server      *)
(* refuses one ("bad"); a POST's body.  A socket takes a whole buffer or   *)
(* nothing.  Time is each blocked request's age: 0, ka_timeout (1), past   *)
(* REQUEST_TIMEOUT (2).                                                    *)
(***************************************************************************)
EXTENDS Naturals, Sequences, FiniteSets

CONSTANTS Clients,         \* each connects at most once
          Scripts,         \* the pieces each client that comes may send
          Nobody,          \* no request on this descriptor
          KaMax,           \* ka_max, KeepAliveMax in boa.conf
          Limits,          \* what max_connections and RLIMIT_NOFILE may be
          Slack,           \* select_loop stops accepting this far below it
          Chunks,          \* buffers of data in a file or from a CGI
          OpenMax,         \* the largest RLIMIT_NOFILE
          Faults,          \* files, forks, pipes and disks may fail
          BothSignals      \* one run may have a SIGHUP and a SIGTERM

Lines == {"small", "mapped", "large", "cgi", "post", "missing"}

\* Simple requests (HTTP/0.9) have a line only, and ask for these.
Old == [old_file |-> "mapped", old_cgi |-> "cgi", old_post |-> "post"]
Asks(line) == IF line \in DOMAIN Old THEN Old[line] ELSE line

Pieces == Lines \cup DOMAIN Old \cup {"end", "blank", "bad", "body"}

server_s == 1
FDs == 1 .. OpenMax

Statuses == {"READ_HEADER", "BODY_READ", "BODY_WRITE", "WRITE", "PIPE_READ",
             "PIPE_WRITE", "DONE", "DEAD"}

Requests ==
    [client : Clients, status : Statuses, buf : BOOLEAN,
     ka : {"inactive", "stopped", "active"}, kacount : 0 .. KaMax,
     logline : Pieces \cup {"none"}, data : FDs \cup {0},
     post : FDs \cup {0}, left : 0 .. Chunks, fill : BOOLEAN,
     cgi : {"parse", "buffer", "done"}, torn : BOOLEAN, age : 0 .. 2]

ASSUME BoaAssumption ==
    /\ IsFiniteSet(Clients) /\ Nobody \notin Requests
    /\ \A s \in Scripts : /\ DOMAIN s \subseteq Clients
                          /\ \A c \in DOMAIN s : s[c] \in Seq(Pieces)
    /\ KaMax \in Nat /\ Slack \in Nat
    /\ Limits \subseteq [connections : Nat, files : Nat]
    /\ OpenMax \in Nat \ {0}
    /\ Chunks \in Nat \ {0} /\ Faults \in BOOLEAN
    /\ BothSignals \in BOOLEAN

VARIABLES
    pc,        \* where select_loop is
    todo,      \* ready requests this pass still has to visit
    current,   \* the request the pass is at
    result,    \* what its handler returned
    ready,     \* request_ready: the sockets of its requests
    block,     \* request_block
    req,       \* the request on each socket
    total,     \* total_connections
    watched,   \* block_read_fdset and block_write_fdset
    max_fd,    \* the largest descriptor put into them in this round
    pending,   \* pending_requests
    term,      \* sigterm_flag
    hup,       \* sighup_flag, and whether there was a SIGHUP
    limits,    \* MaxConnections, and RLIMIT_NOFILE less what is open at first
    opened,    \* the descriptors open in the process
    leaked,    \* of these, those whose number nobody knows any more
    script,    \* what each client sends
    phase,     \* each client's connection
    sent,      \* pieces it has sent
    got,       \* pieces read into client_stream
    parsed,    \* pieces before parse_pos
    gone       \* it has closed its end

loop    == <<pc, todo, current, result, max_fd>>
queues  == <<ready, block, total, watched>>
signals == <<term, hup, limits>>
files   == <<opened, leaked>>
client  == <<script, phase, sent, gone>>
vars    == <<loop, queues, req, pending, signals, files, client, got, parsed>>

max_connections == limits.connections

Fresh(c, k) ==
    [client |-> c, status |-> "READ_HEADER", buf |-> FALSE, ka |-> "inactive",
     kacount |-> k, logline |-> "none", data |-> 0, post |-> 0, left |-> 0,
     fill |-> FALSE, cgi |-> "buffer", torn |-> FALSE, age |-> 0]

Stopped(q) == [q EXCEPT !.ka = "stopped"]
Dead(q)    == [q EXCEPT !.status = "DEAD"]
Gone(q)    == gone[q.client]

Init ==
    /\ pc = "top" /\ todo = {} /\ current = server_s /\ result = "more"
    /\ ready = {} /\ block = {} /\ watched = {} /\ max_fd = 0
    /\ req = [f \in FDs |-> Nobody]
    /\ total = 0 /\ pending = FALSE /\ term = 0 /\ hup = 0
    /\ limits \in Limits
    /\ opened = {server_s} /\ leaked = {}
    /\ script \in Scripts
    /\ phase = [c \in Clients |-> IF c \in DOMAIN script THEN "new"
                                                         ELSE "closed"]
    /\ sent = [c \in Clients |-> 0] /\ got = [c \in Clients |-> 0]
    /\ parsed = [c \in Clients |-> 0]
    /\ gone = [c \in Clients |-> FALSE]
-----------------------------------------------------------------------------
(* Clients.  What they do shows only to accept, to a handler and to select, *)
(* so it is enough that they do it before one of these.                    *)

Observed == pc \in {"pass", "select"}

Connects(c) ==
    /\ Observed /\ phase[c] = "new" /\ term # 2
    /\ phase' = [phase EXCEPT ![c] = "backlog"]
    /\ UNCHANGED <<loop, queues, req, pending, signals, files, script, sent,
                   got, parsed, gone>>

Sends(c) ==
    /\ Observed /\ phase[c] \in {"backlog", "open"} /\ ~gone[c]
    /\ sent[c] < Len(script[c])
    /\ sent' = [sent EXCEPT ![c] = @ + 1]
    /\ UNCHANGED <<loop, queues, req, pending, signals, files, script, phase,
                   got, parsed, gone>>

HangsUp(c) ==
    /\ Observed /\ phase[c] \in {"backlog", "open"} /\ ~gone[c]
    /\ gone' = [gone EXCEPT ![c] = TRUE]
    /\ UNCHANGED <<loop, queues, req, pending, signals, files, script, phase,
                   sent, got, parsed>>
-----------------------------------------------------------------------------
(* The top of select_loop: signals, then fdset_update. *)

\* The descriptor a blocked request waits for, and how.
Watch(f, q) ==
    IF q.buf \/ q.status \in {"WRITE", "PIPE_WRITE", "DONE"} THEN <<"w", f>>
    ELSE IF q.status = "PIPE_READ"  THEN <<"r", q.data>>
    ELSE IF q.status = "BODY_WRITE" THEN <<"w", q.post>>
    ELSE <<"r", f>>

\* Mutant: only idle kept connections time out.
TimedOutIdle(q) ==
    \/ q.kacount < KaMax /\ q.age >= 1 /\ q.logline = "none"

\* A kept connection nothing was read on since ka_timeout, and a request
\* without progress for REQUEST_TIMEOUT, are dead.
TimedOut(q) ==
    \/ q.kacount < KaMax /\ q.age >= 1 /\ q.logline = "none"
    \/ q.age = 2

Updated(f) == IF TimedOut(req[f]) THEN Dead(req[f]) ELSE req[f]

\* Mutant: the sets are cleared after the blocked requests were put in.
TopClearsLate ==
    LET sets  == watched \ (IF term = 1 THEN {<<"r", server_s>>} ELSE {})
        woken == {f \in block : \/ Updated(f).status = "DEAD"
                                \/ Watch(f, Updated(f)) \in sets}
    IN
    /\ pc = "top"
    /\ hup' = IF hup = 1 THEN 2 ELSE hup
    /\ term' = IF term = 1 THEN 2 ELSE term
    /\ opened' = IF term = 1 THEN opened \ {server_s} ELSE opened
    /\ IF term # 0 /\ ready \cup block = {}
       THEN /\ pc' = "exited" /\ watched' = sets
            /\ UNCHANGED <<ready, block, req>>
       ELSE /\ pc' = "accept"
            /\ req' = [f \in FDs |-> IF f \in block THEN Updated(f)
                                                     ELSE req[f]]
            /\ ready' = ready \cup woken
            /\ block' = block \ woken
            /\ watched' = IF hup = 1 THEN {} ELSE
                   (sets \ {Watch(f, Updated(f)) : f \in woken})
                       \cup {Watch(f, Updated(f)) : f \in block \ woken}
    /\ max_fd' = 0
    /\ UNCHANGED <<limits, todo, current, result, total, pending,
                   leaked, client, got, parsed>>

Top ==
    LET sets  == IF hup = 1 THEN {}
                 ELSE watched \ (IF term = 1 THEN {<<"r", server_s>>} ELSE {})
        woken == {f \in block : \/ Updated(f).status = "DEAD"
                                \/ Watch(f, Updated(f)) \in sets}
    IN
    /\ pc = "top"
    /\ hup' = IF hup = 1 THEN 2 ELSE hup
    /\ term' = IF term = 1 THEN 2 ELSE term
    /\ opened' = IF term = 1 THEN opened \ {server_s} ELSE opened
    /\ IF term # 0 /\ ready \cup block = {}
       THEN /\ pc' = "exited" /\ watched' = sets
            /\ UNCHANGED <<ready, block, req>>
       ELSE /\ pc' = "accept"
            /\ req' = [f \in FDs |-> IF f \in block THEN Updated(f)
                                                     ELSE req[f]]
            /\ ready' = ready \cup woken
            /\ block' = block \ woken
            /\ watched' = (sets \ {Watch(f, Updated(f)) : f \in woken})
                       \cup {Watch(f, Updated(f)) : f \in block \ woken}
    /\ max_fd' = 0
    /\ UNCHANGED <<limits, todo, current, result, total, pending,
                   leaked, client, got, parsed>>
-----------------------------------------------------------------------------
(* get_request: one accept. *)

\* The kernel gives the lowest number that is free, while there is one.
Free   == {f \in FDs \ opened : f <= limits.files}
Lowest == CHOOSE f \in Free : \A g \in Free : f <= g

\* What a request may be after a whole response was put in its buffer and
\* flushed: sent, not sent yet, or the client is not there any more.
Flushed(q) ==
    {[q EXCEPT !.buf = FALSE]}
        \cup (IF Gone(q) THEN {[Dead(q) EXCEPT !.buf = FALSE]}
                         ELSE {[q EXCEPT !.buf = TRUE]})

\* An error page also ends the keep-alive.
Paged(q) == Flushed(Stopped(q))

\* Mutant: a refused connection is not counted.
GetRequestUncounted(c) ==
    LET q == Fresh(c, KaMax) IN
    /\ term # 2 /\ phase[c] = "backlog" /\ Free # {}
    /\ phase' = [phase EXCEPT ![c] = "open"]
    /\ opened' = opened \cup {Lowest}
    /\ total' = IF Lowest > max_connections THEN total ELSE total + 1
    /\ ready' = ready \cup {Lowest}
    /\ IF Lowest > max_connections
       THEN /\ \E p \in Paged(q) :
                  req' = [req EXCEPT ![Lowest] = [p EXCEPT !.status = "DONE"]]
            /\ pending' = FALSE
       ELSE /\ req' = [req EXCEPT ![Lowest] = q]
            /\ pending' = pending

GetRequest(c) ==
    LET q == Fresh(c, KaMax) IN
    /\ term # 2 /\ phase[c] = "backlog" /\ Free # {}
    /\ phase' = [phase EXCEPT ![c] = "open"]
    /\ opened' = opened \cup {Lowest}
    /\ total' = total + 1
    /\ ready' = ready \cup {Lowest}
    /\ IF Lowest > max_connections
       THEN /\ \E p \in Paged(q) :
                  req' = [req EXCEPT ![Lowest] = [p EXCEPT !.status = "DONE"]]
            /\ pending' = FALSE
       ELSE /\ req' = [req EXCEPT ![Lowest] = q]
            /\ pending' = pending

\* accept finds nothing, or fails: the server socket is closed, or the
\* process may open no more.
NoRequest ==
    /\ \/ /\ \A c \in Clients : term # 2 => phase[c] # "backlog"
          /\ pending' = (pending /\ term = 2)
       \/ Free = {} /\ UNCHANGED pending
    /\ UNCHANGED <<phase, opened, total, ready, req>>

PollServer ==
    /\ \/ pending /\ \E c \in Clients : GetRequest(c)
       \/ pending /\ NoRequest
       \/ ~pending /\ UNCHANGED <<phase, opened, total, ready, req, pending>>
    /\ UNCHANGED <<current, result, max_fd, block, watched, signals, leaked,
                   script, sent, gone, got, parsed>>

\* The pass visits the requests that are ready now: later ones go in front.
BeginsPass ==
    /\ pc = "accept" /\ pc' = "pass"
    /\ PollServer
    /\ todo' = ready'

PollsAgain ==
    /\ pc = "poll" /\ pc' = "switch"
    /\ PollServer
    /\ UNCHANGED todo
-----------------------------------------------------------------------------
(* process_requests: the handlers, one for each status. *)

\* Data in the buffer goes out before anything else is done.
Buffered(q) == q.buf /\ q.status \notin {"DEAD", "DONE"}

\* The pass comes to the request on f, which has this status.
Visits(f, status) ==
    /\ pc = "pass" /\ pc' = "poll"
    /\ f \in todo /\ todo' = todo \ {f} /\ current' = f
    /\ req[f].status = status /\ ~Buffered(req[f])
    /\ UNCHANGED <<max_fd, queues, pending, signals, client>>

\* Mutant: lame duck mode lets the keep-alive be.
BecomesKeeping(f, q, r) ==
    /\ req' = [req EXCEPT ![f] = q]
    /\ result' = r

\* What the handler leaves; in lame duck mode no connection is kept.
Becomes(f, q, r) ==
    /\ req' = [req EXCEPT ![f] = IF term # 0 THEN Stopped(q) ELSE q]
    /\ result' = r

Same == UNCHANGED <<files, got, parsed>>

FlushesBuffer(f) ==
    LET q == req[f] IN
    /\ pc = "pass" /\ pc' = "poll"
    /\ f \in todo /\ todo' = todo \ {f} /\ current' = f
    /\ Buffered(q)
    /\ \E p \in Flushed(q) :
           Becomes(f, p, IF p.buf THEN "block"
                         ELSE IF p.status = "DEAD" THEN "done" ELSE "more")
    /\ UNCHANGED <<max_fd, queues, pending, signals, client>> /\ Same

FinishesAnswer(f) ==
    /\ Visits(f, "DONE")
    /\ \E p \in IF req[f].buf THEN Flushed(req[f]) ELSE {req[f]} :
           Becomes(f, p, IF p.buf THEN "block" ELSE "done")
    /\ Same

\* Mutant: a dead request may keep its connection.
BuriesKeeping(f) ==
    /\ Visits(f, "DEAD")
    /\ Becomes(f, [req[f] EXCEPT !.buf = FALSE], "done")
    /\ Same

Buries(f) ==
    /\ Visits(f, "DEAD")
    /\ Becomes(f, [Stopped(req[f]) EXCEPT !.buf = FALSE], "done")
    /\ Same

Room == \E f, g \in Free : f # g      \* for a pipe

\* Mutant: the parent does not close the POST's file.
InitCgiKeepsPost(f, q) ==
    /\ UNCHANGED leaked
    /\ \/ /\ Room
          /\ opened' = opened \cup {Lowest}
          /\ Becomes(f, [Stopped(q) EXCEPT !.status = "PIPE_READ",
                             !.cgi = "parse", !.data = Lowest, !.post = 0,
                             !.left = Chunks, !.fill = FALSE], "more")
       \/ /\ Faults \/ ~Room
          /\ UNCHANGED opened
          /\ Becomes(f, Stopped(q), "done")
       \/ /\ Faults /\ UNCHANGED opened
          /\ \E p \in Paged(q) : Becomes(f, p, "done")

\* init_cgi: a pipe (its read end gets the lowest number) and a child.
InitCgi(f, q) ==
    /\ UNCHANGED leaked
    /\ \/ /\ Room
          /\ opened' = (opened \cup {Lowest}) \ {q.post}
          /\ Becomes(f, [Stopped(q) EXCEPT !.status = "PIPE_READ",
                             !.cgi = "parse", !.data = Lowest, !.post = 0,
                             !.left = Chunks, !.fill = FALSE], "more")
       \/ /\ Faults \/ ~Room                                     \* pipe
          /\ UNCHANGED opened
          /\ Becomes(f, Stopped(q), "done")
       \/ /\ Faults /\ UNCHANGED opened                        \* fork
          /\ \E p \in Paged(q) : Becomes(f, p, "done")

\* process_header_end for a GET: init_get and init_cgi.
StartsAnswer(f, q) ==
    LET what == Asks(q.logline) IN
    \/ /\ what = "small" /\ Free # {} /\ UNCHANGED files
       /\ \E p \in Flushed(q) : Becomes(f, [p EXCEPT !.status = "DONE"], "more")
    \/ /\ what = "mapped" /\ Free # {} /\ UNCHANGED files
       /\ Becomes(f, [q EXCEPT !.status = "WRITE", !.buf = TRUE,
                               !.left = Chunks], "more")
    \/ /\ what = "large" /\ Free # {}
       /\ opened' = opened \cup {Lowest} /\ UNCHANGED leaked
       /\ \E p \in Flushed([q EXCEPT !.status = "PIPE_READ",
                               !.data = Lowest, !.left = Chunks]) :
              Becomes(f, p, "more")
    \/ /\ \/ what = "missing"                                    \* 404
          \/ Faults /\ what \in {"small", "mapped"}               \* SIGBUS
          \/ Free = {} /\ what \in {"small", "mapped", "large"}   \* 400
       /\ UNCHANGED files
       /\ \E p \in Paged(q) : Becomes(f, p, "done")
    \/ what = "cgi" /\ InitCgi(f, q)

\* process_header_end for a POST: a temporary file for the body.  A simple
\* POST gets here again after its blank line, and forgets the first file.
CreatesFile(q) ==
    /\ Free # {} /\ opened' = opened \cup {Lowest}
    /\ leaked' = leaked \cup ({q.post} \ {0})

CreatesNone(f, q) ==
    /\ Faults \/ Free = {}
    /\ UNCHANGED opened
    /\ leaked' = leaked \cup ({q.post} \ {0})
    /\ Becomes(f, [q EXCEPT !.post = 0, !.torn = TRUE], "done")

\* The header is at its end, which is piece n: the body comes next, or the
\* client has not said how long it is.
StartsBody(f, q, n) ==
    LET body == n < got[q.client]      \* it came with the header
        p    == [q EXCEPT !.post = Lowest]
    IN
    \/ CreatesNone(f, q)
    \/ /\ CreatesFile(q)
       /\ script[q.client][n] = "end"
       /\ Becomes(f, [p EXCEPT !.status = "BODY_WRITE", !.fill = body,
                            !.left = IF body THEN 0 ELSE 1], "more")
    \/ /\ CreatesFile(q)                                        \* 400
       /\ \E e \in Paged(p) : Becomes(f, e, "done")

\* read on the socket.
ReadsSocket(f, q, read) ==
    LET c == q.client IN
    /\ UNCHANGED files
    /\ \/ /\ got[c] < sent[c]
          /\ got' = [got EXCEPT ![c] = sent[c]]
          /\ Becomes(f, read, "more")
       \/ /\ got[c] = sent[c] /\ UNCHANGED got
          /\ IF gone[c] THEN \E p \in IF q.status = "BODY_READ" THEN Paged(q)
                                                                ELSE {q} :
                                 Becomes(f, p, "done")
                        ELSE Becomes(f, q, "block")

\* read_header parses what is buffered, and reads when that is not enough.
\* A simple request is answered at its line; of a POST, read_header goes on.
ReadsHeader(f) ==
    LET c    == req[f].client
        new  == req[f].logline = "none" /\ parsed[c] < got[c]
        line == IF new THEN script[c][parsed[c] + 1] ELSE req[f].logline
        n    == IF new THEN parsed[c] + 1 ELSE parsed[c]
        q    == [req[f] EXCEPT !.logline = line]
        head == line \in Lines \/ (line = "old_post" /\ ~new)
        rest == IF head /\ n < got[c] THEN script[c][n + 1] ELSE "none"
        k    == [q EXCEPT !.ka = IF rest = "end" THEN "active" ELSE @]
    IN
    /\ Visits(f, "READ_HEADER")
    /\ \/ /\ new /\ line \in DOMAIN Old
          /\ parsed' = [parsed EXCEPT ![c] = n] /\ UNCHANGED got
          /\ IF line = "old_post"
             THEN \/ CreatesNone(f, q)
                  \/ /\ CreatesFile(q)
                     /\ Becomes(f, [q EXCEPT !.post = Lowest], "more")
             ELSE StartsAnswer(f, q)
       \/ /\ rest \in {"end", "blank"}
          /\ parsed' = [parsed EXCEPT ![c] = n + 1] /\ UNCHANGED got
          /\ IF Asks(line) = "post" THEN StartsBody(f, k, n + 1)
                                    ELSE StartsAnswer(f, k)
       \/ /\ rest \notin {"none", "blank"}    \* no ':' in an option line
          /\ rest = "end" => line = "old_post"
          /\ parsed' = [parsed EXCEPT ![c] = n + 1]
          /\ UNCHANGED <<files, got>>
          /\ \E ka \in {q.ka} \cup (IF rest = "bad" THEN {"active"} ELSE {}) :
                 Becomes(f, [q EXCEPT !.ka = ka, !.torn = TRUE], "done")
       \/ /\ line = "none" \/ (head /\ n = got[c])
          /\ parsed' = [parsed EXCEPT ![c] = n]
          /\ ReadsSocket(f, q, q)
       \/ /\ line \in {"end", "blank", "bad", "body"}      \* no method: 501
          /\ parsed' = [parsed EXCEPT ![c] = n]
          /\ UNCHANGED <<files, got>>
          /\ \E p \in Paged(q) : Becomes(f, p, "done")

ReadsBody(f) ==
    LET q == req[f] IN
    /\ Visits(f, "BODY_READ")
    /\ UNCHANGED parsed
    /\ ReadsSocket(f, q, [q EXCEPT !.status = "BODY_WRITE", !.fill = TRUE,
                                   !.left = 0])

WritesBody(f) ==
    LET q == req[f] IN
    /\ Visits(f, "BODY_WRITE")
    /\ UNCHANGED <<got, parsed>>
    /\ \/ /\ q.fill /\ UNCHANGED files
          /\ Becomes(f, [q EXCEPT !.fill = FALSE], "more")
       \/ /\ q.fill /\ Faults /\ UNCHANGED files
          /\ \E p \in Paged(q) : Becomes(f, p, "done")             \* ENOSPC
       \/ /\ ~q.fill /\ q.left = 0
          /\ InitCgi(f, q)
       \/ /\ ~q.fill /\ q.left > 0 /\ UNCHANGED files
          /\ Becomes(f, [q EXCEPT !.status = "BODY_READ"], "more")

\* process_get writes the rest of a mapped file.
Gets(f) ==
    LET q == req[f] IN
    /\ Visits(f, "WRITE") /\ Same
    /\ \/ Becomes(f, [q EXCEPT !.left = @ - 1],
                  IF q.left = 1 THEN "done" ELSE "more")
       \/ ~Gone(q) /\ Becomes(f, q, "block")
       \/ Gone(q)  /\ Becomes(f, Dead(q), "done")
       \/ Faults   /\ Becomes(f, [Dead(q) EXCEPT !.torn = TRUE], "done")

\* process_cgi_header: the CGI's header is passed on, at once or (after a
\* "Status:" of its own, and in a simple answer) later, or a page is sent.
ParsesCgi(f, q) ==
    \/ \E p \in Flushed([q EXCEPT !.fill = FALSE]) : Becomes(f, p, "more")
    \/ Becomes(f, [q EXCEPT !.fill = TRUE], "more")
    \/ \E p \in Paged(q) : Becomes(f, p, "done")
    \/ \E p \in Paged(q) : Becomes(f, [p EXCEPT !.status = "DONE"], "more")

\* read_from_pipe: a buffer of a file or of a CGI's output, or its end.
ReadsPipe(f) ==
    LET q == req[f] IN
    /\ Visits(f, "PIPE_READ") /\ Same
    /\ \/ /\ q.fill
          /\ IF q.cgi = "parse"
             THEN ParsesCgi(f, [q EXCEPT !.cgi = "buffer"])
             ELSE Becomes(f, [q EXCEPT !.status = "PIPE_WRITE"], "more")
       \/ /\ ~q.fill /\ q.left > 0
          /\ Becomes(f, [q EXCEPT !.fill = TRUE, !.left = @ - 1], "more")
       \/ /\ ~q.fill /\ q.left = 0
          /\ LET e == [q EXCEPT !.status = "PIPE_WRITE", !.cgi = "done"] IN
             IF q.cgi = "parse" THEN ParsesCgi(f, e) ELSE Becomes(f, e, "more")
       \/ /\ ~q.fill /\ Asks(q.logline) \in {"cgi", "post"}
          /\ Becomes(f, q, "block")
       \/ /\ ~q.fill /\ Faults
          /\ Becomes(f, [Dead(q) EXCEPT !.torn = TRUE], "done")

WritesPipe(f) ==
    LET q == req[f] IN
    /\ Visits(f, "PIPE_WRITE") /\ Same
    /\ \/ /\ ~q.fill /\ q.cgi = "done" /\ Becomes(f, q, "done")
       \/ /\ ~q.fill /\ q.cgi # "done"
          /\ Becomes(f, [q EXCEPT !.status = "PIPE_READ"], "more")
       \/ q.fill /\ Becomes(f, [q EXCEPT !.fill = FALSE], "more")
       \/ q.fill /\ ~Gone(q) /\ Becomes(f, q, "block")
       \/ /\ q.fill /\ Gone(q)
          /\ Becomes(f, [Stopped(Dead(q)) EXCEPT !.buf = TRUE], "done")
-----------------------------------------------------------------------------
(* process_requests: what the pass does with the handler's result. *)

\* Empty descriptors (0) are not closed.
Owned(f, q) == {f, q.data, q.post} \ {0}

\* Mutant: KeepAliveMax is not looked at.
KeepsForEver(q) == q.ka = "active"

KeepsConnection(q) == q.ka = "active" /\ q.kacount > 0

\* Mutant: a closed connection is still counted.
FreeRequestCounted(f, q) ==
    IF q.buf /\ q.status # "DEAD"
    THEN /\ req' = [req EXCEPT ![f] = [q EXCEPT !.status = "DONE", !.age = 0]]
         /\ UNCHANGED <<queues, opened, phase>>
    ELSE /\ ready' = ready \ {f}
         /\ IF KeepsConnection(q)
            THEN /\ req' = [req EXCEPT ![f] = Fresh(q.client, q.kacount - 1)]
                 /\ block' = block \cup {f}
                 /\ watched' = watched \cup {<<"r", f>>}
                 /\ opened' = opened \ (Owned(f, q) \ {f})
                 /\ UNCHANGED <<total, phase>>
            ELSE /\ req' = [req EXCEPT ![f] = Nobody]
                 /\ opened' = opened \ Owned(f, q)
                 /\ total' = total
                 /\ phase' = [phase EXCEPT ![q.client] = "closed"]
                 /\ UNCHANGED <<block, watched>>

\* free_request.
FreeRequest(f, q) ==
    IF q.buf /\ q.status # "DEAD"
    THEN /\ req' = [req EXCEPT ![f] = [q EXCEPT !.status = "DONE", !.age = 0]]
         /\ UNCHANGED <<queues, opened, phase>>
    ELSE /\ ready' = ready \ {f}
         /\ IF KeepsConnection(q)
            THEN /\ req' = [req EXCEPT ![f] = Fresh(q.client, q.kacount - 1)]
                 /\ block' = block \cup {f}
                 /\ watched' = watched \cup {<<"r", f>>}
                 /\ opened' = opened \ (Owned(f, q) \ {f})
                 /\ UNCHANGED <<total, phase>>
            ELSE /\ req' = [req EXCEPT ![f] = Nobody]
                 /\ opened' = opened \ Owned(f, q)
                 /\ total' = total - 1
                 /\ phase' = [phase EXCEPT ![q.client] = "closed"]
                 /\ UNCHANGED <<block, watched>>

Settles ==
    LET f == current
        q == req[f]
    IN
    /\ pc = "switch" /\ pc' = "pass"
    /\ current' = server_s /\ result' = "more"
    /\ \/ /\ result = "block"
          /\ ready' = ready \ {f} /\ block' = block \cup {f}
          /\ watched' = watched \cup {Watch(f, q)}
          /\ UNCHANGED <<req, opened, phase, total>>
       \/ /\ result = "more"
          /\ req' = [req EXCEPT ![f].age = 0]
          /\ UNCHANGED <<queues, opened, phase>>
       \/ result = "done" /\ FreeRequest(f, q)
    /\ UNCHANGED <<todo, max_fd, pending, signals, leaked, script, sent, gone,
                   got, parsed>>
-----------------------------------------------------------------------------
(* select.  Every blocked descriptor was put into the sets in this round. *)

EntersSelect ==
    /\ pc = "pass" /\ todo = {} /\ pc' = "select"
    /\ LET server == IF term = 0 /\ total + Slack < max_connections
                     THEN {<<"r", server_s>>} ELSE {}
           put == {Watch(f, req[f]) : f \in block} \cup server
       IN  /\ watched' = watched \cup server
           /\ max_fd' = CHOOSE m \in {w[2] : w \in put} \cup {0} :
                            \A w \in put : w[2] <= m
    /\ UNCHANGED <<todo, current, result, ready, block, req, total, pending,
                   signals, files, client, got, parsed>>

Selected == {w \in watched : w[2] <= max_fd}

\* The descriptor can be read or written for sure, or may be: files are
\* always ready, pipes and sockets take and give data when they like.
IsReady(w) ==
    \/ w = <<"r", server_s>> /\ \E c \in Clients : phase[c] = "backlog"
    \/ /\ w[2] \in ready \cup block
       /\ LET c == req[w[2]].client
          IN  gone[c] \/ (w[1] = "r" /\ got[c] < sent[c])
MayBeReady(w) == w[1] = "w" \/ \E f \in block : w[2] = req[f].data

SelectReturns ==
    /\ pc = "select" /\ pc' = "top"
    /\ IF \E w \in Selected : w[2] \notin opened
       THEN watched' = watched                                     \* EBADF
       ELSE \E may \in SUBSET {w \in Selected : MayBeReady(w)} :
                /\ watched' = {w \in Selected : IsReady(w)} \cup may
                /\ watched' # {} \/ ready \cup block # {}
    /\ pending' = (pending \/ <<"r", server_s>> \in watched')
    /\ UNCHANGED <<todo, current, result, max_fd, ready, block, req, total,
                   signals, files, client, got, parsed>>

\* A blocked request gets older.
TimePasses(f) ==
    /\ pc = "select" /\ f \in block /\ req[f].age < 2
    /\ req' = [req EXCEPT ![f].age = @ + 1]
    /\ UNCHANGED <<loop, queues, pending, signals, files, client, got,
                   parsed>>

\* The handler only sets a flag.  A signal that comes while select waits makes
\* it fail with EINTR; one that comes just before does not.
Signal ==
    /\ Observed
    /\ \/ term = 0 /\ (hup = 0 \/ BothSignals) /\ term' = 1 /\ UNCHANGED hup
       \/ hup = 0 /\ (term = 0 \/ BothSignals) /\ hup' = 1 /\ UNCHANGED term
    /\ UNCHANGED pc \/ (pc = "select" /\ pc' = "top")
    /\ UNCHANGED <<limits, todo, current, result, max_fd, queues, req,
                   pending, files, client, got, parsed>>
-----------------------------------------------------------------------------
Handles(f) ==
    \/ FlushesBuffer(f) \/ FinishesAnswer(f) \/ Buries(f) \/ ReadsHeader(f)
    \/ ReadsBody(f) \/ WritesBody(f) \/ Gets(f)
    \/ ReadsPipe(f) \/ WritesPipe(f)

Server ==
    \/ Top \/ BeginsPass \/ PollsAgain \/ Settles \/ EntersSelect
    \/ SelectReturns \/ \E f \in FDs : Handles(f)

Next ==
    \/ Server \/ Signal
    \/ \E f \in FDs : TimePasses(f)
    \/ \E c \in Clients : Connects(c) \/ Sends(c) \/ HangsUp(c)

\* The server runs, and time passes for what stays blocked.
Fairness == WF_vars(Server) /\ SF_vars(\E f \in FDs : TimePasses(f))

Spec == Init /\ [][Next]_vars /\ Fairness
-----------------------------------------------------------------------------
\* The type of every variable.
TypeOK ==
    /\ pc \in {"top", "accept", "pass", "poll", "switch", "select", "exited"}
    /\ todo \subseteq ready /\ current \in FDs
    /\ result \in {"block", "done", "more"} /\ max_fd \in FDs \cup {0}
    /\ ready \subseteq FDs /\ block \subseteq FDs
    /\ req \in [FDs -> Requests \cup {Nobody}]
    /\ total \in Nat /\ watched \subseteq ({"r", "w"} \X FDs)
    /\ pending \in BOOLEAN /\ term \in 0 .. 2 /\ hup \in 0 .. 2
    /\ limits \in Limits
    /\ opened \subseteq FDs /\ leaked \subseteq FDs /\ script \in Scripts
    /\ phase \in [Clients -> {"new", "backlog", "open", "closed"}]
    /\ gone \in [Clients -> BOOLEAN]
    /\ sent \in [Clients -> Nat] /\ got \in [Clients -> Nat]
    /\ parsed \in [Clients -> Nat]
    /\ \A c \in Clients : parsed[c] <= got[c] /\ got[c] <= sent[c]

\* get_request and free_request keep total_connections equal to the number of
\* requests on the two queues, whatever closes them (a refused connection, a
\* timeout, lame duck mode): if it drifted up, select_loop would accept no more.
TotalCounts ==
    /\ ready \cap block = {}
    /\ ready \cup block = {f \in FDs : req[f] # Nobody}
    /\ total = Cardinality(ready \cup block)

\* The descriptors open are the server socket (until lame duck mode), each
\* request's own socket, data file or pipe, and POST file, no number in two
\* hands, and nothing leaks but the first file of a simple POST whose header
\* ends a second time: process_header_end overwrites post_data_fd.
Live == ready \cup block
DescriptorsOwned ==
    /\ opened = (IF term = 2 THEN {} ELSE {server_s}) \cup leaked
                 \cup UNION {Owned(f, req[f]) : f \in Live}
    /\ term # 2 => server_s \notin leaked
    /\ \A f \in Live :
           /\ req[f].data = 0 \/ req[f].data # req[f].post
           /\ f \notin {req[f].data, req[f].post}
           /\ term # 2 => server_s \notin Owned(f, req[f])
           /\ Owned(f, req[f]) \cap leaked = {}
           /\ \A g \in Live \ {f} :
                  Owned(f, req[f]) \cap Owned(g, req[g]) = {}

\* Whenever select is entered, every blocked request's descriptor is in its
\* sets: also after SIGHUP cleared them (ChangeLog:169-173), so that no request
\* is forgotten until it times out.
BlockedIsWatched ==
    pc = "select" => \A f \in block : Watch(f, req[f]) \in watched

\* A response was begun, and has left the server whole.
Whole(q) == /\ q.status \in {"WRITE", "PIPE_WRITE", "DONE"}
            /\ ~q.buf /\ ~q.fill /\ q.left = 0

\* A connection is kept for a next request only when this one's response went
\* out whole: a client would take the next response for this one, or for the
\* rest of it.  The exceptions: the client has gone, or the request has failed
\* in silence and without squashing the keep-alive (a file or the disk, in
\* process_get, read_from_pipe and create_temporary_file, or an option line
\* that process_option_line refuses).
KeptWhole ==
    [][\A f \in Live :
           req[f].logline # "none" /\ f \in block' /\ req'[f].logline = "none"
           => \/ req[f].client # req'[f].client
              \/ Whole(req[f]) \/ Gone(req[f]) \/ req[f].torn]_vars

\* In lame duck mode no new connection is accepted and none is kept for another
\* request.
LameDuckKeepsNothing ==
    [][term = 2 => /\ Live' \subseteq Live
                   /\ \A f \in Live' : req'[f].logline = "none"
                                         => req[f].logline = "none"]_vars

\* A connection in the backlog is accepted, however many keep-alive connections
\* hold the server at its limit, unless the server is shut down.
ClientsAccepted ==
    \A c \in Clients :
        phase[c] = "backlog" ~> (phase[c] # "backlog" \/ term # 0)

\* Every connection is closed in the end, wherever its client, its file or its
\* CGI stops: the blocked ones time out.  What they send has an end here; a
\* client or a CGI that sends a little for ever is not timed out.
ConnectionsEnd == \A c \in Clients : phase[c] = "open" ~> phase[c] = "closed"

\* "SIGTERM triggers lame duck mode until all pending transactions complete"
\* (ChangeLog:418): lame duck mode ends with the exit of the server.  It does
\* not: when the pass has freed the last request, select waits, without a
\* timeout, for nothing.
LameDuckEnds == term = 2 ~> pc = "exited"
=============================================================================
