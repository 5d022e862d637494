---- MODULE OptimizeJobs ----
(* The optimization jobs of routers/optimize_router.py.  A job is a child        *)
(* process, optimize_all.py, with a child of its own: the optimizers that it     *)
(* starts and waits for one after the other are one here.  A reader thread moves *)
(* what they print into a queue; every client that streams the job takes lines   *)
(* out of that one queue; a cancellation runs in a thread of its own.  The       *)
(* generators of the streams share the event loop: one that does not await keeps *)
(* the others waiting, but not the threads.  Nothing but the copy of the job     *)
(* dictionary is locked.                                                         *)
EXTENDS Integers, Sequences, FiniteSets

CONSTANTS
    Jobs,                \* job ids; each is drawn once
    Streams,             \* connections of clients to /stream
    Callers,             \* threads: /run and /cancel
    PersistEvery,        \* captured lines between two saves (25)
    MaxLines,            \* bound: lines a process prints
    MaxCrashes           \* bound: restarts of the service

Procs == Streams \cup Callers

ASSUME JobsAssumption ==
    /\ Jobs # {} /\ Streams \cap Callers = {}
    /\ PersistEvery \in Nat \ {0} /\ MaxLines \in Nat /\ MaxCrashes \in Nat

VARIABLES
    status, lines,       \* per job, as in _JOBS
    queue,               \* the job's queue.Queue
    proc,                \* the child process: how it stands or ended
    tuner,               \* the child's own child: to come, at work, over
    printed, read,       \* lines the two have printed, lines the reader has put
    reader,              \* the reader thread
    pc, job, op,         \* of each stream and caller: its place, its job, why it saves
    item,                \* what a stream took out of the queue
    snap,                \* what a caller of _persist_jobs is about to write
    file,                \* logs/optimize_jobs.json
    \* History, for the properties only:
    sent,                \* lines each client was sent
    clients,             \* streams that ever connected to the job
    lost,                \* lines taken for a client that was gone
    had,                 \* statuses of the job
    crashes

jobs == <<status, lines, had>>
child == <<proc, tuner, printed, read, reader>>
history == <<sent, clients, lost>>
vars == <<jobs, queue, child, pc, job, op, item, snap, file, history, crashes>>

Sentinel == 0                        \* None, the end marker
Note == -1                           \* "[cancelled by user]"
Lines == 1 .. MaxLines
Running == {"alive", "signalled"}    \* the process, as poll sees it

Nobody == [status |-> "absent", lines |-> <<>>]
NoJobs == [j \in Jobs |-> Nobody]

\* What is in the file: a dictionary, or nothing json.loads accepts, for it was
\* truncated and not yet written, or two writes overlaid each other.
Saved(d) == [state |-> "saved", jobs |-> d]
Unparsable(st) == [state |-> st, jobs |-> NoJobs]

JobsInit ==
    /\ status = [j \in Jobs |-> "absent"] /\ lines = [j \in Jobs |-> <<>>]
    /\ had = [j \in Jobs |-> {"absent"}]
    /\ queue = [j \in Jobs |-> <<>>]
    /\ proc = [j \in Jobs |-> "none"] /\ tuner = [j \in Jobs |-> "pending"]
    /\ reader = [j \in Jobs |-> "none"]
    /\ printed = [j \in Jobs |-> 0] /\ read = [j \in Jobs |-> 0]
    /\ pc = [p \in Procs |-> "idle"]
    /\ job = [p \in Procs |-> CHOOSE j \in Jobs : TRUE]
    /\ op = [p \in Procs |-> "none"]
    /\ item = [s \in Streams |-> Sentinel]
    /\ snap = [p \in Procs |-> NoJobs]
    /\ file = Unparsable("empty")
    /\ sent = [s \in Streams |-> <<>>]
    /\ clients = [j \in Jobs |-> {}] /\ lost = [j \in Jobs |-> {}]
    /\ crashes = 0

Goto(p, l) == pc' = [pc EXCEPT ![p] = l]

Becomes(j, st) ==
    /\ status' = [status EXCEPT ![j] = st]
    /\ had' = [had EXCEPT ![j] = @ \cup {st}]

----------------------------------------------------------------------------
(* The processes and the thread that reads what they print.                    *)

\* optimize_all.py runs an optimizer, which prints where it does.
StartTuner(j) ==
    /\ proc[j] \in Running /\ tuner[j] = "pending"
    /\ tuner' = [tuner EXCEPT ![j] = "working"]
    /\ UNCHANGED <<jobs, queue, proc, printed, read, reader, pc, job, op, item, snap, file, history, crashes>>

EndTuner(j) ==
    /\ tuner[j] = "working"
    /\ tuner' = [tuner EXCEPT ![j] = "over"]
    /\ UNCHANGED <<jobs, queue, proc, printed, read, reader, pc, job, op, item, snap, file, history, crashes>>

PrintLine(j) ==
    /\ proc[j] \in Running \/ tuner[j] = "working"
    /\ printed[j] < MaxLines
    /\ printed' = [printed EXCEPT ![j] = @ + 1]
    /\ UNCHANGED <<jobs, queue, proc, tuner, read, reader, pc, job, op, item, snap, file, history, crashes>>

\* With the child gone nobody starts an optimizer; one at work goes on.
Parentless(j) == tuner' = [tuner EXCEPT ![j] = IF @ = "pending" THEN "over" ELSE @]

\* By itself, with a return code ("ok" is 0), once its optimizer has ended; by SIGTERM
\* at any time.
Exit(j) ==
    /\ proc[j] \in Running
    /\ \E rc \in {"ok", "error"} :
          /\ tuner[j] = "working" => proc[j] = "signalled" /\ rc = "error"
          /\ proc' = [proc EXCEPT ![j] = rc]
    /\ Parentless(j)
    /\ UNCHANGED <<jobs, queue, printed, read, reader, pc, job, op, item, snap, file, history, crashes>>

PutLine(j) ==
    /\ read' = [read EXCEPT ![j] = @ + 1]
    /\ queue' = [queue EXCEPT ![j] = Append(@, read[j] + 1)]
    /\ UNCHANGED reader

PutMarker(j) ==
    /\ queue' = [queue EXCEPT ![j] = Append(@, Sentinel)]
    /\ reader' = [reader EXCEPT ![j] = "ended"]
    /\ UNCHANGED read

\* Mutant: the end marker is put when the child ends, not when the output does.
ReadLine_UntilExit(j) ==
    /\ reader[j] = "reading"
    /\ IF proc[j] \in Running THEN read[j] < printed[j] /\ PutLine(j) ELSE PutMarker(j)
    /\ UNCHANGED <<jobs, proc, tuner, printed, pc, job, op, item, snap, file, history, crashes>>

\* Mutant: no end marker.
ReadLine_NoMarker(j) ==
    /\ reader[j] = "reading" /\ read[j] < printed[j]
    /\ PutLine(j)
    /\ UNCHANGED <<jobs, proc, tuner, printed, pc, job, op, item, snap, file, history, crashes>>

\* The output ends when nobody is left who could print.
OutputEnds(j) == proc[j] \notin Running /\ tuner[j] # "working"

\* _reader_thread: each line, and at the end of the output the end marker.
ReadLine(j) ==
    /\ reader[j] = "reading"
    /\ IF read[j] < printed[j] THEN PutLine(j) ELSE OutputEnds(j) /\ PutMarker(j)
    /\ UNCHANGED <<jobs, proc, tuner, printed, pc, job, op, item, snap, file, history, crashes>>

----------------------------------------------------------------------------
(* The event loop.                                                             *)

\* Places of a generator between two awaits.
Held == {"check", "reap", "settle", "snapshot", "truncate", "write"}
LoopFree(s) == \A t \in Streams \ {s} : pc[t] \notin Held

\* A stream goes on when no other one holds the loop; a caller is a thread.
Scheduled(p) == p \in Callers \/ LoopFree(p)

----------------------------------------------------------------------------
(* _persist_jobs: copy under the lock, then open and write the file without it. *)

Snapshot(p) ==
    /\ pc[p] = "snapshot"
    /\ snap' = [snap EXCEPT ![p] = [j \in Jobs |-> [status |-> status[j], lines |-> lines[j]]]]
    /\ Goto(p, "truncate")
    /\ UNCHANGED <<jobs, queue, child, job, op, item, file, history, crashes>>

Truncate(p) ==
    /\ pc[p] = "truncate"
    /\ file' = Unparsable("empty")
    /\ Goto(p, "write")
    /\ UNCHANGED <<jobs, queue, child, job, op, item, snap, history, crashes>>

\* The client gets the line the stream took.
Send(s) ==
    /\ sent' = [sent EXCEPT ![s] = Append(@, item[s])]
    /\ item' = [item EXCEPT ![s] = Sentinel]

\* The generator ends and its connection with it.
Gone(s) ==
    /\ sent' = [sent EXCEPT ![s] = <<>>]
    /\ item' = [item EXCEPT ![s] = Sentinel]

\* What the caller does next: the request's thread starts the reader, the stream
\* sends the line it saved, or __DONE__.
After(p) ==
    /\ Goto(p, CASE op[p] \in {"start", "cancel"} -> "idle"
                 [] op[p] = "line" -> "get"
                 [] op[p] = "end" -> "ended")
    /\ reader' = IF op[p] = "start" THEN [reader EXCEPT ![job[p]] = "reading"] ELSE reader
    /\ IF op[p] = "line" THEN Send(p) ELSE UNCHANGED <<sent, item>>
    /\ snap' = [snap EXCEPT ![p] = NoJobs]
    /\ op' = [op EXCEPT ![p] = "none"]

\* Somebody wrote since this caller truncated the file: what is longer sticks out.
Write(p) ==
    /\ pc[p] = "write"
    /\ \/ file' = Saved(snap[p])
       \/ file.state # "empty" /\ file' = Unparsable("garbled")
    /\ After(p)
    /\ UNCHANGED <<jobs, queue, proc, tuner, printed, read, job, clients, lost, crashes>>

\* Any of it may raise: a full disk, or a job inserted while the copy iterates.  The
\* request fails with its thread, the generator takes the connection with it.
PersistRaises(p) ==
    /\ pc[p] \in {"snapshot", "truncate", "write"}
    /\ IF p \in Callers THEN Goto(p, "idle") /\ UNCHANGED <<sent, item>>
                        ELSE Goto(p, "gone") /\ Gone(p)
    /\ snap' = [snap EXCEPT ![p] = NoJobs]
    /\ op' = [op EXCEPT ![p] = "none"]
    /\ UNCHANGED <<jobs, queue, child, job, file, clients, lost, crashes>>

----------------------------------------------------------------------------
(* /run and /cancel.                                                           *)

start_optimize(c, j) ==
    /\ pc[c] = "idle" /\ proc[j] = "none"
    /\ proc' = [proc EXCEPT ![j] = "alive"]
    /\ Becomes(j, "running")
    /\ job' = [job EXCEPT ![c] = j]
    /\ op' = [op EXCEPT ![c] = "start"]
    /\ Goto(c, "snapshot")
    /\ UNCHANGED <<lines, queue, tuner, printed, read, reader, item, snap, file, history, crashes>>

cancel_job(c, j) ==
    /\ pc[c] = "idle" /\ status[j] = "running"
    /\ job' = [job EXCEPT ![c] = j]
    /\ Goto(c, "poll")
    /\ UNCHANGED <<jobs, queue, child, op, item, snap, file, history, crashes>>

\* A process that has ended by itself is not signalled and yet "cancelled".
Poll(c) ==
    /\ pc[c] = "poll"
    /\ IF proc[job[c]] \in Running
       THEN proc' = [proc EXCEPT ![job[c]] = "signalled"] /\ Goto(c, "wait")
       ELSE Goto(c, "mark") /\ UNCHANGED proc
    /\ UNCHANGED <<jobs, queue, tuner, printed, read, reader, job, op, item, snap, file, history, crashes>>

TerminateFails(c) ==
    /\ pc[c] = "poll" /\ proc[job[c]] \in Running
    /\ Goto(c, "idle")
    /\ UNCHANGED <<jobs, queue, child, job, op, item, snap, file, history, crashes>>

\* Mutant: the cancellation does not kill what ignores it.
WaitOrKill_NoKill(c) ==
    /\ pc[c] = "wait"
    /\ Goto(c, "mark")
    /\ UNCHANGED <<jobs, queue, child, job, op, item, snap, file, history, crashes>>

\* Three seconds, then SIGKILL: of the child, not of what it started.
WaitOrKill(c) ==
    /\ pc[c] = "wait"
    /\ proc' = [proc EXCEPT ![job[c]] = IF @ \in Running THEN "error" ELSE @]
    /\ Parentless(job[c])
    /\ Goto(c, "mark")
    /\ UNCHANGED <<jobs, queue, printed, read, reader, job, op, item, snap, file, history, crashes>>

\* The status is not looked at again.
Mark(c) ==
    /\ pc[c] = "mark"
    /\ Becomes(job[c], "cancelled")
    /\ Goto(c, "note")
    /\ UNCHANGED <<lines, queue, child, job, op, item, snap, file, history, crashes>>

\* Nobody can tell the note and the end marker apart in time.
NoteCancel(c) ==
    /\ pc[c] = "note"
    /\ lines' = [lines EXCEPT ![job[c]] = Append(@, Note)]
    /\ queue' = [queue EXCEPT ![job[c]] = Append(@, Sentinel)]
    /\ op' = [op EXCEPT ![c] = "cancel"]
    /\ Goto(c, "snapshot")
    /\ UNCHANGED <<status, had, child, job, item, snap, file, history, crashes>>

----------------------------------------------------------------------------
(* /stream.                                                                    *)

stream_optimize(s, j) ==
    /\ pc[s] = "idle" /\ status[j] # "absent" /\ LoopFree(s)
    /\ job' = [job EXCEPT ![s] = j]
    /\ clients' = [clients EXCEPT ![j] = @ \cup {s}]
    /\ Goto(s, "replay")
    /\ UNCHANGED <<jobs, queue, child, op, item, snap, file, sent, lost, crashes>>

Replay(s) ==
    /\ pc[s] = "replay" /\ LoopFree(s)
    /\ IF Len(sent[s]) < Len(lines[job[s]])
       THEN /\ sent' = [sent EXCEPT ![s] = Append(@, lines[job[s]][Len(@) + 1])]
            /\ UNCHANGED pc
       ELSE Goto(s, "check") /\ UNCHANGED sent
    /\ UNCHANGED <<jobs, queue, child, job, op, item, snap, file, clients, lost, crashes>>

\* Of a finished job __DONE__ follows at once.
CheckStatus(s) ==
    /\ pc[s] = "check"
    /\ Goto(s, IF status[job[s]] = "running" THEN "get" ELSE "ended")
    /\ UNCHANGED <<jobs, queue, child, job, op, item, snap, file, history, crashes>>

\* In an executor's thread.  When it times out the client gets a keepalive.
Take(s) ==
    /\ pc[s] = "get" /\ queue[job[s]] # <<>>
    /\ item' = [item EXCEPT ![s] = Head(queue[job[s]])]
    /\ queue' = [queue EXCEPT ![job[s]] = Tail(@)]
    /\ Goto(s, "got")
    /\ UNCHANGED <<jobs, child, job, op, snap, file, history, crashes>>

\* Mutant: the line is captured again after the save.
Capture_Twice(s) ==
    /\ lines' = [lines EXCEPT ![job[s]] = Append(Append(@, item[s]), item[s])]

Capture(s) ==
    /\ lines' = [lines EXCEPT ![job[s]] = Append(@, item[s])]

GotLine(s) ==
    /\ pc[s] = "got" /\ item[s] # Sentinel /\ LoopFree(s)
    /\ Capture(s)
    /\ IF Len(lines'[job[s]]) % PersistEvery = 0
       THEN Goto(s, "snapshot") /\ op' = [op EXCEPT ![s] = "line"] /\ UNCHANGED <<sent, item>>
       ELSE Goto(s, "get") /\ Send(s) /\ UNCHANGED op
    /\ UNCHANGED <<status, had, queue, child, job, snap, file, clients, lost, crashes>>

\* At the end marker the loop waits for the process...
GotMarker(s) ==
    /\ pc[s] = "got" /\ item[s] = Sentinel /\ LoopFree(s)
    /\ Goto(s, "reap")
    /\ UNCHANGED <<jobs, queue, child, job, op, item, snap, file, history, crashes>>

Reap(s) ==
    /\ pc[s] = "reap" /\ proc[job[s]] \notin Running
    /\ IF status[job[s]] = "running"
       THEN Goto(s, "settle") /\ UNCHANGED op
       ELSE Goto(s, "snapshot") /\ op' = [op EXCEPT ![s] = "end"]
    /\ UNCHANGED <<jobs, queue, child, job, item, snap, file, history, crashes>>

\* ...and the status that was still running is replaced, by then perhaps another.
Settle(s) ==
    /\ pc[s] = "settle"
    /\ Becomes(job[s], IF proc[job[s]] = "ok" THEN "done" ELSE "failed")
    /\ op' = [op EXCEPT ![s] = "end"]
    /\ Goto(s, "snapshot")
    /\ UNCHANGED <<lines, queue, child, job, item, snap, file, history, crashes>>

\* A client leaves while its generator awaits.  What the generator holds is lost; if
\* it awaits the queue, the executor's thread goes on for up to a second...
Disconnect(s) ==
    /\ pc[s] \in {"replay", "get", "got"}
    /\ \/ Goto(s, "gone")
       \/ pc[s] = "get" /\ Goto(s, "orphan")
    /\ lost' = IF pc[s] = "got" THEN [lost EXCEPT ![job[s]] = @ \cup {item[s]}] ELSE lost
    /\ Gone(s)
    /\ UNCHANGED <<jobs, queue, child, job, op, snap, file, clients, crashes>>

\* ...and takes what comes.
TakeForNobody(s) ==
    /\ pc[s] = "orphan"
    /\ IF queue[job[s]] # <<>>
       THEN /\ lost' = [lost EXCEPT ![job[s]] = @ \cup {Head(queue[job[s]])}]
            /\ queue' = [queue EXCEPT ![job[s]] = Tail(@)]
       ELSE UNCHANGED <<queue, lost>>
    /\ Goto(s, "gone")
    /\ UNCHANGED <<jobs, child, job, op, item, snap, file, sent, clients, crashes>>

----------------------------------------------------------------------------
(* A restart.                                                                  *)

\* Mutant: a running job is loaded as it was saved.
Loaded_AsSaved(j) ==
    file.jobs[j]

\* Mutant: a running job is loaded as unknown.
Loaded_Unknown(j) ==
    [file.jobs[j] EXCEPT !.status = IF @ = "running" THEN "unknown" ELSE @]

\* _load_jobs.
Loaded(j) ==
    [file.jobs[j] EXCEPT !.status = IF @ = "running" THEN "interrupted" ELSE @]

\* systemd ends the service's processes, all of them; requests, threads and connections
\* end; what was in the queue is gone.
Crash ==
    /\ crashes < MaxCrashes
    /\ crashes' = crashes + 1
    /\ status' = [j \in Jobs |-> Loaded(j).status]
    /\ lines' = [j \in Jobs |-> Loaded(j).lines]
    /\ had' = [j \in Jobs |-> had[j] \cup {status'[j]}]
    /\ queue' = [j \in Jobs |-> <<>>]
    /\ proc' = [j \in Jobs |-> IF proc[j] = "none" THEN "none" ELSE "gone"]
    /\ tuner' = [j \in Jobs |-> IF proc[j] = "none" THEN "pending" ELSE "over"]
    /\ reader' = [j \in Jobs |-> "none"]
    /\ printed' = [j \in Jobs |-> 0] /\ read' = [j \in Jobs |-> 0]
    /\ pc' = [p \in Procs |-> IF p \in Callers \/ pc[p] = "idle" THEN "idle" ELSE "gone"]
    /\ op' = [p \in Procs |-> "none"]
    /\ item' = [s \in Streams |-> Sentinel]
    /\ snap' = [p \in Procs |-> NoJobs]
    /\ sent' = [s \in Streams |-> <<>>]
    /\ clients' = [j \in Jobs |-> {}] /\ lost' = [j \in Jobs |-> {}]
    /\ UNCHANGED <<job, file>>

Persist(p) == Scheduled(p) /\ (Snapshot(p) \/ Truncate(p) \/ Write(p) \/ PersistRaises(p))

Cancelling(c) ==
    \/ Poll(c) \/ TerminateFails(c) \/ WaitOrKill(c) \/ Mark(c) \/ NoteCancel(c)

Streaming(s) ==
    \/ Replay(s) \/ CheckStatus(s) \/ Take(s) \/ GotLine(s) \/ GotMarker(s)
    \/ Reap(s) \/ Settle(s) \/ TakeForNobody(s)

\* What the machine does by itself: threads are scheduled, the loop runs what is
\* ready, and processes end.
Work ==
    \/ \E j \in Jobs : ReadLine(j) \/ EndTuner(j) \/ Exit(j)
    \/ \E p \in Procs : Persist(p)
    \/ \E s \in Streams : Streaming(s)

\* What processes start and print, clients and operators do, and restarts.
Environment ==
    \/ \E j \in Jobs : StartTuner(j) \/ PrintLine(j)
    \/ \E c \in Callers : Cancelling(c) \/ \E j \in Jobs : start_optimize(c, j) \/ cancel_job(c, j)
    \/ \E s \in Streams : Disconnect(s) \/ \E j \in Jobs : stream_optimize(s, j)
    \/ Crash

JobsNext == Work \/ Environment

\* Some step that is ready is taken; every one brings its job or request nearer its end.
JobsSpec == JobsInit /\ [][JobsNext]_vars /\ WF_vars(Work)

----------------------------------------------------------------------------
(* Properties.                                                                 *)

Statuses == {"absent", "running", "done", "failed", "cancelled", "interrupted"}
CallerPlaces == {"idle", "poll", "wait", "mark", "note", "snapshot", "truncate", "write"}
StreamPlaces == {"idle", "replay", "check", "get", "got", "reap", "settle", "snapshot",
                 "truncate", "write", "ended", "gone", "orphan"}

Dicts == [Jobs -> [status : Statuses, lines : Seq(Lines \cup {Note})]]

\* The shape of the state.
JobsTypeOK ==
    /\ status \in [Jobs -> Statuses] /\ had \in [Jobs -> SUBSET Statuses]
    /\ \A j \in Jobs : status[j] \in had[j]
    /\ lines \in [Jobs -> Seq(Lines \cup {Note})]
    /\ queue \in [Jobs -> Seq(Lines \cup {Sentinel})]
    /\ proc \in [Jobs -> Running \cup {"none", "ok", "error", "gone"}]
    /\ tuner \in [Jobs -> {"pending", "working", "over"}]
    /\ reader \in [Jobs -> {"none", "reading", "ended"}]
    /\ printed \in [Jobs -> 0 .. MaxLines] /\ read \in [Jobs -> 0 .. MaxLines]
    /\ \A j \in Jobs : read[j] <= printed[j]
    /\ pc \in [Procs -> CallerPlaces \cup StreamPlaces]
    /\ \A c \in Callers : pc[c] \in CallerPlaces
    /\ \A s \in Streams : pc[s] \in StreamPlaces
    /\ job \in [Procs -> Jobs]
    /\ op \in [Procs -> {"none", "start", "cancel", "line", "end"}]
    /\ item \in [Streams -> Lines \cup {Sentinel}]
    /\ file \in [state : {"empty", "garbled", "saved"}, jobs : Dicts]
    /\ snap \in [Procs -> Dicts]
    /\ sent \in [Streams -> Seq(Lines \cup {Note})]
    /\ clients \in [Jobs -> SUBSET Streams]
    /\ lost \in [Jobs -> SUBSET (Lines \cup {Sentinel})]
    /\ crashes \in 0 .. MaxCrashes

At(n, q) == {i \in DOMAIN q : q[i] = n}

\* Every line the processes printed is in one place, once: still in the pipe, in the
\* queue, in the hands of one stream, among the captured lines, or taken for a client
\* that had left.
EachLineOnce ==
    \A j \in Jobs : \A n \in 1 .. printed[j] :
        (IF n > read[j] THEN 1 ELSE 0)
          + Cardinality(At(n, queue[j])) + Cardinality(At(n, lines[j]))
          + Cardinality({s \in Streams : job[s] = j /\ pc[s] = "got" /\ item[s] = n})
          + (IF n \in lost[j] THEN 1 ELSE 0) = 1

\* A job that is reported done, failed or cancelled has no child at work, and one that is
\* reported done or failed no optimizer either, however cancellations and streams race
\* for its status and whoever put the end marker.  The optimizer of a cancelled job may
\* still print and write its parameter file: the cancellation ends the child alone.
FinalMeansEnded ==
    \A j \in Jobs :
        /\ status[j] \in {"done", "failed", "cancelled"} => proc[j] \notin Running
        /\ status[j] \in {"done", "failed"} => tuner[j] # "working"

\* A client that streamed alone to the end of a job nobody cancelled got every line that
\* was printed, in order, whatever it met on the way: saves, and output that goes on
\* after the child.
LoneClientGotAll ==
    \A s \in Streams : \A j \in Jobs :
        pc[s] = "ended" /\ job[s] = j /\ clients[j] = {s} /\ status[j] \in {"done", "failed"}
            /\ "cancelled" \notin had[j] /\ proc[j] # "gone"
        => sent[s] = [n \in 1 .. printed[j] |-> n]

Lifecycle == INSTANCE JobLifecycle WITH Jobs <- Jobs, status <- status, had <- had

\* The statuses keep the promise of JobLifecycle: no job runs twice or again, an
\* interrupted one stays so, and a restart loads a status of the past, also when saves
\* of a stream, a start and a cancellation overlap and the process dies between them.
ImplementsJobLifecycle == Lifecycle!Spec

\* A client that streams alone and stays is told __DONE__, or its job is lost: to a
\* restart, or to a save that raised before the reader was started.
LoneClientIsTold ==
    \A s \in Streams : \A j \in Jobs :
        (/\ job[s] = j /\ pc[s] \notin {"idle", "ended", "gone", "orphan"} /\ clients[j] = {s}
         /\ \/ reader[j] # "none"
            \/ pc[s] \in {"replay", "check"} /\ status[j] # "running")
        ~> (pc[s] \in {"ended", "gone", "orphan"} \/ clients[j] # {s})
====
