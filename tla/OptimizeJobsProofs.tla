---- MODULE OptimizeJobsProofs ----
(* Theorems about OptimizeJobs, for any number of jobs, clients, callers, lines *)
(* and restarts.                                                                 *)
EXTENDS OptimizeJobs, SequenceTheorems, FiniteSetTheorems, TLAPS

----------------------------------------------------------------------------
(* Type correctness, in four parts: the processes' output, the places, the store *)
(* of the jobs, and what clients got.                                           *)

Saving == {"snapshot", "truncate", "write"}

PipeType ==
    /\ queue \in [Jobs -> Seq(Lines \cup {Sentinel})]
    /\ proc \in [Jobs -> Running \cup {"none", "ok", "error", "gone"}]
    /\ tuner \in [Jobs -> {"pending", "working", "over"}]
    /\ reader \in [Jobs -> {"none", "reading", "ended"}]
    /\ printed \in [Jobs -> 0 .. MaxLines] /\ read \in [Jobs -> 0 .. MaxLines]
    /\ \A j \in Jobs : read[j] <= printed[j]

\* Whoever saves knows why; a stream then still holds its line.
PlacesType ==
    /\ pc \in [Procs -> CallerPlaces \cup StreamPlaces]
    /\ \A c \in Callers : pc[c] \in CallerPlaces
    /\ \A s \in Streams : pc[s] \in StreamPlaces
    /\ job \in [Procs -> Jobs]
    /\ op \in [Procs -> {"none", "start", "cancel", "line", "end"}]
    /\ item \in [Streams -> Lines \cup {Sentinel}]
    /\ \A c \in Callers : pc[c] \in Saving => op[c] \in {"start", "cancel"}
    /\ \A s \in Streams : pc[s] \in Saving => op[s] \in {"line", "end"}
    /\ \A s \in Streams : pc[s] \in Saving /\ op[s] = "line" => item[s] \in Lines

StoreType ==
    /\ status \in [Jobs -> Statuses] /\ had \in [Jobs -> SUBSET Statuses]
    /\ \A j \in Jobs : status[j] \in had[j]
    /\ lines \in [Jobs -> Seq(Lines \cup {Note})]
    /\ file \in [state : {"empty", "garbled", "saved"}, jobs : Dicts]
    /\ snap \in [Procs -> Dicts]

SentType ==
    /\ sent \in [Streams -> Seq(Lines \cup {Note})]
    /\ clients \in [Jobs -> SUBSET Streams]
    /\ lost \in [Jobs -> SUBSET (Lines \cup {Sentinel})]
    /\ crashes \in 0 .. MaxCrashes

TypeInv == PipeType /\ PlacesType /\ StoreType /\ SentType

\* Lines are told apart from the end marker and from the note of a cancellation.
LEMMA LineTypes == Sentinel \notin Lines /\ Note \notin Lines /\ Sentinel # Note
  BY JobsAssumption DEF Sentinel, Note, Lines

\* A dictionary without jobs is a dictionary.
LEMMA NoJobsType == NoJobs \in Dicts
<1>1. <<>> \in Seq(Lines \cup {Note}) /\ "absent" \in Statuses
  BY DEF Statuses
<1>2. Nobody \in [status : Statuses, lines : Seq(Lines \cup {Note})]
  BY <1>1 DEF Nobody
<1> QED
  BY <1>2 DEF NoJobs, Dicts

\* What is appended to a queue, to the lines or to what was sent.
LEMMA AppendType ==
    ASSUME NEW S, NEW D, NEW f \in [D -> Seq(S)], NEW d \in D, NEW e \in S
    PROVE  [f EXCEPT ![d] = Append(@, e)] \in [D -> Seq(S)]
<1>1. Append(f[d], e) \in Seq(S)
  OBVIOUS
<1> QED
  BY <1>1

\* What is taken from a queue.
LEMMA TailType ==
    ASSUME NEW S, NEW D, NEW f \in [D -> Seq(S)], NEW d \in D, f[d] # <<>>
    PROVE  /\ Head(f[d]) \in S
           /\ [f EXCEPT ![d] = Tail(@)] \in [D -> Seq(S)]
<1>1. Head(f[d]) \in S /\ Tail(f[d]) \in Seq(S)
  BY HeadTailProperties
<1> QED
  BY <1>1

\* Type correctness of the processes, their readers and the queues.
LEMMA PipeTyped == ASSUME TypeInv, [JobsNext]_vars PROVE PipeType'
<1> USE LineTypes, JobsAssumption DEF TypeInv, PlacesType, PipeType, Procs, Running
<1>1. ASSUME NEW j \in Jobs, StartTuner(j) \/ EndTuner(j) \/ PrintLine(j) PROVE PipeType'
  <2>1. CASE StartTuner(j) \/ EndTuner(j)
    BY <2>1 DEF StartTuner, EndTuner
  <2>2. CASE PrintLine(j)
    BY <2>2 DEF PrintLine
  <2> QED
    BY <1>1, <2>1, <2>2
<1>2. ASSUME NEW j \in Jobs, Exit(j) PROVE PipeType'
  BY <1>2 DEF Exit, Parentless
<1>3. ASSUME NEW j \in Jobs, ReadLine(j) PROVE PipeType'
  <2>1. CASE read[j] < printed[j] /\ PutLine(j)
    <3>1. read[j] + 1 \in Lines \cup {Sentinel}
      BY <2>1 DEF Lines
    <3>2. queue' \in [Jobs -> Seq(Lines \cup {Sentinel})]
      BY <2>1, <3>1, AppendType DEF PutLine
    <3> QED
      BY <1>3, <2>1, <3>2 DEF ReadLine, PutLine
  <2>2. CASE PutMarker(j)
    <3>1. queue' \in [Jobs -> Seq(Lines \cup {Sentinel})]
      BY <2>2, AppendType DEF PutMarker
    <3> QED
      BY <1>3, <2>2, <3>1 DEF ReadLine, PutMarker
  <2> QED
    BY <1>3, <2>1, <2>2 DEF ReadLine
<1>4. ASSUME NEW p \in Procs, Persist(p) PROVE PipeType'
  BY <1>4 DEF Persist, Snapshot, Truncate, Write, PersistRaises, After, child
<1>5. ASSUME NEW c \in Callers, NEW j \in Jobs, start_optimize(c, j) \/ cancel_job(c, j) PROVE PipeType'
  BY <1>5 DEF start_optimize, cancel_job, child
<1>6. ASSUME NEW c \in Callers, Cancelling(c) PROVE PipeType'
  <2>1. CASE NoteCancel(c)
    <3>1. queue' \in [Jobs -> Seq(Lines \cup {Sentinel})]
      BY <2>1, AppendType DEF NoteCancel
    <3> QED
      BY <2>1, <3>1 DEF NoteCancel, child
  <2>2. CASE Poll(c)
    BY <2>2 DEF Poll
  <2>3. CASE WaitOrKill(c)
    BY <2>3 DEF WaitOrKill, Parentless
  <2>4. CASE TerminateFails(c) \/ Mark(c)
    BY <2>4 DEF TerminateFails, Mark, child
  <2> QED
    BY <1>6, <2>1, <2>2, <2>3, <2>4 DEF Cancelling
<1>7. ASSUME NEW s \in Streams, Take(s) \/ TakeForNobody(s) PROVE PipeType'
  <2>1. queue[job[s]] # <<>> => [queue EXCEPT ![job[s]] = Tail(@)] \in [Jobs -> Seq(Lines \cup {Sentinel})]
    BY TailType
  <2>2. queue' \in [Jobs -> Seq(Lines \cup {Sentinel})]
    BY <1>7, <2>1 DEF Take, TakeForNobody
  <2> QED
    BY <1>7, <2>2 DEF Take, TakeForNobody, child
<1>8. ASSUME NEW s \in Streams,
             \/ Replay(s) \/ CheckStatus(s) \/ GotLine(s) \/ GotMarker(s) \/ Reap(s) \/ Settle(s)
             \/ Disconnect(s) \/ \E j \in Jobs : stream_optimize(s, j)
      PROVE  PipeType'
  BY <1>8 DEF Replay, CheckStatus, GotLine, GotMarker, Reap, Settle, Disconnect, stream_optimize, child
<1>9. CASE Crash
  <2>1. /\ queue' = [j \in Jobs |-> <<>>] /\ reader' = [j \in Jobs |-> "none"]
        /\ printed' = [j \in Jobs |-> 0] /\ read' = [j \in Jobs |-> 0]
        /\ proc' \in [Jobs -> {"none", "gone"}] /\ tuner' \in [Jobs -> {"pending", "over"}]
    BY <1>9 DEF Crash
  <2> QED
    BY <2>1
<1>10. CASE UNCHANGED vars
  BY <1>10 DEF vars, child
<1> QED
  BY <1>1, <1>2, <1>3, <1>4, <1>5, <1>6, <1>7, <1>8, <1>9, <1>10
     DEF JobsNext, Work, Environment, Streaming

\* Type correctness of the places of callers and streams.
LEMMA PlacesTyped == ASSUME TypeInv, [JobsNext]_vars PROVE PlacesType'
<1> USE LineTypes, JobsAssumption
    DEF TypeInv, PlacesType, Procs, Saving, CallerPlaces, StreamPlaces, Goto
<1>1. ASSUME NEW j \in Jobs, StartTuner(j) \/ EndTuner(j) \/ PrintLine(j) \/ Exit(j) \/ ReadLine(j)
      PROVE  PlacesType'
  BY <1>1 DEF StartTuner, EndTuner, PrintLine, Exit, ReadLine
<1>2. ASSUME NEW p \in Procs, Persist(p) PROVE PlacesType'
  <2>1. CASE Snapshot(p) \/ Truncate(p)
    BY <2>1 DEF Snapshot, Truncate
  <2>2. CASE Write(p)
    <3>1. op[p] \in {"start", "cancel", "line", "end"}
      BY <2>2 DEF Write
    <3>2. pc'[p] \notin Saving /\ pc' = [pc EXCEPT ![p] = pc'[p]]
      BY <2>2, <3>1 DEF Write, After
    <3>3. p \in Callers => pc'[p] \in CallerPlaces
      BY <2>2, <3>1 DEF Write, After
    <3>4. p \in Streams => pc'[p] \in StreamPlaces
      BY <2>2, <3>1 DEF Write, After
    <3>5. \/ UNCHANGED item
          \/ p \in Streams /\ item' = [item EXCEPT ![p] = Sentinel]
      BY <2>2, <3>1 DEF Write, After, Send
    <3>6. op' = [op EXCEPT ![p] = "none"] /\ job' = job
      BY <2>2 DEF Write, After
    <3> QED
      BY <3>2, <3>3, <3>4, <3>5, <3>6
  <2>3. CASE PersistRaises(p)
    BY <2>3 DEF PersistRaises, Gone
  <2> QED
    BY <1>2, <2>1, <2>2, <2>3 DEF Persist
<1>3. ASSUME NEW c \in Callers, NEW j \in Jobs, start_optimize(c, j) \/ cancel_job(c, j) PROVE PlacesType'
  BY <1>3 DEF start_optimize, cancel_job
<1>4. ASSUME NEW c \in Callers, Cancelling(c) PROVE PlacesType'
  BY <1>4 DEF Cancelling, Poll, TerminateFails, WaitOrKill, Mark, NoteCancel
<1>5. ASSUME NEW s \in Streams, NEW j \in Jobs, stream_optimize(s, j) PROVE PlacesType'
  BY <1>5 DEF stream_optimize
<1>6. ASSUME NEW s \in Streams, Replay(s) \/ CheckStatus(s) \/ GotMarker(s) \/ Reap(s) \/ Settle(s) PROVE PlacesType'
  BY <1>6 DEF Replay, CheckStatus, GotMarker, Reap, Settle
<1>7. ASSUME NEW s \in Streams, Take(s) PROVE PlacesType'
  <2>1. Head(queue[job[s]]) \in Lines \cup {Sentinel}
    BY <1>7, TailType DEF Take, PipeType
  <2> QED
    BY <1>7, <2>1 DEF Take
<1>8. ASSUME NEW s \in Streams, GotLine(s) PROVE PlacesType'
  <2>1. \/ UNCHANGED item /\ pc' = [pc EXCEPT ![s] = "snapshot"] /\ op' = [op EXCEPT ![s] = "line"]
        \/ /\ item' = [item EXCEPT ![s] = Sentinel]
           /\ pc' = [pc EXCEPT ![s] = "get"] /\ UNCHANGED op
    BY <1>8 DEF GotLine, Send
  <2>2. item[s] \in Lines /\ job' = job
    BY <1>8 DEF GotLine
  <2> QED
    BY <2>1, <2>2
<1>9. ASSUME NEW s \in Streams, Disconnect(s) \/ TakeForNobody(s) PROVE PlacesType'
  BY <1>9 DEF Disconnect, TakeForNobody, Gone
<1>10. CASE Crash
  <2>1. /\ pc' \in [Procs -> {"idle", "gone"}] /\ \A c \in Callers : pc'[c] = "idle"
        /\ op' = [p \in Procs |-> "none"] /\ item' = [s \in Streams |-> Sentinel] /\ job' = job
    BY <1>10 DEF Crash
  <2> QED
    BY <2>1
<1>11. CASE UNCHANGED vars
  BY <1>11 DEF vars
<1> QED
  BY <1>1, <1>2, <1>3, <1>4, <1>5, <1>6, <1>7, <1>8, <1>9, <1>10, <1>11
     DEF JobsNext, Work, Environment, Streaming

\* Type correctness of the jobs, the copies being saved and the file.
LEMMA StoreTyped == ASSUME TypeInv, [JobsNext]_vars PROVE StoreType'
<1> USE LineTypes, JobsAssumption
    DEF TypeInv, PlacesType, StoreType, Procs, Statuses, Becomes, jobs
<1>1. ASSUME NEW j \in Jobs, StartTuner(j) \/ EndTuner(j) \/ PrintLine(j) \/ Exit(j) \/ ReadLine(j)
      PROVE  StoreType'
  BY <1>1 DEF StartTuner, EndTuner, PrintLine, Exit, ReadLine
<1>2. ASSUME NEW p \in Procs, Persist(p) PROVE StoreType'
  <2>1. [j \in Jobs |-> [status |-> status[j], lines |-> lines[j]]] \in Dicts
    BY DEF Dicts
  <2>2. UNCHANGED <<status, had, lines>>
    BY <1>2 DEF Persist, Snapshot, Truncate, Write, PersistRaises
  <2>3. snap' \in [Procs -> Dicts]
    <3>1. CASE Snapshot(p)
      BY <2>1, <3>1 DEF Snapshot
    <3>2. CASE Truncate(p)
      BY <3>2 DEF Truncate
    <3>3. CASE Write(p) \/ PersistRaises(p)
      <4>1. snap' = [snap EXCEPT ![p] = NoJobs]
        BY <3>3 DEF Write, PersistRaises, After
      <4> QED
        BY <4>1, NoJobsType
    <3> QED
      BY <1>2, <3>1, <3>2, <3>3 DEF Persist
  <2>4. file' \in [state : {"empty", "garbled", "saved"}, jobs : Dicts]
    <3>1. CASE Truncate(p)
      BY <3>1, NoJobsType DEF Truncate, Unparsable
    <3>2. CASE Write(p)
      BY <3>2, NoJobsType DEF Write, Unparsable, Saved
    <3> QED
      BY <1>2, <3>1, <3>2 DEF Persist, Snapshot, PersistRaises
  <2> QED
    BY <2>2, <2>3, <2>4
<1>3. ASSUME NEW c \in Callers, NEW j \in Jobs, start_optimize(c, j) \/ cancel_job(c, j) PROVE StoreType'
  <2>1. CASE start_optimize(c, j)
    BY <2>1 DEF start_optimize
  <2>2. CASE cancel_job(c, j)
    BY <2>2 DEF cancel_job
  <2> QED
    BY <1>3, <2>1, <2>2
<1>4. ASSUME NEW c \in Callers, Cancelling(c) PROVE StoreType'
  <2>1. CASE NoteCancel(c)
    <3>1. lines' \in [Jobs -> Seq(Lines \cup {Note})]
      BY <2>1, AppendType DEF NoteCancel
    <3> QED
      BY <2>1, <3>1 DEF NoteCancel
  <2>2. CASE Mark(c)
    BY <2>2 DEF Mark
  <2>3. CASE Poll(c) \/ TerminateFails(c) \/ WaitOrKill(c)
    BY <2>3 DEF Poll, TerminateFails, WaitOrKill
  <2> QED
    BY <1>4, <2>1, <2>2, <2>3 DEF Cancelling
<1>5. ASSUME NEW s \in Streams,
             \/ Replay(s) \/ CheckStatus(s) \/ GotMarker(s) \/ Take(s) \/ TakeForNobody(s)
             \/ Disconnect(s) \/ Reap(s) \/ \E j \in Jobs : stream_optimize(s, j)
      PROVE  StoreType'
  BY <1>5 DEF Replay, CheckStatus, GotMarker, Take, TakeForNobody, Disconnect, Reap, stream_optimize
<1>6. ASSUME NEW s \in Streams, Settle(s) PROVE StoreType'
  BY <1>6 DEF Settle
<1>7. ASSUME NEW s \in Streams, GotLine(s) PROVE StoreType'
  <2>1. item[s] \in Lines \cup {Note}
    BY <1>7 DEF GotLine
  <2>2. lines' \in [Jobs -> Seq(Lines \cup {Note})]
    BY <1>7, <2>1, AppendType DEF GotLine, Capture
  <2> QED
    BY <1>7, <2>2 DEF GotLine
<1>8. CASE Crash
  <2>1. \A j \in Jobs : Loaded(j).status \in Statuses /\ Loaded(j).lines \in Seq(Lines \cup {Note})
    BY DEF Loaded, Dicts
  <2>2. /\ status' \in [Jobs -> Statuses] /\ lines' \in [Jobs -> Seq(Lines \cup {Note})]
        /\ had' \in [Jobs -> SUBSET Statuses]
        /\ \A j \in Jobs : status'[j] \in had'[j]
    BY <1>8, <2>1 DEF Crash
  <2>3. snap' \in [Procs -> Dicts] /\ file' = file
    BY <1>8, NoJobsType DEF Crash
  <2> QED
    BY <2>2, <2>3
<1>9. CASE UNCHANGED vars
  BY <1>9 DEF vars
<1> QED
  BY <1>1, <1>2, <1>3, <1>4, <1>5, <1>6, <1>7, <1>8, <1>9
     DEF JobsNext, Work, Environment, Streaming

\* Type correctness of what clients got.
LEMMA SentTyped == ASSUME TypeInv, [JobsNext]_vars PROVE SentType'
<1> USE LineTypes, JobsAssumption DEF TypeInv, PlacesType, SentType, Procs, history
<1>1. ASSUME NEW j \in Jobs, StartTuner(j) \/ EndTuner(j) \/ PrintLine(j) \/ Exit(j) \/ ReadLine(j)
      PROVE  SentType'
  BY <1>1 DEF StartTuner, EndTuner, PrintLine, Exit, ReadLine
<1>2. ASSUME NEW p \in Procs, Persist(p) PROVE SentType'
  <2>1. CASE Write(p)
    <3>1. UNCHANGED <<clients, lost, crashes>>
      BY <2>1 DEF Write
    <3>2. CASE op[p] = "line"
      <4>1. p \in Streams /\ item[p] \in Lines \cup {Note}
        BY <2>1, <3>2 DEF Write, Saving
      <4>2. sent' = [sent EXCEPT ![p] = Append(@, item[p])]
        BY <2>1, <3>2 DEF Write, After, Send
      <4>3. sent' \in [Streams -> Seq(Lines \cup {Note})]
        BY <4>1, <4>2, AppendType
      <4> QED
        BY <3>1, <4>3
    <3>3. CASE op[p] # "line"
      BY <2>1, <3>1, <3>3 DEF Write, After
    <3> QED
      BY <3>2, <3>3
  <2>2. CASE PersistRaises(p)
    <3>1. UNCHANGED <<clients, lost, crashes>>
      BY <2>2 DEF PersistRaises
    <3>2. UNCHANGED sent \/ (p \in Streams /\ sent' = [sent EXCEPT ![p] = <<>>])
      BY <2>2 DEF PersistRaises, Gone
    <3>3. <<>> \in Seq(Lines \cup {Note})
      OBVIOUS
    <3>4. sent' \in [Streams -> Seq(Lines \cup {Note})]
      BY <3>2, <3>3
    <3> QED
      BY <3>1, <3>4
  <2>3. CASE Snapshot(p) \/ Truncate(p)
    BY <2>3 DEF Snapshot, Truncate
  <2> QED
    BY <1>2, <2>1, <2>2, <2>3 DEF Persist
<1>3. ASSUME NEW c \in Callers, Cancelling(c) \/ \E j \in Jobs : start_optimize(c, j) \/ cancel_job(c, j)
      PROVE  SentType'
  BY <1>3 DEF Cancelling, Poll, TerminateFails, WaitOrKill, Mark, NoteCancel, start_optimize, cancel_job
<1>4. ASSUME NEW s \in Streams, NEW j \in Jobs, stream_optimize(s, j) PROVE SentType'
  BY <1>4 DEF stream_optimize
<1>5. ASSUME NEW s \in Streams, CheckStatus(s) \/ GotMarker(s) \/ Take(s) \/ Reap(s) \/ Settle(s) PROVE SentType'
  BY <1>5 DEF CheckStatus, GotMarker, Take, Reap, Settle
<1>6. ASSUME NEW s \in Streams, Replay(s) PROVE SentType'
  <2>1. CASE Len(sent[s]) < Len(lines[job[s]])
    <3>1. Len(sent[s]) \in Nat /\ Len(lines[job[s]]) \in Nat /\ lines[job[s]] \in Seq(Lines \cup {Note})
      BY DEF StoreType
    <3>2. lines[job[s]][Len(sent[s]) + 1] \in Lines \cup {Note}
      BY <2>1, <3>1, ElementOfSeq
    <3>3. sent' = [sent EXCEPT ![s] = Append(@, lines[job[s]][Len(@) + 1])]
      BY <1>6, <2>1 DEF Replay
    <3>4. sent' \in [Streams -> Seq(Lines \cup {Note})]
      BY <3>2, <3>3
    <3> QED
      BY <1>6, <3>4 DEF Replay
  <2> QED
    BY <1>6, <2>1 DEF Replay
<1>7. ASSUME NEW s \in Streams, GotLine(s) PROVE SentType'
  <2>1. item[s] \in Lines \cup {Note}
    BY <1>7 DEF GotLine
  <2>2. UNCHANGED sent \/ sent' = [sent EXCEPT ![s] = Append(@, item[s])]
    BY <1>7 DEF GotLine, Send
  <2>3. [sent EXCEPT ![s] = Append(@, item[s])] \in [Streams -> Seq(Lines \cup {Note})]
    BY <2>1, AppendType
  <2>4. sent' \in [Streams -> Seq(Lines \cup {Note})]
    BY <2>2, <2>3
  <2> QED
    BY <1>7, <2>4 DEF GotLine
<1>8. ASSUME NEW s \in Streams, Disconnect(s) PROVE SentType'
  BY <1>8 DEF Disconnect, Gone
<1>9. ASSUME NEW s \in Streams, TakeForNobody(s) PROVE SentType'
  <2>1. queue[job[s]] # <<>> => Head(queue[job[s]]) \in Lines \cup {Sentinel}
    BY TailType DEF PipeType
  <2>2. CASE queue[job[s]] = <<>>
    BY <1>9, <2>2 DEF TakeForNobody
  <2>3. CASE queue[job[s]] # <<>>
    <3>1. lost' = [lost EXCEPT ![job[s]] = @ \cup {Head(queue[job[s]])}]
      BY <1>9, <2>3 DEF TakeForNobody
    <3>2. lost' \in [Jobs -> SUBSET (Lines \cup {Sentinel})]
      BY <2>1, <2>3, <3>1
    <3> QED
      BY <1>9, <3>2 DEF TakeForNobody
  <2> QED
    BY <2>2, <2>3
<1>10. CASE Crash
  <2>1. /\ sent' = [s \in Streams |-> <<>>] /\ clients' = [j \in Jobs |-> {}]
        /\ lost' = [j \in Jobs |-> {}] /\ crashes' \in 0 .. MaxCrashes
    BY <1>10 DEF Crash
  <2> QED
    BY <2>1
<1>11. CASE UNCHANGED vars
  BY <1>11 DEF vars
<1> QED
  BY <1>1, <1>2, <1>3, <1>4, <1>5, <1>6, <1>7, <1>8, <1>9, <1>10, <1>11
     DEF JobsNext, Work, Environment, Streaming

\* The four parts together are inductive.
LEMMA TypeInvariant == JobsSpec => []TypeInv
<1>1. JobsInit => TypeInv
  <2> SUFFICES ASSUME JobsInit PROVE TypeInv
    OBVIOUS
  <2>1. PipeType /\ SentType
    BY JobsAssumption DEF JobsInit, PipeType, SentType
  <2>2. PlacesType
    <3>1. (CHOOSE j \in Jobs : TRUE) \in Jobs
      BY JobsAssumption
    <3> QED
      BY <3>1 DEF JobsInit, PlacesType, Saving, CallerPlaces, StreamPlaces, Procs
  <2>3. StoreType
    <3>1. file \in [state : {"empty", "garbled", "saved"}, jobs : Dicts] /\ snap \in [Procs -> Dicts]
      BY NoJobsType DEF JobsInit, Unparsable
    <3> QED
      BY <3>1 DEF JobsInit, StoreType, Statuses
  <2> QED
    BY <2>1, <2>2, <2>3 DEF TypeInv
<1>2. TypeInv /\ [JobsNext]_vars => TypeInv'
  BY PipeTyped, PlacesTyped, StoreTyped, SentTyped DEF TypeInv
<1> QED
  BY <1>1, <1>2, PTL DEF JobsSpec

\* JobsSpec keeps every variable in its type; nobody is at a place of the other kind.
THEOREM JobsTypeCorrect == JobsSpec => []JobsTypeOK
<1>1. TypeInv => JobsTypeOK
  BY DEF TypeInv, PipeType, PlacesType, StoreType, SentType, JobsTypeOK
<1> QED
  BY <1>1, TypeInvariant, PTL

----------------------------------------------------------------------------
(* How jobs end.                                                               *)

\* A job that was never started has left no trace, also in the file and in the copies
\* about to be written: a restart cannot make one up.
NoTrace(j) ==
    /\ status[j] = "absent" /\ had[j] = {"absent"} /\ lines[j] = <<>> /\ queue[j] = <<>>
    /\ tuner[j] = "pending" /\ printed[j] = 0 /\ read[j] = 0 /\ reader[j] = "none"
    /\ clients[j] = {} /\ lost[j] = {}
NotSaved(j) == file.jobs[j] = Nobody /\ \A p \in Procs : snap[p][j] = Nobody
NotUsed(j) == \A p \in Procs : job[p] = j => pc[p] = "idle"

StartedInv == \A j \in Jobs : proc[j] = "none" => NoTrace(j) /\ NotSaved(j) /\ NotUsed(j)

\* What is written, or about to be, is a status the job had.
SavedInv ==
    \A j \in Jobs :
        /\ "absent" \in had[j] /\ file.jobs[j].status \in had[j]
        /\ \A p \in Procs : snap[p][j].status \in had[j]

\* One generator at a time is between two awaits.
LoopInv == \A s, t \in Streams : pc[s] \in Held /\ pc[t] \in Held => s = t

\* Whoever is past the wait for the process finds it ended.
Reaped(s) == pc[s] = "settle" \/ (pc[s] \in Saving /\ op[s] = "end")
Killed(c) == pc[c] \in {"mark", "note"} \/ (pc[c] \in Saving /\ op[c] = "cancel")

EndedInv ==
    /\ \A s \in Streams : Reaped(s) => proc[job[s]] \notin Running
    /\ \A c \in Callers : Killed(c) => proc[job[c]] \notin Running

\* Whoever is about to set the status finds a job that was started and is not forgotten.
SettleInv ==
    /\ \A s \in Streams : pc[s] = "settle" => status[job[s]] \in {"running", "cancelled"}
    /\ \A c \in Callers : pc[c] \in {"poll", "wait", "mark"}
                            => status[job[c]] \in {"running", "done", "failed", "cancelled"}

\* A job reported at its end has no child at work.
ChildOver == \A j \in Jobs : status[j] \in {"done", "failed", "cancelled"} => proc[j] \notin Running

EndsInv == StartedInv /\ SavedInv /\ LoopInv /\ EndedInv /\ SettleInv /\ ChildOver

\* A process is started once, ends once, and a restart leaves it behind.
LEMMA ProcStep ==
    ASSUME TypeInv, [JobsNext]_vars, NEW j \in Jobs
    PROVE  /\ proc'[j] = "none" => proc[j] = "none"
           /\ proc[j] = "gone" => proc'[j] = "gone"
           /\ proc'[j] = "gone" => proc[j] = "gone" \/ Crash
           /\ proc'[j] \in Running => proc[j] \in Running \cup {"none"}
           /\ proc[j] = "none" => \/ proc'[j] = "none"
                                  \/ \E c \in Callers : start_optimize(c, j)
<1> USE DEF TypeInv, PipeType, PlacesType, Procs, Running
<1> DEFINE Ends == \E k \in Jobs : \E x \in {"ok", "error", "signalled"} :
                      proc[k] \in Running /\ proc' = [proc EXCEPT ![k] = x]
           Starts == \E c \in Callers : \E k \in Jobs : start_optimize(c, k)
<1>1. ASSUME NEW k \in Jobs, StartTuner(k) \/ EndTuner(k) \/ PrintLine(k) \/ Exit(k) \/ ReadLine(k)
      PROVE  proc' = proc \/ Ends
  BY <1>1 DEF StartTuner, EndTuner, PrintLine, Exit, ReadLine
<1>2. ASSUME NEW p \in Procs, Persist(p) PROVE proc' = proc
  BY <1>2 DEF Persist, Snapshot, Truncate, Write, PersistRaises, child
<1>3. ASSUME NEW s \in Streams, Streaming(s) \/ Disconnect(s) \/ \E k \in Jobs : stream_optimize(s, k)
      PROVE  proc' = proc
  BY <1>3 DEF Streaming, Replay, CheckStatus, Take, GotLine, GotMarker, Reap, Settle, TakeForNobody,
              Disconnect, stream_optimize, child
<1>4. ASSUME NEW c \in Callers, NEW k \in Jobs, start_optimize(c, k) \/ cancel_job(c, k)
      PROVE  proc' = proc \/ Starts
  BY <1>4 DEF cancel_job, child
<1>5. ASSUME NEW c \in Callers, Cancelling(c) PROVE proc' = proc \/ Ends
  <2>1. CASE Poll(c)
    BY <2>1 DEF Poll
  <2>2. CASE WaitOrKill(c) /\ proc[job[c]] \in Running
    BY <2>2 DEF WaitOrKill
  <2>3. CASE WaitOrKill(c) /\ proc[job[c]] \notin Running
    BY <2>3 DEF WaitOrKill
  <2>4. CASE TerminateFails(c) \/ Mark(c) \/ NoteCancel(c)
    BY <2>4 DEF TerminateFails, Mark, NoteCancel, child
  <2> QED
    BY <1>5, <2>1, <2>2, <2>3, <2>4 DEF Cancelling
<1>6. ASSUME Starts PROVE \E c \in Callers : \E k \in Jobs :
                            start_optimize(c, k) /\ proc' = [proc EXCEPT ![k] = "alive"] /\ proc[k] = "none"
  BY <1>6 DEF start_optimize
<1>7. ASSUME Crash PROVE proc' = [k \in Jobs |-> IF proc[k] = "none" THEN "none" ELSE "gone"]
  BY <1>7 DEF Crash
<1>8. ASSUME UNCHANGED vars PROVE proc' = proc
  BY <1>8 DEF vars, child
<1> HIDE DEF Ends, Starts, TypeInv, PipeType, PlacesType, Procs, Running
<1>9. proc' = proc \/ Ends \/ Starts \/ Crash
  BY <1>1, <1>2, <1>3, <1>4, <1>5, <1>8 DEF JobsNext, Work, Environment
<1> QED
  BY <1>6, <1>7, <1>9 DEF Ends, TypeInv, PipeType, Running

\* An optimizer is started by the child, while it lives.
LEMMA TunerStep ==
    ASSUME TypeInv, [JobsNext]_vars, NEW j \in Jobs, tuner'[j] = "working"
    PROVE  tuner[j] = "working" \/ proc[j] \in Running
<1> USE DEF TypeInv, PipeType, PlacesType, Procs, Running
<1> DEFINE Goal == tuner[j] = "working" \/ proc[j] \in Running
<1>1. ASSUME NEW k \in Jobs, StartTuner(k) \/ EndTuner(k) PROVE Goal
  BY <1>1 DEF StartTuner, EndTuner
<1>2. ASSUME NEW k \in Jobs, PrintLine(k) \/ Exit(k) \/ ReadLine(k) PROVE Goal
  BY <1>2 DEF PrintLine, Exit, Parentless, ReadLine
<1>3. ASSUME NEW p \in Procs, Persist(p) PROVE Goal
  BY <1>3 DEF Persist, Snapshot, Truncate, Write, PersistRaises, child
<1>4. ASSUME NEW c \in Callers, Cancelling(c) \/ \E k \in Jobs : start_optimize(c, k) \/ cancel_job(c, k)
      PROVE  Goal
  BY <1>4 DEF Cancelling, Poll, TerminateFails, WaitOrKill, Parentless, Mark, NoteCancel, start_optimize,
              cancel_job, child
<1>5. ASSUME NEW s \in Streams, Streaming(s) \/ Disconnect(s) \/ \E k \in Jobs : stream_optimize(s, k)
      PROVE  Goal
  BY <1>5 DEF Streaming, Replay, CheckStatus, Take, GotLine, GotMarker, Reap, Settle, TakeForNobody,
              Disconnect, stream_optimize, child
<1>6. CASE Crash
  BY <1>6 DEF Crash
<1>7. CASE UNCHANGED vars
  BY <1>7 DEF vars, child
<1> HIDE DEF Goal
<1> QED
  BY <1>1, <1>2, <1>3, <1>4, <1>5, <1>6, <1>7 DEF Goal, JobsNext, Work, Environment

\* A job that was started and has nobody left at work stays so.
Quiet(j) == proc[j] # "none" /\ OutputEnds(j)

\* So it does.
LEMMA QuietStays == ASSUME TypeInv, [JobsNext]_vars, NEW j \in Jobs, Quiet(j) PROVE Quiet(j)'
  BY ProcStep, TunerStep DEF Quiet, OutputEnds

\* A generator holds the loop only where no other one does.
LEMMA Loop == ASSUME TypeInv, LoopInv, [JobsNext]_vars PROVE LoopInv'
<1> USE JobsAssumption DEF TypeInv, PlacesType, LoopInv, Procs, Held, Goto, LoopFree, Saving
<1>1. ASSUME NEW j \in Jobs, StartTuner(j) \/ EndTuner(j) \/ PrintLine(j) \/ Exit(j) \/ ReadLine(j)
      PROVE  LoopInv'
  BY <1>1 DEF StartTuner, EndTuner, PrintLine, Exit, ReadLine
<1>2. ASSUME NEW p \in Procs, Persist(p) PROVE LoopInv'
  <2>1. CASE p \in Callers
    <3>1. \A s \in Streams : pc'[s] = pc[s]
      BY <1>2, <2>1 DEF Persist, Snapshot, Truncate, Write, PersistRaises, After
    <3> QED
      BY <3>1
  <2>2. CASE p \in Streams
    <3>1. LoopFree(p) /\ \A s \in Streams \ {p} : pc'[s] = pc[s]
      BY <1>2, <2>2 DEF Persist, Scheduled, Snapshot, Truncate, Write, PersistRaises, After
    <3> QED
      BY <3>1
  <2> QED
    BY <2>1, <2>2
<1>3. ASSUME NEW c \in Callers, Cancelling(c) \/ \E j \in Jobs : start_optimize(c, j) \/ cancel_job(c, j)
      PROVE  LoopInv'
  <2>1. \A s \in Streams : pc'[s] = pc[s]
    BY <1>3 DEF Cancelling, Poll, TerminateFails, WaitOrKill, Mark, NoteCancel, start_optimize, cancel_job
  <2> QED
    BY <2>1
<1>4. ASSUME NEW s \in Streams, Streaming(s) \/ Disconnect(s) \/ \E j \in Jobs : stream_optimize(s, j)
      PROVE  LoopInv'
  <2>1. /\ \A t \in Streams \ {s} : pc'[t] = pc[t]
        /\ pc[s] \in Held \/ LoopFree(s) \/ pc'[s] \notin Held
    BY <1>4 DEF Streaming, Replay, CheckStatus, Take, GotLine, GotMarker, Reap, Settle, TakeForNobody,
                Disconnect, stream_optimize
  <2> QED
    BY <2>1
<1>5. CASE Crash
  <2>1. \A s \in Streams : pc'[s] \in {"idle", "gone"}
    BY <1>5 DEF Crash
  <2> QED
    BY <2>1
<1>6. CASE UNCHANGED vars
  BY <1>6 DEF vars
<1> QED
  BY <1>1, <1>2, <1>3, <1>4, <1>5, <1>6 DEF JobsNext, Work, Environment

\* A status is settled or marked only after the process has ended.
LEMMA Ended == ASSUME TypeInv, StartedInv, EndedInv, [JobsNext]_vars PROVE EndedInv'
<1> USE JobsAssumption DEF TypeInv, PlacesType, Procs, Saving, Goto, Reaped, Killed
<1> DEFINE Ends(j) == proc[j] \notin Running /\ proc[j] # "none"
<1>1. /\ \A s \in Streams : Reaped(s) => Ends(job[s])
      /\ \A c \in Callers : Killed(c) => Ends(job[c])
  BY DEF EndedInv, StartedInv, NotUsed
<1>2. \A j \in Jobs : Ends(j) => proc'[j] \notin Running
  BY ProcStep
<1> HIDE DEF Ends
<1> DEFINE Goal ==
      /\ \A s \in Streams : Reaped(s)' =>
            job'[s] = job[s] /\ (Reaped(s) \/ proc'[job[s]] \notin Running)
      /\ \A c \in Callers : Killed(c)' =>
            job'[c] = job[c] /\ (Killed(c) \/ proc'[job[c]] \notin Running)
<1>3. SUFFICES Goal
  BY <1>1, <1>2 DEF EndedInv
<1>4. ASSUME NEW j \in Jobs, StartTuner(j) \/ EndTuner(j) \/ PrintLine(j) \/ Exit(j) \/ ReadLine(j)
      PROVE  Goal
  BY <1>4 DEF StartTuner, EndTuner, PrintLine, Exit, ReadLine
<1>5. ASSUME NEW p \in Procs, Persist(p) PROVE Goal
  BY <1>5 DEF Persist, Snapshot, Truncate, Write, PersistRaises, After
<1>6. ASSUME NEW c \in Callers, NEW j \in Jobs, start_optimize(c, j) \/ cancel_job(c, j) PROVE Goal
  <2>1. /\ job' = [job EXCEPT ![c] = j] /\ \A p \in Procs \ {c} : pc'[p] = pc[p] /\ op'[p] = op[p]
        /\ pc'[c] = "poll" \/ (pc'[c] = "snapshot" /\ op'[c] = "start")
    BY <1>6 DEF start_optimize, cancel_job
  <2> QED
    BY <2>1
<1>7. ASSUME NEW c \in Callers, Cancelling(c) PROVE Goal
  <2>1. CASE Poll(c)
    <3>1. /\ job' = job /\ op' = op /\ \A p \in Procs \ {c} : pc'[p] = pc[p]
          /\ pc'[c] \in {"wait", "mark"} /\ (pc'[c] = "mark" => proc[job[c]] \notin Running /\ proc' = proc)
      BY <2>1 DEF Poll
    <3> QED
      BY <3>1
  <2>2. CASE WaitOrKill(c)
    <3>1. /\ job' = job /\ op' = op /\ \A p \in Procs \ {c} : pc'[p] = pc[p]
          /\ pc'[c] = "mark" /\ proc'[job[c]] \notin Running
      BY <2>2 DEF WaitOrKill, PipeType, Running
    <3> QED
      BY <3>1
  <2>3. CASE NoteCancel(c)
    BY <2>3 DEF NoteCancel
  <2>4. CASE TerminateFails(c) \/ Mark(c)
    BY <2>4 DEF TerminateFails, Mark
  <2> QED
    BY <1>7, <2>1, <2>2, <2>3, <2>4 DEF Cancelling
<1>8. ASSUME NEW s \in Streams, NEW j \in Jobs, stream_optimize(s, j) PROVE Goal
  <2>1. job' = [job EXCEPT ![s] = j] /\ pc' = [pc EXCEPT ![s] = "replay"] /\ op' = op
    BY <1>8 DEF stream_optimize
  <2> QED
    BY <2>1
<1>9. ASSUME NEW s \in Streams, Streaming(s) \/ Disconnect(s) PROVE Goal
  <2>1. CASE Reap(s)
    BY <2>1 DEF Reap, child
  <2>2. CASE Settle(s)
    BY <2>2 DEF Settle
  <2>3. CASE GotLine(s)
    BY <2>3 DEF GotLine
  <2>4. CASE Replay(s) \/ CheckStatus(s) \/ Take(s) \/ GotMarker(s) \/ TakeForNobody(s) \/ Disconnect(s)
    BY <2>4 DEF Replay, CheckStatus, Take, GotMarker, TakeForNobody, Disconnect
  <2> QED
    BY <1>9, <2>1, <2>2, <2>3, <2>4 DEF Streaming
<1>10. CASE Crash
  <2>1. \A p \in Procs : pc'[p] \in {"idle", "gone"}
    BY <1>10 DEF Crash
  <2> QED
    BY <2>1
<1>11. CASE UNCHANGED vars
  BY <1>11 DEF vars
<1> QED
  BY <1>4, <1>5, <1>6, <1>7, <1>8, <1>9, <1>10, <1>11 DEF JobsNext, Work, Environment

\* What was never started leaves no trace.
LEMMA Started == ASSUME TypeInv, StartedInv, [JobsNext]_vars PROVE StartedInv'
<1> SUFFICES ASSUME NEW j \in Jobs, proc[j] = "none", \A c \in Callers : ~ start_optimize(c, j)
             PROVE  NoTrace(j)' /\ NotSaved(j)' /\ NotUsed(j)'
  <2> SUFFICES ASSUME NEW j \in Jobs, proc'[j] = "none" PROVE NoTrace(j)' /\ NotSaved(j)' /\ NotUsed(j)'
    BY DEF StartedInv
  <2>1. \A c \in Callers : ~ start_optimize(c, j)
    BY DEF start_optimize, TypeInv, PipeType
  <2> QED
    BY <2>1, ProcStep
<1> USE JobsAssumption DEF TypeInv, PlacesType, Procs, Goto
<1>1. NoTrace(j) /\ NotSaved(j) /\ NotUsed(j)
  BY DEF StartedInv
<1>2. \A p \in Procs : job[p] = j => pc[p] = "idle"
  BY <1>1 DEF NotUsed
<1> DEFINE Kept == NoTrace(j)' /\ NotSaved(j)' /\ NotUsed(j)'
<1>3. ASSUME NEW k \in Jobs, StartTuner(k) \/ EndTuner(k) \/ PrintLine(k) \/ Exit(k) \/ ReadLine(k)
      PROVE  Kept
  <2>1. k # j
    BY <1>1, <1>3 DEF StartTuner, EndTuner, PrintLine, Exit, ReadLine, Running, NoTrace
  <2>2. /\ UNCHANGED <<status, had, lines, clients, lost, file, snap, pc, job>>
        /\ UNCHANGED <<queue[j], tuner[j], printed[j], read[j], reader[j]>>
    BY <1>3, <2>1 DEF StartTuner, EndTuner, PrintLine, Exit, ReadLine, PutLine, PutMarker, Parentless,
                        jobs, history, PipeType, child
  <2> QED
    BY <1>1, <2>2 DEF NoTrace, NotSaved, NotUsed
<1>4. ASSUME NEW p \in Procs, Persist(p) PROVE Kept
  <2>1. pc[p] \in Saving /\ job[p] # j
    BY <1>2, <1>4 DEF Persist, Snapshot, Truncate, Write, PersistRaises, Saving
  <2>2. /\ UNCHANGED <<status, had, lines, clients, lost, job, queue, tuner, printed, read>>
        /\ reader'[j] = reader[j] /\ \A q \in Procs \ {p} : pc'[q] = pc[q]
    BY <1>4, <2>1 DEF Persist, Snapshot, Truncate, Write, PersistRaises, After, jobs, history, child, PipeType
  <2>3. snap'[p][j] = snap[p][j] \/ snap'[p] = NoJobs \/ snap'[p][j] = [status |-> status[j], lines |-> lines[j]]
    BY <1>4 DEF Persist, Snapshot, Truncate, Write, PersistRaises, After, StoreType
  <2>4. snap'[p][j] = Nobody /\ \A q \in Procs \ {p} : snap'[q] = snap[q]
    BY <1>1, <1>4, <2>3 DEF NotSaved, NoTrace, NoJobs, Nobody,
       Persist, Snapshot, Truncate, Write, PersistRaises, After, StoreType
  <2>5. file' = file \/ file'.jobs = snap[p] \/ file'.jobs = NoJobs
    BY <1>4 DEF Persist, Snapshot, Truncate, Write, PersistRaises, Saved, Unparsable
  <2>6. file'.jobs[j] = Nobody
    BY <1>1, <2>5 DEF NotSaved, NoJobs
  <2> QED
    BY <1>1, <2>1, <2>2, <2>4, <2>6 DEF NoTrace, NotSaved, NotUsed
<1>5. ASSUME NEW c \in Callers, NEW k \in Jobs, start_optimize(c, k) \/ cancel_job(c, k) PROVE Kept
  <2>1. k # j
    BY <1>1, <1>5 DEF start_optimize, cancel_job, NoTrace
  <2>2. /\ UNCHANGED <<lines, queue, tuner, printed, read, reader, clients, lost, file, snap>>
        /\ status'[j] = status[j] /\ had'[j] = had[j]
    BY <1>5, <2>1 DEF start_optimize, cancel_job, Becomes, jobs, child, history, StoreType
  <2>3. job' = [job EXCEPT ![c] = k] /\ \A q \in Procs \ {c} : pc'[q] = pc[q]
    BY <1>5 DEF start_optimize, cancel_job
  <2> QED
    BY <1>1, <2>1, <2>2, <2>3 DEF NoTrace, NotSaved, NotUsed
<1>6. ASSUME NEW c \in Callers, Cancelling(c) PROVE Kept
  <2>1. job[c] # j
    BY <1>2, <1>6 DEF Cancelling, Poll, TerminateFails, WaitOrKill, Mark, NoteCancel
  <2>2. UNCHANGED <<job, printed, read, reader, clients, lost, file, snap>> /\ \A q \in Procs \ {c} : pc'[q] = pc[q]
    BY <1>6 DEF Cancelling, Poll, TerminateFails, WaitOrKill, Mark, NoteCancel, jobs, child, history
  <2>3. status'[j] = status[j] /\ had'[j] = had[j]
    BY <1>6, <2>1 DEF Cancelling, Poll, TerminateFails, WaitOrKill, Mark, NoteCancel, Becomes, jobs, StoreType
  <2>4. lines'[j] = lines[j] /\ queue'[j] = queue[j]
    BY <1>6, <2>1 DEF Cancelling, Poll, TerminateFails, WaitOrKill, Mark, NoteCancel, jobs, StoreType, PipeType
  <2>5. tuner'[j] = tuner[j]
    BY <1>6, <2>1 DEF Cancelling, Poll, TerminateFails, WaitOrKill, Mark, NoteCancel, Parentless, child, PipeType
  <2> QED
    BY <1>1, <2>1, <2>2, <2>3, <2>4, <2>5 DEF NoTrace, NotSaved, NotUsed
<1>7. ASSUME NEW s \in Streams, NEW k \in Jobs, stream_optimize(s, k) PROVE Kept
  <2>1. k # j
    BY <1>1, <1>7 DEF stream_optimize, NoTrace
  <2>2. /\ UNCHANGED <<status, had, lines, queue, tuner, printed, read, reader, lost, file, snap>>
        /\ clients'[j] = clients[j]
    BY <1>7, <2>1 DEF stream_optimize, jobs, child, SentType
  <2>3. job' = [job EXCEPT ![s] = k] /\ \A q \in Procs \ {s} : pc'[q] = pc[q]
    BY <1>7 DEF stream_optimize
  <2> QED
    BY <1>1, <2>1, <2>2, <2>3 DEF NoTrace, NotSaved, NotUsed
<1>8. ASSUME NEW s \in Streams, Streaming(s) \/ Disconnect(s) PROVE Kept
  <2> USE DEF Streaming, Replay, CheckStatus, Take, GotLine, GotMarker, Reap, Settle, TakeForNobody, Disconnect
  <2>1. job[s] # j
    BY <1>2, <1>8
  <2>2. /\ UNCHANGED <<job, tuner, printed, read, reader, clients, file, snap>>
        /\ \A q \in Procs \ {s} : pc'[q] = pc[q]
    BY <1>8 DEF jobs, child, history
  <2>3. status'[j] = status[j] /\ had'[j] = had[j]
    BY <1>8, <2>1 DEF Becomes, jobs, StoreType
  <2>4. lines'[j] = lines[j]
    BY <1>8, <2>1 DEF jobs, StoreType, Capture
  <2>5. queue'[j] = queue[j]
    BY <1>8, <2>1 DEF PipeType
  <2>6. lost'[j] = lost[j]
    BY <1>8, <2>1 DEF SentType, history
  <2> HIDE DEF Streaming, Replay, CheckStatus, Take, GotLine, GotMarker, Reap, Settle, TakeForNobody, Disconnect
  <2> QED
    BY <1>1, <2>1, <2>2, <2>3, <2>4, <2>5, <2>6 DEF NoTrace, NotSaved, NotUsed
<1>9. CASE Crash
  <2>1. Loaded(j).status = "absent" /\ Loaded(j).lines = <<>>
    BY <1>1 DEF NotSaved, Loaded, Nobody
  <2>2. NoTrace(j)'
    BY <1>1, <1>9, <2>1 DEF Crash, NoTrace
  <2>3. NotSaved(j)'
    BY <1>1, <1>9 DEF Crash, NotSaved, NoJobs
  <2>4. NotUsed(j)'
    BY <1>1, <1>9 DEF Crash, NotUsed
  <2> QED
    BY <2>2, <2>3, <2>4
<1>10. CASE UNCHANGED vars
  BY <1>1, <1>10 DEF vars, jobs, child, history, NoTrace, NotSaved, NotUsed
<1> HIDE DEF TypeInv, PlacesType, Procs, Goto
<1> QED
  BY <1>3, <1>4, <1>5, <1>6, <1>7, <1>8, <1>9, <1>10 DEF JobsNext, Work, Environment

\* Only a start, a cancellation, the end of a stream and a restart touch a status.
LEMMA StatusStep ==
    ASSUME [JobsNext]_vars
    PROVE  \/ UNCHANGED <<status, had>>
           \/ \E c \in Callers : Mark(c) \/ \E j \in Jobs : start_optimize(c, j)
           \/ \E s \in Streams : Settle(s)
           \/ Crash
<1>1. ASSUME NEW j \in Jobs, StartTuner(j) \/ EndTuner(j) \/ PrintLine(j) \/ Exit(j) \/ ReadLine(j)
      PROVE  UNCHANGED <<status, had>>
  BY <1>1 DEF StartTuner, EndTuner, PrintLine, Exit, ReadLine, jobs
<1>2. ASSUME NEW p \in Procs, Persist(p) PROVE UNCHANGED <<status, had>>
  BY <1>2 DEF Persist, Snapshot, Truncate, Write, PersistRaises, jobs
<1>3. ASSUME NEW c \in Callers, Cancelling(c), ~ Mark(c) PROVE UNCHANGED <<status, had>>
  BY <1>3 DEF Cancelling, Poll, TerminateFails, WaitOrKill, NoteCancel, jobs
<1>4. ASSUME NEW c \in Callers, NEW j \in Jobs, cancel_job(c, j) PROVE UNCHANGED <<status, had>>
  BY <1>4 DEF cancel_job, jobs
<1>5. ASSUME NEW s \in Streams, Streaming(s) \/ Disconnect(s) \/ \E j \in Jobs : stream_optimize(s, j), ~ Settle(s)
      PROVE  UNCHANGED <<status, had>>
  BY <1>5 DEF Streaming, Replay, CheckStatus, Take, GotLine, GotMarker, Reap, TakeForNobody, Disconnect,
              stream_optimize, jobs
<1>6. CASE UNCHANGED vars
  BY <1>6 DEF vars, jobs
<1> QED
  BY <1>1, <1>2, <1>3, <1>4, <1>5, <1>6 DEF JobsNext, Work, Environment

\* The statuses a job had stay known.
LEMMA HadGrows == ASSUME TypeInv, [JobsNext]_vars, NEW j \in Jobs PROVE had[j] \subseteq had'[j] /\ status'[j] \in had'[j]
<1> USE DEF TypeInv, StoreType
<1>1. ASSUME NEW k \in Jobs, NEW st, Becomes(k, st) PROVE had[j] \subseteq had'[j]
  BY <1>1 DEF Becomes
<1>2. ASSUME NEW c \in Callers, Mark(c) PROVE had[j] \subseteq had'[j]
  BY <1>1, <1>2 DEF Mark, PlacesType, Procs
<1>3. ASSUME NEW s \in Streams, Settle(s) PROVE had[j] \subseteq had'[j]
  BY <1>1, <1>3 DEF Settle, PlacesType, Procs
<1>4. ASSUME NEW c \in Callers, NEW k \in Jobs, start_optimize(c, k) PROVE had[j] \subseteq had'[j]
  BY <1>1, <1>4 DEF start_optimize
<1>5. ASSUME Crash PROVE had[j] \subseteq had'[j]
  BY <1>5 DEF Crash
<1>6. status'[j] \in had'[j]
  BY StoreTyped DEF StoreType
<1> QED
  BY <1>2, <1>3, <1>4, <1>5, <1>6, StatusStep

\* A save, also one that overlaps with others, makes up no status.
LEMMA SavedStep == ASSUME TypeInv, SavedInv, [JobsNext]_vars PROVE SavedInv'
<1> USE DEF TypeInv, StoreType, SavedInv
<1> SUFFICES ASSUME NEW j \in Jobs
             PROVE  /\ file'.jobs[j].status \in had'[j]
                    /\ \A p \in Procs : snap'[p][j].status \in had'[j]
  BY HadGrows
<1>1. had[j] \subseteq had'[j] /\ "absent" \in had'[j] /\ status[j] \in had'[j] /\ NoJobs[j].status = "absent"
  BY HadGrows DEF NoJobs, Nobody
<1>2. ASSUME NEW p \in Procs, Persist(p)
      PROVE  /\ file' = file \/ file'.jobs = snap[p] \/ file'.jobs = NoJobs
             /\ snap'[p][j] = snap[p][j] \/ snap'[p] = NoJobs \/ snap'[p][j] = [status |-> status[j], lines |-> lines[j]]
             /\ \A q \in Procs \ {p} : snap'[q] = snap[q]
  BY <1>2 DEF Persist, Snapshot, Truncate, Write, PersistRaises, After, Saved, Unparsable
<1>3. ASSUME NEW k \in Jobs, StartTuner(k) \/ EndTuner(k) \/ PrintLine(k) \/ Exit(k) \/ ReadLine(k)
      PROVE  UNCHANGED <<file, snap>>
  BY <1>3 DEF StartTuner, EndTuner, PrintLine, Exit, ReadLine
<1>4. ASSUME NEW c \in Callers, Cancelling(c) \/ \E k \in Jobs : start_optimize(c, k) \/ cancel_job(c, k)
      PROVE  UNCHANGED <<file, snap>>
  BY <1>4 DEF Cancelling, Poll, TerminateFails, WaitOrKill, Mark, NoteCancel, start_optimize, cancel_job
<1>5. ASSUME NEW s \in Streams, Streaming(s) \/ Disconnect(s) \/ \E k \in Jobs : stream_optimize(s, k)
      PROVE  UNCHANGED <<file, snap>>
  BY <1>5 DEF Streaming, Replay, CheckStatus, Take, GotLine, GotMarker, Reap, Settle, TakeForNobody, Disconnect,
              stream_optimize
<1>6. CASE Crash
  <2>1. file' = file /\ \A p \in Procs : snap'[p] = NoJobs
    BY <1>6 DEF Crash
  <2> QED
    BY <1>1, <2>1
<1>7. ASSUME UNCHANGED vars PROVE UNCHANGED <<file, snap>>
  BY <1>7 DEF vars
<1>8. CASE UNCHANGED <<file, snap>>
  BY <1>1, <1>8
<1>9. CASE \E p \in Procs : Persist(p)
  <2>1. PICK p \in Procs : Persist(p)
    BY <1>9
  <2>2. file'.jobs[j].status \in had'[j]
    BY <1>1, <1>2, <2>1
  <2>3. snap'[p][j].status \in had'[j]
    <3>1. CASE snap'[p][j] = snap[p][j]
      BY <1>1, <3>1
    <3>2. CASE snap'[p] = NoJobs
      BY <1>1, <3>2
    <3>3. CASE snap'[p][j] = [status |-> status[j], lines |-> lines[j]]
      BY <1>1, <3>3
    <3> QED
      BY <1>2, <2>1, <3>1, <3>2, <3>3
  <2> QED
    BY <1>1, <1>2, <2>1, <2>2, <2>3
<1> HIDE DEF TypeInv, StoreType, SavedInv
<1> QED
  BY <1>3, <1>4, <1>5, <1>6, <1>7, <1>8, <1>9 DEF JobsNext, Work, Environment

\* How a stream comes to settle a status, and a caller to cancel a job.
ToSettle(s) ==
    pc'[s] = "settle" => /\ job'[s] = job[s]
                         /\ \/ pc[s] = "settle"
                            \/ Reap(s) /\ status[job[s]] = "running"
ToMark(c) ==
    pc'[c] \in {"poll", "wait", "mark"} => \/ job'[c] = job[c] /\ pc[c] \in {"poll", "wait", "mark"}
                                          \/ cancel_job(c, job'[c])
ToNote(c) == pc'[c] = "note" => job'[c] = job[c] /\ (pc[c] = "note" \/ Mark(c))

\* Every step keeps to these.
LEMMA PlaceStep ==
    ASSUME TypeInv, [JobsNext]_vars
    PROVE  (\A s \in Streams : ToSettle(s)) /\ \A c \in Callers : ToMark(c) /\ ToNote(c)
<1> USE JobsAssumption DEF TypeInv, PlacesType, Procs, Goto, ToSettle, ToMark, ToNote
<1> DEFINE Goal == (\A s \in Streams : ToSettle(s)) /\ \A c \in Callers : ToMark(c) /\ ToNote(c)
<1>1. ASSUME NEW j \in Jobs, StartTuner(j) \/ EndTuner(j) \/ PrintLine(j) \/ Exit(j) \/ ReadLine(j)
      PROVE  Goal
  BY <1>1 DEF StartTuner, EndTuner, PrintLine, Exit, ReadLine
<1>2. ASSUME NEW p \in Procs, Persist(p) PROVE Goal
  <2>1. job' = job /\ pc'[p] \notin {"settle", "poll", "wait", "mark", "note"} /\ \A q \in Procs \ {p} : pc'[q] = pc[q]
    BY <1>2 DEF Persist, Snapshot, Truncate, Write, PersistRaises, After, Saving
  <2> QED
    BY <2>1
<1>3. ASSUME NEW c \in Callers, Cancelling(c) PROVE Goal
  BY <1>3 DEF Cancelling, Poll, TerminateFails, WaitOrKill, Mark, NoteCancel
<1>4. ASSUME NEW c \in Callers, NEW j \in Jobs, start_optimize(c, j) PROVE Goal
  BY <1>4 DEF start_optimize
<1>5. ASSUME NEW c \in Callers, NEW j \in Jobs, cancel_job(c, j) PROVE Goal
  <2>1. job' = [job EXCEPT ![c] = j] /\ \A q \in Procs \ {c} : pc'[q] = pc[q]
    BY <1>5 DEF cancel_job
  <2>2. job'[c] = j /\ pc'[c] = "poll"
    BY <1>5, <2>1 DEF cancel_job
  <2> QED
    BY <1>5, <2>1, <2>2
<1>6. ASSUME NEW s \in Streams, Reap(s) PROVE Goal
  <2>1. /\ job' = job /\ pc'[s] \in {"settle", "snapshot"} /\ \A q \in Procs \ {s} : pc'[q] = pc[q]
        /\ pc'[s] = "settle" => status[job[s]] = "running"
    BY <1>6 DEF Reap
  <2> QED
    BY <1>6, <2>1
<1>7. ASSUME NEW s \in Streams, ~ Reap(s), Streaming(s) \/ Disconnect(s) \/ \E j \in Jobs : stream_optimize(s, j)
      PROVE  Goal
  <2>1. /\ \A q \in Procs \ {s} : pc'[q] = pc[q] /\ job'[q] = job[q]
        /\ pc'[s] # "settle"
    BY <1>7 DEF Streaming, Replay, CheckStatus, Take, GotLine, GotMarker, Settle, TakeForNobody, Disconnect,
              stream_optimize
  <2> QED
    BY <2>1
<1>8. CASE Crash
  <2>1. \A p \in Procs : pc'[p] \in {"idle", "gone"}
    BY <1>8 DEF Crash
  <2> QED
    BY <2>1
<1>9. CASE UNCHANGED vars
  BY <1>9 DEF vars
<1> HIDE DEF TypeInv, PlacesType, Procs, Goto, ToSettle, ToMark, ToNote
<1> QED
  BY <1>1, <1>2, <1>3, <1>4, <1>5, <1>6, <1>7, <1>8, <1>9 DEF JobsNext, Work, Environment

\* A status about to be replaced is that of a job that runs or ran.
LEMMA Settled == ASSUME TypeInv, EndsInv, [JobsNext]_vars PROVE SettleInv'
<1> USE JobsAssumption DEF TypeInv, PlacesType, StoreType, Procs
<1> SUFFICES /\ \A s \in Streams : pc'[s] = "settle" => status'[job[s]] \in {"running", "cancelled"}
             /\ \A c \in Callers : pc'[c] \in {"poll", "wait", "mark"}
                  => status'[job'[c]] \in {"running", "done", "failed", "cancelled"}
  BY PlaceStep DEF SettleInv, ToSettle, ToMark
<1>1. /\ \A s \in Streams : pc'[s] = "settle" => status[job[s]] \in {"running", "cancelled"}
      /\ \A c \in Callers : pc'[c] \in {"poll", "wait", "mark"}
           => status[job'[c]] \in {"running", "done", "failed", "cancelled"}
  BY PlaceStep DEF EndsInv, SettleInv, cancel_job, ToSettle, ToMark
<1>2. job' \in [Procs -> Jobs]
  BY PlacesTyped
<1>3. CASE UNCHANGED <<status, had>>
  BY <1>1, <1>3
<1>4. ASSUME NEW c \in Callers, NEW j \in Jobs, start_optimize(c, j) PROVE SettleInv'
  BY <1>1, <1>2, <1>4, PlaceStep DEF start_optimize, Becomes, SettleInv, ToSettle, ToMark
<1>5. ASSUME NEW c \in Callers, Mark(c) PROVE SettleInv'
  BY <1>1, <1>2, <1>5, PlaceStep DEF Mark, Becomes, SettleInv, ToSettle, ToMark
<1>6. ASSUME NEW s \in Streams, Settle(s) PROVE SettleInv'
  <2>1. \A t \in Streams : pc'[t] # "settle"
    BY <1>6 DEF Settle, EndsInv, LoopInv, Held, Goto
  <2> QED
    BY <1>1, <1>2, <1>6, <2>1, PlaceStep DEF Settle, Becomes, SettleInv, ToSettle, ToMark
<1>7. CASE Crash
  <2>1. \A p \in Procs : pc'[p] \in {"idle", "gone"}
    BY <1>7 DEF Crash
  <2> QED
    BY <2>1
<1> HIDE DEF TypeInv, PlacesType, StoreType, Procs
<1> QED
  BY <1>3, <1>4, <1>5, <1>6, <1>7, StatusStep, PlaceStep DEF SettleInv, ToSettle, ToMark

\* No step reports a job whose child still works.
LEMMA Final == ASSUME TypeInv, EndsInv, [JobsNext]_vars PROVE ChildOver'
<1> DEFINE Over == {"done", "failed", "cancelled"}
<1> SUFFICES ASSUME NEW j \in Jobs, status'[j] \in Over PROVE proc'[j] \notin Running
  BY DEF ChildOver
<1>1. SUFFICES (proc[j] \notin Running /\ proc[j] # "none") \/ Crash
  BY <1>1, ProcStep DEF Crash, Running
<1>2. proc[j] = "none" => NoTrace(j) /\ NotUsed(j)
  BY DEF EndsInv, StartedInv
<1>3. CASE status[j] \in Over
  BY <1>2, <1>3 DEF EndsInv, ChildOver, NoTrace
<1>4. ASSUME NEW c \in Callers, NEW k \in Jobs, start_optimize(c, k) PROVE status[j] \in Over
  BY <1>4 DEF start_optimize, Becomes, TypeInv, StoreType
<1>5. ASSUME NEW c \in Callers, Mark(c), status[j] \notin Over PROVE proc[j] \notin Running /\ proc[j] # "none"
  <2>1. job[c] = j /\ pc[c] = "mark"
    BY <1>5 DEF Mark, Becomes, TypeInv, StoreType
  <2> QED
    BY <1>2, <2>1 DEF EndsInv, EndedInv, Killed, NotUsed, Procs
<1>6. ASSUME NEW s \in Streams, Settle(s), status[j] \notin Over PROVE proc[j] \notin Running /\ proc[j] # "none"
  <2>1. job[s] = j /\ pc[s] = "settle"
    BY <1>6 DEF Settle, Becomes, TypeInv, StoreType
  <2> QED
    BY <1>2, <2>1 DEF EndsInv, EndedInv, Reaped, NotUsed, Procs
<1> QED
  BY <1>3, <1>4, <1>5, <1>6, StatusStep

\* The invariant about the ends of jobs is inductive.
LEMMA EndsInvariant == JobsSpec => []EndsInv
<1>1. JobsInit => EndsInv
  <2> SUFFICES ASSUME JobsInit PROVE EndsInv
    OBVIOUS
  <2>1. StartedInv
    BY DEF JobsInit, StartedInv, NoTrace, NotSaved, NotUsed, Unparsable, NoJobs
  <2>2. SavedInv
    BY DEF JobsInit, SavedInv, Unparsable, NoJobs, Nobody
  <2>3. LoopInv /\ EndedInv /\ SettleInv /\ ChildOver
    BY DEF JobsInit, LoopInv, Held, EndedInv, Reaped, Killed, Saving, SettleInv, ChildOver, Procs
  <2> QED
    BY <2>1, <2>2, <2>3 DEF EndsInv
<1>2. TypeInv /\ EndsInv /\ [JobsNext]_vars => EndsInv'
  BY Started, SavedStep, Loop, Ended, Settled, Final DEF EndsInv
<1> QED
  BY <1>1, <1>2, TypeInvariant, PTL DEF JobsSpec

\* The statuses of OptimizeJobs, and what a restart makes of them, keep the promise of
\* JobLifecycle.
THEOREM LifecycleImplemented == JobsSpec => ImplementsJobLifecycle
<1>1. JobsInit => Lifecycle!Init
  BY DEF JobsInit, Lifecycle!Init
<1>2. TypeInv /\ EndsInv /\ [JobsNext]_vars => [Lifecycle!Next]_<<status, had>>
  <2> SUFFICES ASSUME TypeInv, EndsInv, [JobsNext]_vars PROVE [Lifecycle!Next]_<<status, had>>
    OBVIOUS
  <2>1. ASSUME NEW c \in Callers, NEW j \in Jobs, start_optimize(c, j) PROVE Lifecycle!Start(j)
    BY <2>1 DEF start_optimize, Lifecycle!Start, Becomes, Lifecycle!Becomes, EndsInv, StartedInv, NoTrace
  <2>2. ASSUME NEW c \in Callers, Mark(c) PROVE Lifecycle!Cancel(job[c])
    BY <2>2 DEF Mark, Lifecycle!Cancel, Becomes, Lifecycle!Becomes, EndsInv, SettleInv
  <2>3. ASSUME NEW s \in Streams, Settle(s) PROVE Lifecycle!Finish(job[s])
    BY <2>3 DEF Settle, Lifecycle!Finish, Becomes, Lifecycle!Becomes, EndsInv, SettleInv
  <2>4. CASE Crash
    <3>1. \A j \in Jobs : LET st == file.jobs[j].status
                          IN  /\ st \in Statuses /\ st \in had[j]
                              /\ status'[j] = IF st = "running" THEN "interrupted" ELSE st
      BY <2>4 DEF Crash, Loaded, TypeInv, StoreType, Dicts, EndsInv, SavedInv
    <3>2. status' = [j \in Jobs |-> status'[j]] /\ had' = [j \in Jobs |-> had[j] \cup {status'[j]}]
      BY <2>4 DEF Crash
    <3> QED
      BY <3>1, <3>2 DEF Lifecycle!Next, Lifecycle!Restart, Lifecycle!Statuses, Statuses
  <2>5. \A p \in Procs : job[p] \in Jobs
    BY DEF TypeInv, PlacesType
  <2> QED
    BY <2>1, <2>2, <2>3, <2>4, <2>5, StatusStep DEF Lifecycle!Next, Procs
<1> QED
  BY <1>1, <1>2, TypeInvariant, EndsInvariant, PTL DEF JobsSpec, ImplementsJobLifecycle, Lifecycle!Spec

----------------------------------------------------------------------------
(* Where a line is.                                                            *)

\* Whether n is nowhere, or once, in a sequence.
Absent(n, q) == \A i \in DOMAIN q : q[i] # n
Once(n, q) == \E i \in DOMAIN q : q[i] = n /\ \A k \in DOMAIN q : q[k] = n => k = i

Holds(s, j, n) == job[s] = j /\ pc[s] = "got" /\ item[s] = n

\* The places of line n of job j: it is not at any but the one named.
Elsewhere(j, n, place) ==
    /\ place # "pipe" => ~ n > read[j]
    /\ place # "queue" => Absent(n, queue[j])
    /\ place # "stream" => \A s \in Streams : ~ Holds(s, j, n)
    /\ place # "lines" => Absent(n, lines[j])
    /\ place # "lost" => n \notin lost[j]

InOnePlace(j, n) ==
    \/ n > read[j] /\ Elsewhere(j, n, "pipe")
    \/ Once(n, queue[j]) /\ Elsewhere(j, n, "queue")
    \/ /\ \E s \in Streams : Holds(s, j, n) /\ \A t \in Streams : Holds(t, j, n) => t = s
       /\ Elsewhere(j, n, "stream")
    \/ Once(n, lines[j]) /\ Elsewhere(j, n, "lines")
    \/ n \in lost[j] /\ Elsewhere(j, n, "lost")

\* A line not printed yet counts as in the pipe.  Of a process a restart left behind
\* only what was saved remains, and it prints no more.
LinesInv ==
    \A j \in Jobs : IF proc[j] = "gone" THEN printed[j] = 0 /\ tuner[j] # "working"
                                        ELSE \A n \in Lines : InOnePlace(j, n)

\* What is appended is one thing, and it is there once.
Grown(n, q, e) ==
    /\ e # n => /\ Absent(n, q) => Absent(n, Append(q, e))
                /\ Once(n, q) => Once(n, Append(q, e))
    /\ e = n /\ Absent(n, q) => Once(n, Append(q, e))

\* So it is.
LEMMA AppendedOnce == ASSUME NEW S, NEW q \in Seq(S), NEW e \in S, NEW n PROVE Grown(n, q, e)
<1>1. /\ DOMAIN q = 1 .. Len(q) /\ Len(q) \in Nat /\ DOMAIN Append(q, e) = 1 .. Len(q) + 1
      /\ \A i \in 1 .. Len(q) : Append(q, e)[i] = q[i]
      /\ Append(q, e)[Len(q) + 1] = e
  OBVIOUS
<1>2. e # n /\ Absent(n, q) => Absent(n, Append(q, e))
  BY <1>1 DEF Absent
<1>3. ASSUME e # n, NEW i \in DOMAIN q, q[i] = n, \A k \in DOMAIN q : q[k] = n => k = i
      PROVE  Once(n, Append(q, e))
  <2>1. i \in DOMAIN Append(q, e) /\ Append(q, e)[i] = n
    BY <1>1, <1>3
  <2>2. \A k \in DOMAIN Append(q, e) : Append(q, e)[k] = n => k = i
    BY <1>1, <1>3
  <2> QED
    BY <2>1, <2>2 DEF Once
<1>4. ASSUME e = n, Absent(n, q) PROVE Once(n, Append(q, e))
  <2>1. \A k \in DOMAIN Append(q, e) : Append(q, e)[k] = n => k = Len(q) + 1
    BY <1>1, <1>4 DEF Absent
  <2> QED
    BY <1>1, <1>4, <2>1 DEF Once
<1> QED
  BY <1>2, <1>3, <1>4 DEF Once, Grown

\* What is taken is the head, and the rest stays.
Shrunk(n, q) ==
    /\ Absent(n, q) => Head(q) # n /\ Absent(n, Tail(q))
    /\ Once(n, q) /\ Head(q) = n => Absent(n, Tail(q))
    /\ Once(n, q) /\ Head(q) # n => Once(n, Tail(q))

\* So it is.
LEMMA TakenOnce == ASSUME NEW S, NEW q \in Seq(S), q # <<>>, NEW n PROVE Shrunk(n, q)
<1>1. /\ DOMAIN q = 1 .. Len(q) /\ Len(q) \in Nat \ {0} /\ Head(q) = q[1]
      /\ DOMAIN Tail(q) = 1 .. Len(q) - 1
      /\ \A i \in 1 .. Len(q) - 1 : Tail(q)[i] = q[i + 1]
  OBVIOUS
<1>2. Absent(n, q) => Head(q) # n /\ Absent(n, Tail(q))
  BY <1>1 DEF Absent
<1>3. ASSUME NEW i \in DOMAIN q, q[i] = n, \A k \in DOMAIN q : q[k] = n => k = i
      PROVE  /\ Head(q) = n => Absent(n, Tail(q))
             /\ Head(q) # n => Once(n, Tail(q))
  <2>1. Head(q) = n => i = 1
    BY <1>1, <1>3
  <2>2. \A k \in DOMAIN Tail(q) : Tail(q)[k] = n => k + 1 = i
    BY <1>1, <1>3
  <2>3. Head(q) # n => i - 1 \in DOMAIN Tail(q) /\ Tail(q)[i - 1] = n
    BY <1>1, <1>3
  <2> QED
    BY <1>1, <2>1, <2>2, <2>3 DEF Absent, Once
<1> QED
  BY <1>2, <1>3 DEF Once, Shrunk

\* The same for the queue and the captured lines of a job.
LEMMA QueuesAndLines ==
    ASSUME TypeInv, NEW j \in Jobs, NEW n
    PROVE  /\ \A e \in Lines \cup {Sentinel} : Grown(n, queue[j], e)
           /\ queue[j] # <<>> => Shrunk(n, queue[j])
           /\ \A e \in Lines \cup {Note} : Grown(n, lines[j], e)
<1>1. queue[j] \in Seq(Lines \cup {Sentinel}) /\ lines[j] \in Seq(Lines \cup {Note})
  BY DEF TypeInv, PipeType, StoreType
<1>2. \A e \in Lines \cup {Sentinel} : Grown(n, queue[j], e)
  BY <1>1, AppendedOnce
<1>3. queue[j] # <<>> => Shrunk(n, queue[j])
  BY <1>1, TakenOnce
<1>4. \A e \in Lines \cup {Note} : Grown(n, lines[j], e)
  BY <1>1, AppendedOnce
<1> QED
  BY <1>2, <1>3, <1>4

\* Nothing happens to line n of job j.
Untouched(j, n) ==
    /\ n > read'[j] <=> n > read[j]
    /\ Absent(n, queue[j]) => Absent(n, queue'[j])
    /\ Once(n, queue[j]) => Once(n, queue'[j])
    /\ \A s \in Streams : Holds(s, j, n)' <=> Holds(s, j, n)
    /\ Absent(n, lines[j]) => Absent(n, lines'[j])
    /\ Once(n, lines[j]) => Once(n, lines'[j])
    /\ n \in lost'[j] <=> n \in lost[j]

\* What nothing happens to stays in its place.
LEMMA UntouchedStays == ASSUME NEW j, NEW n, InOnePlace(j, n), Untouched(j, n) PROVE InOnePlace(j, n)'
<1> USE DEF Untouched, Elsewhere
<1>1. CASE n > read[j] /\ Elsewhere(j, n, "pipe")
  BY <1>1 DEF InOnePlace
<1>2. CASE Once(n, queue[j]) /\ Elsewhere(j, n, "queue")
  BY <1>2 DEF InOnePlace
<1>3. CASE /\ \E s \in Streams : Holds(s, j, n) /\ \A t \in Streams : Holds(t, j, n) => t = s
           /\ Elsewhere(j, n, "stream")
  BY <1>3 DEF InOnePlace
<1>4. CASE Once(n, lines[j]) /\ Elsewhere(j, n, "lines")
  BY <1>4 DEF InOnePlace
<1>5. CASE n \in lost[j] /\ Elsewhere(j, n, "lost")
  BY <1>5 DEF InOnePlace
<1> QED
  BY <1>1, <1>2, <1>3, <1>4, <1>5 DEF InOnePlace

\* A line found at a place is at no other.
LEMMA FoundThere ==
    ASSUME NEW j, NEW n, InOnePlace(j, n)
    PROVE  /\ n > read[j] => Elsewhere(j, n, "pipe")
           /\ Absent(n, queue[j]) \/ (Once(n, queue[j]) /\ Elsewhere(j, n, "queue"))
           /\ \A s \in Streams : Holds(s, j, n) => /\ Elsewhere(j, n, "stream")
                                                   /\ \A t \in Streams : Holds(t, j, n) => t = s
  BY DEF InOnePlace, Elsewhere

\* Only a process prints, and only a restart forgets what it printed.
LEMMA PrintedStep ==
    ASSUME [JobsNext]_vars
    PROVE  printed' = printed \/ Crash \/ \E j \in Jobs : PrintLine(j)
<1>1. ASSUME NEW j \in Jobs, StartTuner(j) \/ EndTuner(j) \/ Exit(j) \/ ReadLine(j)
      PROVE  printed' = printed
  BY <1>1 DEF StartTuner, EndTuner, Exit, ReadLine
<1>2. ASSUME NEW p \in Procs, Persist(p) PROVE printed' = printed
  BY <1>2 DEF Persist, Snapshot, Truncate, Write, PersistRaises, child
<1>3. ASSUME NEW c \in Callers, Cancelling(c) \/ \E j \in Jobs : start_optimize(c, j) \/ cancel_job(c, j)
      PROVE  printed' = printed
  BY <1>3 DEF Cancelling, Poll, TerminateFails, WaitOrKill, Mark, NoteCancel, start_optimize, cancel_job, child
<1>4. ASSUME NEW s \in Streams, Streaming(s) \/ Disconnect(s) \/ \E j \in Jobs : stream_optimize(s, j)
      PROVE  printed' = printed
  BY <1>4 DEF Streaming, Replay, CheckStatus, Take, GotLine, GotMarker, Reap, Settle, TakeForNobody,
              Disconnect, stream_optimize, child
<1>5. CASE UNCHANGED vars
  BY <1>5 DEF vars, child
<1> QED
  BY <1>1, <1>2, <1>3, <1>4, <1>5 DEF JobsNext, Work, Environment

\* A line is taken over from one place by the next, and lost to none.
LEMMA LineStep ==
    ASSUME TypeInv, [JobsNext]_vars, ~ Crash, NEW j \in Jobs, NEW n \in Lines, InOnePlace(j, n)
    PROVE  InOnePlace(j, n)'
<1> USE JobsAssumption, LineTypes DEF TypeInv, Procs, Goto
<1>1. ASSUME NEW k \in Jobs, StartTuner(k) \/ EndTuner(k) \/ PrintLine(k) \/ Exit(k)
      PROVE  Untouched(j, n)
  BY <1>1 DEF StartTuner, EndTuner, PrintLine, Exit, Untouched, Holds, jobs, history
<1>2. ASSUME NEW k \in Jobs, ReadLine(k) PROVE InOnePlace(j, n)'
  <2>1. UNCHANGED <<lines, lost, pc, job, item>>
    BY <1>2 DEF ReadLine, jobs, history
  <2>2. CASE k # j
    <3>1. queue'[j] = queue[j] /\ read'[j] = read[j]
      BY <1>2, <2>2 DEF ReadLine, PutLine, PutMarker, PipeType
    <3> QED
      BY <2>1, <3>1, UntouchedStays DEF Untouched, Holds
  <2>3. CASE k = j /\ PutMarker(j)
    <3>1. queue'[j] = Append(queue[j], Sentinel) /\ read' = read
      BY <2>3 DEF PutMarker, PipeType
    <3>2. Untouched(j, n)
      <4>1. Grown(n, queue[j], Sentinel)
        BY QueuesAndLines
      <4> QED
        BY <2>1, <3>1, <4>1 DEF Grown, Untouched, Holds
    <3> QED
      BY <3>2, UntouchedStays
  <2>4. CASE k = j /\ PutLine(j) /\ read[j] < printed[j]
    <3>1. /\ queue'[j] = Append(queue[j], read[j] + 1) /\ read'[j] = read[j] + 1
          /\ read[j] + 1 \in Lines \cup {Sentinel} /\ read[j] \in Nat /\ n \in Nat
      BY <2>4 DEF PutLine, PipeType, Lines
    <3>2. CASE n = read[j] + 1
      <4>1. Elsewhere(j, n, "pipe")
        BY <3>1, <3>2, FoundThere
      <4>2. Once(n, queue'[j])
        <5>1. Grown(n, queue[j], read[j] + 1)
          BY <3>1, QueuesAndLines
        <5> QED
          BY <3>1, <3>2, <4>1, <5>1 DEF Grown, Elsewhere
      <4>3. Elsewhere(j, n, "queue")'
        BY <2>1, <3>1, <3>2, <4>1 DEF Elsewhere, Holds
      <4> QED
        BY <4>2, <4>3 DEF InOnePlace
    <3>3. CASE n # read[j] + 1
      <4>1. Untouched(j, n)
        <5>1. Grown(n, queue[j], read[j] + 1)
          BY <3>1, QueuesAndLines
        <5>2. n > read[j] + 1 <=> n > read[j]
          BY ONLY <3>1, <3>3
        <5> QED
          BY <2>1, <3>1, <3>3, <5>1, <5>2 DEF Grown, Untouched, Holds
      <4> QED
        BY <4>1, UntouchedStays
    <3> QED
      BY <3>2, <3>3
  <2> QED
    BY <1>2, <2>2, <2>3, <2>4 DEF ReadLine
<1>3. ASSUME NEW p \in Procs, Persist(p) PROVE Untouched(j, n)
  <2>1. UNCHANGED <<lines, lost, job, queue, read>> /\ pc[p] # "got" /\ pc'[p] # "got"
    BY <1>3 DEF Persist, Snapshot, Truncate, Write, PersistRaises, After, jobs, history, child, PlacesType, Saving
  <2>2. \A s \in Streams \ {p} : pc'[s] = pc[s] /\ item'[s] = item[s]
    BY <1>3 DEF Persist, Snapshot, Truncate, Write, PersistRaises, After, Send, Gone, PlacesType
  <2> QED
    BY <2>1, <2>2 DEF Untouched, Holds
<1>4. ASSUME NEW c \in Callers, Cancelling(c) PROVE Untouched(j, n)
  <2>1. UNCHANGED <<lost, job, read, item>>
    BY <1>4 DEF Cancelling, Poll, TerminateFails, WaitOrKill, Mark, NoteCancel, history, child
  <2>2. \A s \in Streams : pc'[s] = pc[s]
    BY <1>4 DEF Cancelling, Poll, TerminateFails, WaitOrKill, Mark, NoteCancel, PlacesType
  <2>3. CASE NoteCancel(c)
    <3>1. /\ lines'[j] = lines[j] \/ lines'[j] = Append(lines[j], Note)
          /\ queue'[j] = queue[j] \/ queue'[j] = Append(queue[j], Sentinel)
      BY <2>3 DEF NoteCancel, StoreType, PipeType
    <3>2. /\ Absent(n, lines[j]) => Absent(n, lines'[j])
          /\ Once(n, lines[j]) => Once(n, lines'[j])
      BY <3>1, QueuesAndLines DEF Grown
    <3>3. /\ Absent(n, queue[j]) => Absent(n, queue'[j])
          /\ Once(n, queue[j]) => Once(n, queue'[j])
      BY <3>1, QueuesAndLines DEF Grown
    <3> QED
      BY <2>1, <2>2, <3>2, <3>3 DEF Untouched, Holds
  <2>4. CASE ~ NoteCancel(c)
    <3>1. UNCHANGED <<lines, queue>>
      BY <1>4, <2>4 DEF Cancelling, Poll, TerminateFails, WaitOrKill, Mark, jobs
    <3> QED
      BY <2>1, <2>2, <3>1 DEF Untouched, Holds
  <2> QED
    BY <2>3, <2>4
<1>5. ASSUME NEW c \in Callers, NEW k \in Jobs, start_optimize(c, k) \/ cancel_job(c, k) PROVE Untouched(j, n)
  <2>1. /\ UNCHANGED <<lines, lost, queue, read, item>>
        /\ \A s \in Streams : pc'[s] = pc[s] /\ job'[s] = job[s]
    BY <1>5 DEF start_optimize, cancel_job, jobs, history, child, PlacesType
  <2> QED
    BY <2>1 DEF Untouched, Holds
<1>6. ASSUME NEW s \in Streams, NEW k \in Jobs, stream_optimize(s, k) PROVE Untouched(j, n)
  <2>1. UNCHANGED <<lines, lost, queue, read, item>> /\ pc[s] # "got" /\ pc'[s] # "got"
    BY <1>6 DEF stream_optimize, jobs, history, child, PlacesType
  <2>2. \A t \in Streams \ {s} : pc'[t] = pc[t] /\ job'[t] = job[t]
    BY <1>6 DEF stream_optimize
  <2> QED
    BY <2>1, <2>2 DEF Untouched, Holds
<1>7. ASSUME NEW s \in Streams, Replay(s) \/ CheckStatus(s) \/ GotMarker(s) \/ Reap(s) \/ Settle(s)
      PROVE  Untouched(j, n)
  <2>1. UNCHANGED <<lines, lost, job, queue, read, item>>
    BY <1>7 DEF Replay, CheckStatus, GotMarker, Reap, Settle, jobs, history, child
  <2>2. /\ pc'[s] # "got" /\ (pc[s] = "got" => item[s] = Sentinel)
        /\ \A t \in Streams \ {s} : pc'[t] = pc[t]
    BY <1>7 DEF Replay, CheckStatus, GotMarker, Reap, Settle, PlacesType
  <2> QED
    BY <2>1, <2>2 DEF Untouched, Holds
<1>8. ASSUME NEW s \in Streams, Take(s) PROVE InOnePlace(j, n)'
  <2>1. /\ UNCHANGED <<lines, lost, job, read>> /\ pc[s] # "got" /\ pc'[s] = "got"
        /\ item'[s] = Head(queue[job[s]]) /\ queue[job[s]] # <<>>
        /\ \A t \in Streams \ {s} : pc'[t] = pc[t] /\ item'[t] = item[t]
    BY <1>8 DEF Take, jobs, history, child, PlacesType
  <2>2. queue' = [queue EXCEPT ![job[s]] = Tail(queue[job[s]])]
    BY <1>8 DEF Take
  <2>3. CASE job[s] # j
    <3>1. queue'[j] = queue[j]
      BY <2>2, <2>3 DEF PipeType, PlacesType
    <3>2. Untouched(j, n)
      BY <2>1, <2>3, <3>1 DEF Untouched, Holds
    <3> QED
      BY <3>2, UntouchedStays
  <2>4. CASE job[s] = j /\ Head(queue[j]) # n
    <3>1. queue'[j] = Tail(queue[j])
      BY <2>2, <2>4 DEF PipeType, PlacesType
    <3>2. Untouched(j, n)
      <4>1. Shrunk(n, queue[j])
        BY <2>1, <2>4, QueuesAndLines
      <4>2. \A t \in Streams : Holds(t, j, n)' <=> Holds(t, j, n)
        BY <2>1, <2>4 DEF Holds
      <4> QED
        BY <2>1, <2>4, <3>1, <4>1, <4>2 DEF Shrunk, Untouched
    <3> QED
      BY <3>2, UntouchedStays
  <2>5. CASE job[s] = j /\ Head(queue[j]) = n
    <3>1. queue'[j] = Tail(queue[j])
      BY <2>2, <2>5 DEF PipeType, PlacesType
    <3>2. Once(n, queue[j]) /\ Elsewhere(j, n, "queue")
      BY <2>1, <2>5, QueuesAndLines, FoundThere DEF Shrunk, PipeType
    <3>3. Absent(n, queue'[j])
      BY <2>1, <2>5, <3>1, <3>2, QueuesAndLines DEF Shrunk, PipeType
    <3>4. Holds(s, j, n)' /\ \A t \in Streams : Holds(t, j, n)' => t = s
      BY <2>1, <2>5, <3>2 DEF Holds, Elsewhere
    <3>5. Elsewhere(j, n, "stream")'
      BY <2>1, <3>2, <3>3 DEF Elsewhere
    <3> QED
      BY <3>4, <3>5 DEF InOnePlace
  <2> QED
    BY <2>3, <2>4, <2>5
<1>9. ASSUME NEW s \in Streams, GotLine(s) PROVE InOnePlace(j, n)'
  <2>1. /\ UNCHANGED <<lost, job, queue, read>> /\ pc[s] = "got" /\ pc'[s] # "got" /\ item[s] \in Lines
        /\ \A t \in Streams \ {s} : pc'[t] = pc[t] /\ item'[t] = item[t]
    BY <1>9 DEF GotLine, Send, history, child, PlacesType
  <2>2. lines' = [lines EXCEPT ![job[s]] = Append(lines[job[s]], item[s])]
    BY <1>9 DEF GotLine, Capture
  <2>3. CASE ~ Holds(s, j, n)
    <3>1. lines'[j] = lines[j] \/ (lines'[j] = Append(lines[j], item[s]) /\ item[s] # n)
      BY <2>1, <2>2, <2>3 DEF Holds, StoreType, PlacesType
    <3>2. Grown(n, lines[j], item[s])
      BY <2>1, QueuesAndLines
    <3>3. /\ Absent(n, lines[j]) => Absent(n, lines'[j])
          /\ Once(n, lines[j]) => Once(n, lines'[j])
      BY <3>1, <3>2 DEF Grown
    <3>4. Untouched(j, n)
      BY <2>1, <2>3, <3>3 DEF Untouched, Holds
    <3> QED
      BY <3>4, UntouchedStays
  <2>4. CASE Holds(s, j, n)
    <3>1. Elsewhere(j, n, "stream") /\ \A t \in Streams : Holds(t, j, n) => t = s
      BY <2>4, FoundThere
    <3>2. lines'[j] = Append(lines[j], n)
      BY <2>2, <2>4 DEF Holds, StoreType
    <3>3. Once(n, lines'[j])
      BY <3>1, <3>2, QueuesAndLines DEF Grown, Elsewhere, StoreType
    <3>4. Elsewhere(j, n, "lines")'
      BY <2>1, <3>1 DEF Elsewhere, Holds
    <3> QED
      BY <3>3, <3>4 DEF InOnePlace
  <2> QED
    BY <2>3, <2>4
<1>10. ASSUME NEW s \in Streams, Disconnect(s) PROVE InOnePlace(j, n)'
  <2>1. /\ UNCHANGED <<lines, job, queue, read>> /\ pc'[s] # "got"
        /\ \A t \in Streams \ {s} : pc'[t] = pc[t] /\ item'[t] = item[t]
    BY <1>10 DEF Disconnect, Gone, jobs, child, PlacesType
  <2>2. lost' = IF pc[s] = "got" THEN [lost EXCEPT ![job[s]] = lost[job[s]] \cup {item[s]}] ELSE lost
    BY <1>10 DEF Disconnect
  <2>3. CASE ~ Holds(s, j, n)
    <3>1. n \in lost'[j] <=> n \in lost[j]
      BY <2>2, <2>3 DEF Holds, SentType, PlacesType
    <3>2. Untouched(j, n)
      BY <2>1, <2>3, <3>1 DEF Untouched, Holds
    <3> QED
      BY <3>2, UntouchedStays
  <2>4. CASE Holds(s, j, n)
    <3>1. Elsewhere(j, n, "stream") /\ \A t \in Streams : Holds(t, j, n) => t = s
      BY <2>4, FoundThere
    <3>2. n \in lost'[j]
      BY <2>2, <2>4 DEF Holds, SentType
    <3>3. Elsewhere(j, n, "lost")'
      BY <2>1, <3>1 DEF Elsewhere, Holds
    <3> QED
      BY <3>2, <3>3 DEF InOnePlace
  <2> QED
    BY <2>3, <2>4
<1>11. ASSUME NEW s \in Streams, TakeForNobody(s) PROVE InOnePlace(j, n)'
  <2>1. /\ UNCHANGED <<lines, job, read, item>> /\ pc[s] # "got" /\ pc'[s] # "got"
        /\ \A t \in Streams \ {s} : pc'[t] = pc[t]
    BY <1>11 DEF TakeForNobody, jobs, child, PlacesType
  <2>2. CASE queue[job[s]] = <<>> \/ job[s] # j
    <3>1. queue'[j] = queue[j] /\ lost'[j] = lost[j]
      BY <1>11, <2>2 DEF TakeForNobody, PipeType, SentType, PlacesType
    <3>2. Untouched(j, n)
      BY <2>1, <3>1 DEF Untouched, Holds
    <3> QED
      BY <3>2, UntouchedStays
  <2>3. CASE queue[j] # <<>> /\ job[s] = j
    <3>1. queue'[j] = Tail(queue[j]) /\ lost'[j] = lost[j] \cup {Head(queue[j])}
      BY <1>11, <2>3 DEF TakeForNobody, PipeType, SentType
    <3>2. CASE Head(queue[j]) # n
      <4>1. Untouched(j, n)
        <5>1. Shrunk(n, queue[j])
          BY <2>3, QueuesAndLines
        <5>2. n \in lost'[j] <=> n \in lost[j]
          BY <3>1, <3>2
        <5> QED
          BY <2>1, <3>1, <3>2, <5>1, <5>2 DEF Shrunk, Untouched, Holds
      <4> QED
        BY <4>1, UntouchedStays
    <3>3. CASE Head(queue[j]) = n
      <4>1. Once(n, queue[j]) /\ Elsewhere(j, n, "queue")
        BY <2>3, <3>3, QueuesAndLines, FoundThere DEF Shrunk, PipeType
      <4>2. Absent(n, queue'[j])
        BY <2>3, <3>1, <3>3, <4>1, QueuesAndLines DEF Shrunk, PipeType
      <4>3. Elsewhere(j, n, "lost")' /\ n \in lost'[j]
        BY <2>1, <3>1, <3>3, <4>1, <4>2 DEF Elsewhere, Holds
      <4> QED
        BY <4>3 DEF InOnePlace
    <3> QED
      BY <3>2, <3>3
  <2> QED
    BY <2>2, <2>3
<1>12. CASE UNCHANGED vars
  BY <1>12, UntouchedStays DEF vars, jobs, child, history, Untouched, Holds
<1> HIDE DEF TypeInv, Procs, Goto
<1> QED
  BY <1>1, <1>2, <1>3, <1>4, <1>5, <1>6, <1>7, <1>8, <1>9, <1>10, <1>11, <1>12, UntouchedStays
     DEF JobsNext, Work, Environment, Streaming

\* The invariant about the places of lines is inductive.
LEMMA LinesInvariant == JobsSpec => []LinesInv
<1>1. JobsInit => LinesInv
  BY DEF JobsInit, LinesInv, InOnePlace, Elsewhere, Holds, Absent, Lines, Procs
<1>2. TypeInv /\ EndsInv /\ LinesInv /\ [JobsNext]_vars => LinesInv'
  <2> SUFFICES ASSUME TypeInv, EndsInv, LinesInv, [JobsNext]_vars, NEW j \in Jobs
               PROVE  IF proc'[j] = "gone" THEN printed'[j] = 0 /\ tuner'[j] # "working"
                                       ELSE \A n \in Lines : InOnePlace(j, n)'
    BY DEF LinesInv
  <2>1. CASE Crash
    <3>1. CASE proc[j] = "none"
      <4>1. /\ lines'[j] = <<>> /\ queue'[j] = <<>> /\ read'[j] = 0 /\ lost'[j] = {}
            /\ \A s \in Streams : pc'[s] # "got"
        BY <2>1, <3>1 DEF Crash, Loaded, EndsInv, StartedInv, NotSaved, Nobody, Procs
      <4>2. \A n \in Lines : InOnePlace(j, n)'
        BY <4>1 DEF InOnePlace, Elsewhere, Holds, Absent, Lines
      <4> QED
        BY <2>1, <3>1, <4>2 DEF Crash
    <3> QED
      BY <2>1, <3>1 DEF Crash
  <2>2. CASE ~ Crash /\ proc[j] = "gone"
    <3>1. proc'[j] = "gone" /\ printed[j] = 0 /\ tuner[j] # "working" /\ tuner'[j] # "working"
      BY <2>2, ProcStep, TunerStep DEF LinesInv, Running
    <3>2. \A k \in Jobs : PrintLine(k) => printed'[j] = printed[j]
      BY <2>2, <3>1 DEF PrintLine, Running, TypeInv, PipeType
    <3> QED
      BY <2>2, <3>1, <3>2, PrintedStep
  <2>3. CASE ~ Crash /\ proc[j] # "gone"
    <3>1. \A n \in Lines : InOnePlace(j, n)'
      BY <2>3, LineStep DEF LinesInv
    <3> QED
      BY <2>3, <3>1, ProcStep
  <2> QED
    BY <2>1, <2>2, <2>3
<1> QED
  BY <1>1, <1>2, TypeInvariant, EndsInvariant, PTL DEF JobsSpec

\* Every line that was printed is in one place, once, whatever clients come and go.
THEOREM LinesKept == JobsSpec => []EachLineOnce
<1>1. TypeInv /\ LinesInv => EachLineOnce
  <2> SUFFICES ASSUME TypeInv, LinesInv, NEW j \in Jobs, NEW n \in 1 .. printed[j]
               PROVE  (IF n > read[j] THEN 1 ELSE 0)
                        + Cardinality(At(n, queue[j])) + Cardinality(At(n, lines[j]))
                        + Cardinality({s \in Streams : job[s] = j /\ pc[s] = "got" /\ item[s] = n})
                        + (IF n \in lost[j] THEN 1 ELSE 0) = 1
    BY DEF EachLineOnce
  <2>1. InOnePlace(j, n)
    <3>1. printed[j] \in 0 .. MaxLines /\ n \in Lines /\ printed[j] # 0
      BY JobsAssumption DEF TypeInv, PipeType, Lines
    <3> QED
      BY <3>1 DEF LinesInv
  <2>2. \A q : (Absent(n, q) => Cardinality(At(n, q)) = 0) /\ (Once(n, q) => Cardinality(At(n, q)) = 1)
    <3>1. ASSUME NEW q, Absent(n, q) PROVE Cardinality(At(n, q)) = 0
      <4>1. At(n, q) = {}
        BY <3>1 DEF Absent, At
      <4> QED
        BY <4>1, FS_EmptySet
    <3>2. ASSUME NEW q, Once(n, q) PROVE Cardinality(At(n, q)) = 1
      <4>1. PICK i \in DOMAIN q : q[i] = n /\ \A k \in DOMAIN q : q[k] = n => k = i
        BY <3>2 DEF Once
      <4>2. At(n, q) = {i}
        BY <4>1 DEF At
      <4> QED
        BY <4>2, FS_Singleton
    <3> QED
      BY <3>1, <3>2
  <2> DEFINE InHand == {s \in Streams : job[s] = j /\ pc[s] = "got" /\ item[s] = n}
  <2>3. (\A s \in Streams : ~ Holds(s, j, n)) => Cardinality(InHand) = 0
    <3>1. (\A s \in Streams : ~ Holds(s, j, n)) => InHand = {}
      BY DEF Holds
    <3> QED
      BY <3>1, FS_EmptySet
  <2>4. (\E s \in Streams : Holds(s, j, n) /\ \A t \in Streams : Holds(t, j, n) => t = s) => Cardinality(InHand) = 1
    <3>1. ASSUME NEW s \in Streams, Holds(s, j, n), \A t \in Streams : Holds(t, j, n) => t = s
          PROVE  InHand = {s}
      BY <3>1 DEF Holds
    <3> QED
      BY <3>1, FS_Singleton
  <2> HIDE DEF InHand
  <2> SUFFICES (IF n > read[j] THEN 1 ELSE 0) + Cardinality(At(n, queue[j])) + Cardinality(At(n, lines[j]))
                 + Cardinality(InHand) + (IF n \in lost[j] THEN 1 ELSE 0) = 1
    BY DEF InHand
  <2> QED
    BY <2>1, <2>2, <2>3, <2>4 DEF InOnePlace, Elsewhere
<1> QED
  BY <1>1, TypeInvariant, LinesInvariant, PTL

----------------------------------------------------------------------------
(* The client that streams a job alone.                                        *)

\* The sequence 1, 2, 3, ...
Counts(q) == \A i \in 1 .. Len(q) : q[i] = i

\* The queue holds the lines after a up to b, in order, and then the end marker or not.
Pending(q, a, b, marked) ==
    /\ a <= b /\ Len(q) = (b - a) + (IF marked THEN 1 ELSE 0)
    /\ \A i \in 1 .. b - a : q[i] = a + i
    /\ marked => q[b - a + 1] = Sentinel

\* Nobody has begun to cancel the job, and it is of this life of the service.
Unspoilt(j) == "cancelled" \notin had[j] /\ proc[j] # "gone"

\* The generator has the end marker, or had.
MarkerOut(s) ==
    \/ pc[s] = "got" /\ item[s] = Sentinel
    \/ pc[s] \in {"reap", "settle", "ended"}
    \/ pc[s] \in Saving /\ op[s] = "end"

InHand(s) == IF pc[s] = "got" /\ item[s] # Sentinel THEN 1 ELSE 0
Owes(s) == pc[s] \in Saving /\ op[s] = "line"

\* The captured lines, the one in hand and the queue are 1 .. read[j], in this order.
Unbroken(s, j) ==
    /\ Counts(lines[j])
    /\ InHand(s) = 1 => item[s] = Len(lines[j]) + 1
    /\ Pending(queue[j], Len(lines[j]) + InHand(s), read[j], reader[j] = "ended" /\ ~ MarkerOut(s))
    /\ MarkerOut(s) => reader[j] = "ended" /\ Len(lines[j]) = read[j]

\* What was sent is what was captured, but for the replay and the line being saved.
Delivered(s, j) ==
    /\ Counts(sent[s]) /\ Len(sent[s]) <= Len(lines[j])
    /\ Owes(s) => item[s] = Len(lines[j]) /\ Len(sent[s]) = Len(lines[j]) - 1
    /\ pc[s] # "replay" /\ ~ Owes(s) => Len(sent[s]) = Len(lines[j])

LoneInv(s, j) == Unbroken(s, j) /\ Delivered(s, j)

\* A caller that is still saving the start has not started the reader.
Starting(c) == pc[c] \in Saving /\ op[c] = "start"
ReaderInv ==
    /\ \A c \in Callers : Starting(c) => reader[job[c]] = "none"
    /\ \A c, d \in Callers : Starting(c) /\ Starting(d) /\ job[c] = job[d] => c = d
    /\ \A j \in Jobs : reader[j] = "ended" => read[j] = printed[j] /\ OutputEnds(j)

\* Who streams a job is among its clients, and without any nothing was taken.
MembersInv ==
    /\ \A s \in Streams : pc[s] = "idle" => sent[s] = <<>>
    /\ \A j \in Jobs : \A s \in clients[j] : job[s] = j /\ pc[s] # "idle"
    /\ \A s \in Streams : pc[s] \notin {"idle", "gone"} => s \in clients[job[s]]

\* A status is settled by a stream that has come to its end, or by a cancellation.
Told(s) == pc[s] \in {"ended", "gone"} \/ (pc[s] \in Saving /\ op[s] = "end")
TellInv ==
    /\ \A c \in Callers : pc[c] = "note" => "cancelled" \in had[job[c]]
    /\ \A j \in Jobs : proc[j] \notin {"none", "gone"} => status[j] \notin {"absent", "interrupted"}
    /\ \A j \in Jobs : proc[j] # "gone" /\ status[j] \in {"done", "failed"} => \E s \in clients[j] : Told(s)

AloneInv ==
    \A j \in Jobs : Unspoilt(j) =>
        /\ clients[j] = {} => lines[j] = <<>> /\ Pending(queue[j], 0, read[j], reader[j] = "ended")
        /\ \A s \in Streams : clients[j] = {s} /\ pc[s] \notin {"gone", "orphan"} => LoneInv(s, j)

ClientsInv == ReaderInv /\ MembersInv /\ TellInv /\ AloneInv

\* Whoever saves a start has begun it, and did not turn to another job since.
ToStart(c) ==
    Starting(c)' => \/ Starting(c) /\ job'[c] = job[c]
                    \/ start_optimize(c, job'[c])

\* Every step keeps to that.
LEMMA StarterStep == ASSUME TypeInv, [JobsNext]_vars PROVE \A c \in Callers : ToStart(c)
<1> USE JobsAssumption DEF TypeInv, PlacesType, Procs, Goto, ToStart, Starting, Saving
<1> DEFINE Goal == \A c \in Callers : ToStart(c)
<1> SUFFICES Goal
  OBVIOUS
<1>1. ASSUME NEW j \in Jobs, StartTuner(j) \/ EndTuner(j) \/ PrintLine(j) \/ Exit(j) \/ ReadLine(j)
      PROVE  Goal
  BY <1>1 DEF StartTuner, EndTuner, PrintLine, Exit, ReadLine
<1>2. ASSUME NEW p \in Procs, Persist(p) PROVE Goal
  <2>1. /\ job' = job /\ \A q \in Procs \ {p} : pc'[q] = pc[q] /\ op'[q] = op[q]
        /\ pc[p] \in Saving /\ (op'[p] = op[p] \/ op'[p] = "none")
    BY <1>2 DEF Persist, Snapshot, Truncate, Write, PersistRaises, After
  <2> QED
    BY <2>1
<1>3. ASSUME NEW c \in Callers, Cancelling(c) PROVE Goal
  <2>1. job' = job /\ \A q \in Procs \ {c} : pc'[q] = pc[q] /\ op'[q] = op[q]
    BY <1>3 DEF Cancelling, Poll, TerminateFails, WaitOrKill, Mark, NoteCancel
  <2>2. pc'[c] = "snapshot" => op'[c] = "cancel"
    BY <1>3 DEF Cancelling, Poll, TerminateFails, WaitOrKill, Mark, NoteCancel
  <2>3. pc'[c] \notin {"truncate", "write"}
    BY <1>3 DEF Cancelling, Poll, TerminateFails, WaitOrKill, Mark, NoteCancel
  <2> QED
    BY <2>1, <2>2, <2>3
<1>4. ASSUME NEW c \in Callers, NEW j \in Jobs, start_optimize(c, j) PROVE Goal
  <2>1. job' = [job EXCEPT ![c] = j] /\ \A q \in Procs \ {c} : pc'[q] = pc[q] /\ op'[q] = op[q]
    BY <1>4 DEF start_optimize
  <2> QED
    BY <1>4, <2>1
<1>5. ASSUME NEW c \in Callers, NEW j \in Jobs, cancel_job(c, j) PROVE Goal
  <2>1. job' = [job EXCEPT ![c] = j] /\ pc' = [pc EXCEPT ![c] = "poll"] /\ op' = op
    BY <1>5 DEF cancel_job
  <2> QED
    BY <2>1
<1>6. ASSUME NEW s \in Streams, Streaming(s) \/ Disconnect(s) \/ \E j \in Jobs : stream_optimize(s, j) PROVE Goal
  <2>1. \A q \in Procs \ {s} : pc'[q] = pc[q] /\ job'[q] = job[q] /\ op'[q] = op[q]
    BY <1>6 DEF Streaming, Replay, CheckStatus, Take, GotLine, GotMarker, Reap, Settle, TakeForNobody,
                Disconnect, stream_optimize
  <2> QED
    BY <2>1
<1>7. CASE Crash
  <2>1. \A p \in Procs : pc'[p] \in {"idle", "gone"}
    BY <1>7 DEF Crash
  <2> QED
    BY <2>1
<1>8. CASE UNCHANGED vars
  BY <1>8 DEF vars
<1> HIDE DEF TypeInv, PlacesType, Procs, Goto, ToStart, Starting, Saving
<1> QED
  BY <1>1, <1>2, <1>3, <1>4, <1>5, <1>6, <1>7, <1>8 DEF JobsNext, Work, Environment

\* A reader is started by the caller that saved the start, and reads to the end.
StartsReader(c) == Starting(c) /\ ~ Starting(c)' /\ reader' = [reader EXCEPT ![job[c]] = "reading"]

\* Only the reader and its start touch what was read.
LEMMA ReaderStep ==
    ASSUME TypeInv, [JobsNext]_vars
    PROVE  \/ UNCHANGED <<reader, read>> \/ Crash
           \/ \E j \in Jobs : ReadLine(j)
           \/ \E c \in Callers : StartsReader(c) /\ read' = read
<1>1. ASSUME NEW j \in Jobs, StartTuner(j) \/ EndTuner(j) \/ PrintLine(j) \/ Exit(j)
      PROVE  UNCHANGED <<reader, read>>
  BY <1>1 DEF StartTuner, EndTuner, PrintLine, Exit
<1>2. ASSUME NEW p \in Procs, Persist(p), ~ (Write(p) /\ op[p] = "start") PROVE UNCHANGED <<reader, read>>
  BY <1>2 DEF Persist, Snapshot, Truncate, Write, PersistRaises, After, child
<1>3. ASSUME NEW p \in Procs, Write(p), op[p] = "start" PROVE p \in Callers /\ StartsReader(p) /\ read' = read
  <2>1. p \in Callers
    BY <1>3 DEF Write, TypeInv, PlacesType, Saving, Procs
  <2>2. Starting(p) /\ pc'[p] = "idle" /\ reader' = [reader EXCEPT ![job[p]] = "reading"] /\ read' = read
    BY <1>3 DEF Write, After, Goto, TypeInv, PlacesType, Starting, Saving, child
  <2> QED
    BY <2>1, <2>2 DEF StartsReader, Starting, Saving
<1>4. ASSUME NEW c \in Callers, Cancelling(c) \/ \E j \in Jobs : start_optimize(c, j) \/ cancel_job(c, j)
      PROVE  UNCHANGED <<reader, read>>
  BY <1>4 DEF Cancelling, Poll, TerminateFails, WaitOrKill, Mark, NoteCancel, start_optimize, cancel_job, child
<1>5. ASSUME NEW s \in Streams, Streaming(s) \/ Disconnect(s) \/ \E j \in Jobs : stream_optimize(s, j)
      PROVE  UNCHANGED <<reader, read>>
  BY <1>5 DEF Streaming, Replay, CheckStatus, Take, GotLine, GotMarker, Reap, Settle, TakeForNobody,
              Disconnect, stream_optimize, child
<1>6. CASE UNCHANGED vars
  BY <1>6 DEF vars, child
<1> QED
  BY <1>1, <1>2, <1>3, <1>4, <1>5, <1>6 DEF JobsNext, Work, Environment, Persist

\* The reader is started once, by the caller that started the job.
LEMMA ReaderKept == ASSUME TypeInv, EndsInv, ReaderInv, [JobsNext]_vars PROVE ReaderInv'
<1> DEFINE Mine(c) == Starting(c) /\ job'[c] = job[c]
<1>1. \A c \in Callers : Starting(c)' => Mine(c) \/ start_optimize(c, job'[c])
  BY StarterStep DEF ToStart
<1>2. ASSUME NEW c \in Callers, NEW k \in Jobs, start_optimize(c, k)
      PROVE  /\ reader' = reader /\ reader[k] = "none" /\ job' = [job EXCEPT ![c] = k]
             /\ \A d \in Callers : Starting(d) => job[d] # k
             /\ ~ Starting(c)
  BY <1>2 DEF start_optimize, EndsInv, StartedInv, NoTrace, NotUsed, Starting, Saving, Procs
<1>3. \A c \in Callers : job[c] \in Jobs /\ job'[c] \in Jobs
  BY PlacesTyped DEF TypeInv, PlacesType, Procs
<1>4. ASSUME NEW c \in Callers, Starting(c)' PROVE reader'[job'[c]] = "none"
  <2>1. CASE start_optimize(c, job'[c])
    BY <1>2, <1>3, <2>1
  <2>2. CASE Mine(c)
    <3>1. reader[job[c]] = "none" /\ job'[c] = job[c]
      BY <2>2 DEF ReaderInv
    <3>2. ~ Crash
      BY <1>4 DEF Crash, Starting, Saving, Procs
    <3>3. ASSUME NEW k \in Jobs, ReadLine(k) PROVE reader'[job[c]] = "none"
      BY <1>3, <3>1, <3>3 DEF ReadLine, PutLine, PutMarker, TypeInv, PipeType
    <3>4. ASSUME NEW d \in Callers, StartsReader(d) PROVE reader'[job[c]] = "none"
      <4>1. job[d] # job[c]
        BY <1>4, <2>2, <3>4 DEF StartsReader, ReaderInv
      <4> QED
        BY <1>3, <3>1, <3>4, <4>1 DEF StartsReader, TypeInv, PipeType
    <3> QED
      BY <3>1, <3>2, <3>3, <3>4, ReaderStep
  <2> QED
    BY <1>1, <1>4, <2>1, <2>2
<1>5. ASSUME NEW c \in Callers, NEW d \in Callers, Starting(c)', Starting(d)', job'[c] = job'[d] PROVE c = d
  <2>1. CASE Mine(c) /\ Mine(d)
    BY <1>5, <2>1 DEF ReaderInv
  <2>2. ASSUME NEW a \in Callers, NEW b \in Callers, start_optimize(a, job'[a]), job'[a] = job'[b], Mine(b) PROVE a = b
    BY <1>2, <1>3, <2>2
  <2>3. ASSUME start_optimize(c, job'[c]), start_optimize(d, job'[d]) PROVE c = d
    <3>1. pc[c] = "idle" /\ pc[d] = "idle" /\ pc'[c] = "snapshot" /\ pc' = [pc EXCEPT ![d] = "snapshot"]
      BY <2>3 DEF start_optimize, Goto, TypeInv, PlacesType, Procs
    <3> QED
      BY <3>1 DEF TypeInv, PlacesType, Procs
  <2> QED
    BY <1>1, <1>5, <2>1, <2>2, <2>3
<1>6. ASSUME NEW j \in Jobs, reader'[j] = "ended" PROVE read'[j] = printed'[j] /\ OutputEnds(j)'
  <2>1. ~ Crash
    BY <1>6 DEF Crash
  <2>2. CASE reader[j] = "ended" /\ read'[j] = read[j]
    <3>1. read[j] = printed[j] /\ Quiet(j)
      BY <2>2 DEF ReaderInv, EndsInv, StartedInv, NoTrace, Quiet
    <3>2. OutputEnds(j)'
      BY <3>1, QuietStays DEF Quiet
    <3>3. \A k \in Jobs : PrintLine(k) => printed'[j] = printed[j]
      BY <3>1 DEF Quiet, OutputEnds, PrintLine, TypeInv, PipeType
    <3> QED
      BY <2>1, <2>2, <3>1, <3>2, <3>3, PrintedStep
  <2>3. ASSUME NEW k \in Jobs, ReadLine(k) PROVE \/ reader[j] = "ended" /\ read'[j] = read[j]
                                                 \/ read'[j] = printed'[j] /\ OutputEnds(j)'
    <3>1. CASE k # j
      BY <1>6, <2>3, <3>1 DEF ReadLine, PutLine, PutMarker, TypeInv, PipeType
    <3>2. CASE k = j
      <4>1. ~ read[j] < printed[j] /\ OutputEnds(j) /\ PutMarker(j) /\ UNCHANGED <<proc, tuner, printed>>
        BY <1>6, <2>3, <3>2 DEF ReadLine, PutLine
      <4> QED
        BY <4>1 DEF PutMarker, OutputEnds, TypeInv, PipeType
    <3> QED
      BY <3>1, <3>2
  <2>4. ASSUME NEW d \in Callers, StartsReader(d), read' = read PROVE reader[j] = "ended" /\ read'[j] = read[j]
    BY <1>3, <1>6, <2>4 DEF StartsReader, TypeInv, PipeType
  <2> QED
    BY <1>6, <2>1, <2>2, <2>3, <2>4, ReaderStep
<1> QED
  BY <1>4, <1>5, <1>6 DEF ReaderInv

\* What happens to a client of a job, short of a restart: it keeps its job, does not
\* begin again or come back, and what told it __DONE__ stays so.
Stays(s) ==
    /\ job'[s] = job[s]
    /\ pc'[s] = "idle" <=> pc[s] = "idle"
    /\ pc[s] = "gone" => pc'[s] = "gone"
    /\ pc[s] = "orphan" => pc'[s] \in {"orphan", "gone"}
    /\ pc[s] = "idle" => sent'[s] = sent[s]
    /\ Told(s) => Told(s)'

\* Every step is a restart, a new client or leaves the clients alone.
LEMMA MemberStep ==
    ASSUME TypeInv, [JobsNext]_vars
    PROVE  \/ Crash
           \/ clients' = clients /\ \A s \in Streams : Stays(s)
           \/ \E s \in Streams : \E j \in Jobs : stream_optimize(s, j)
<1> USE JobsAssumption DEF TypeInv, PlacesType, Procs, Goto, Stays, Told, Saving
<1> DEFINE Goal == clients' = clients /\ \A s \in Streams : Stays(s)
<1>1. ASSUME NEW j \in Jobs, StartTuner(j) \/ EndTuner(j) \/ PrintLine(j) \/ Exit(j) \/ ReadLine(j)
      PROVE  Goal
  BY <1>1 DEF StartTuner, EndTuner, PrintLine, Exit, ReadLine, history
<1>2. ASSUME NEW p \in Procs, Persist(p) PROVE Goal
  <2>1. job' = job /\ clients' = clients
    BY <1>2 DEF Persist, Snapshot, Truncate, Write, PersistRaises, After, history
  <2>2. \A q \in Procs \ {p} : pc'[q] = pc[q] /\ op'[q] = op[q]
    BY <1>2 DEF Persist, Snapshot, Truncate, Write, PersistRaises, After
  <2>3. \A s \in Streams \ {p} : sent'[s] = sent[s]
    BY <1>2 DEF Persist, Snapshot, Truncate, Write, PersistRaises, After, Send, Gone, history, SentType
  <2>4. pc[p] \in Saving /\ (p \in Streams => pc'[p] # "idle")
    BY <1>2 DEF Persist, Snapshot, Truncate, Write, PersistRaises, After
  <2>5. p \in Streams /\ op[p] = "end" => pc'[p] \in {"ended", "gone"} \/ (pc'[p] \in Saving /\ op'[p] = "end")
    BY <1>2 DEF Persist, Snapshot, Truncate, Write, PersistRaises, After
  <2> QED
    BY <2>1, <2>2, <2>3, <2>4, <2>5
<1>3. ASSUME NEW c \in Callers, Cancelling(c) \/ \E j \in Jobs : start_optimize(c, j) \/ cancel_job(c, j) PROVE Goal
  <2>1. /\ clients' = clients /\ sent' = sent
        /\ \A s \in Streams : pc'[s] = pc[s] /\ job'[s] = job[s] /\ op'[s] = op[s]
    BY <1>3 DEF Cancelling, Poll, TerminateFails, WaitOrKill, Mark, NoteCancel, start_optimize, cancel_job, history
  <2> QED
    BY <2>1
<1>4. ASSUME NEW s \in Streams, Streaming(s) \/ Disconnect(s) PROVE Goal
  <2>1. job' = job /\ clients' = clients
    BY <1>4 DEF Streaming, Replay, CheckStatus, Take, GotLine, GotMarker, Reap, Settle, TakeForNobody, Disconnect, history
  <2>2. \A t \in Streams \ {s} : pc'[t] = pc[t] /\ op'[t] = op[t] /\ sent'[t] = sent[t]
    BY <1>4 DEF Streaming, Replay, CheckStatus, Take, GotLine, GotMarker, Reap, Settle, TakeForNobody,
                Disconnect, Send, Gone, history, SentType
  <2>3. pc[s] \notin {"idle", "gone", "ended"} \cup Saving /\ pc'[s] # "idle"
    BY <1>4 DEF Streaming, Replay, CheckStatus, Take, GotLine, GotMarker, Reap, Settle, TakeForNobody, Disconnect
  <2>4. pc[s] = "orphan" => pc'[s] = "gone"
    BY <1>4 DEF Streaming, Replay, CheckStatus, Take, GotLine, GotMarker, Reap, Settle, TakeForNobody, Disconnect
  <2> QED
    BY <2>1, <2>2, <2>3, <2>4
<1>5. ASSUME UNCHANGED vars PROVE Goal
  BY <1>5 DEF vars, history
<1> HIDE DEF TypeInv, PlacesType, Procs, Goto, Stays, Told, Saving
<1> QED
  BY <1>1, <1>2, <1>3, <1>4, <1>5 DEF JobsNext, Work, Environment

\* A new client.
LEMMA NewMember ==
    ASSUME TypeInv, MembersInv, NEW s \in Streams, NEW j \in Jobs, stream_optimize(s, j)
    PROVE  /\ clients' = [clients EXCEPT ![j] = clients[j] \cup {s}] /\ job'[s] = j /\ pc'[s] = "replay"
           /\ \A t \in Streams \ {s} : Stays(t)
           /\ \A t \in Streams : Told(t) => Told(t)'
           /\ \A k \in Jobs : s \notin clients[k]
           /\ sent' = sent /\ sent[s] = <<>>
<1> USE DEF TypeInv, PlacesType, Procs
<1>1. /\ clients' = [clients EXCEPT ![j] = clients[j] \cup {s}] /\ job' = [job EXCEPT ![s] = j]
      /\ pc' = [pc EXCEPT ![s] = "replay"] /\ op' = op /\ sent' = sent /\ pc[s] = "idle"
  BY DEF stream_optimize, Goto
<1>2. \A t \in Streams \ {s} : Stays(t)
  BY <1>1 DEF Stays, Told
<1>3. ~ Told(s) /\ sent[s] = <<>> /\ \A k \in Jobs : s \notin clients[k]
  BY <1>1 DEF Told, Saving, MembersInv
<1> QED
  BY <1>1, <1>2, <1>3 DEF Stays

\* Streams are clients of the job they stream, until a restart.
LEMMA MembersKept == ASSUME TypeInv, MembersInv, [JobsNext]_vars PROVE MembersInv'
<1> USE DEF TypeInv, PlacesType, SentType, Procs
<1>1. CASE Crash
  <2>1. /\ clients' = [j \in Jobs |-> {}] /\ sent' = [s \in Streams |-> <<>>]
        /\ \A s \in Streams : pc'[s] \in {"idle", "gone"}
    BY <1>1 DEF Crash
  <2> QED
    BY <2>1 DEF MembersInv
<1>2. CASE clients' = clients /\ \A s \in Streams : Stays(s)
  BY <1>2 DEF MembersInv, Stays
<1>3. ASSUME NEW s \in Streams, NEW j \in Jobs, stream_optimize(s, j) PROVE MembersInv'
  <2>1. \A t \in Streams : pc'[t] = "idle" => sent'[t] = <<>>
    BY <1>3, NewMember DEF MembersInv, Stays
  <2>2. \A k \in Jobs : \A t \in clients'[k] : job'[t] = k /\ pc'[t] # "idle"
    BY <1>3, NewMember DEF MembersInv, Stays
  <2>3. clients' = [clients EXCEPT ![j] = clients[j] \cup {s}] /\ job'[s] = j /\ \A t \in Streams \ {s} : Stays(t)
    BY <1>3, NewMember
  <2>4. s \in clients'[job'[s]] /\ \A k \in Jobs : clients[k] \subseteq clients'[k]
    BY <2>3
  <2>5. \A t \in Streams : pc'[t] \notin {"idle", "gone"} => t \in clients'[job'[t]]
    BY <2>3, <2>4 DEF MembersInv, Stays
  <2> QED
    BY <2>1, <2>2, <2>5 DEF MembersInv
<1> QED
  BY <1>1, <1>2, <1>3, MemberStep

\* Only a stream that is at its end, or a cancellation, settles a status.
LEMMA TellKept == ASSUME TypeInv, EndsInv, MembersInv, TellInv, [JobsNext]_vars PROVE TellInv'
<1>1. ASSUME NEW c \in Callers, pc'[c] = "note" PROVE "cancelled" \in had'[job'[c]]
  <2>1. job'[c] = job[c] /\ job[c] \in Jobs /\ (pc[c] = "note" \/ Mark(c))
    BY <1>1, PlaceStep DEF ToNote, TypeInv, PlacesType, Procs
  <2>2. CASE pc[c] = "note"
    BY <2>1, <2>2, HadGrows DEF TellInv
  <2>3. CASE Mark(c)
    BY <2>1, <2>3 DEF Mark, Becomes, TypeInv, StoreType
  <2> QED
    BY <2>1, <2>2, <2>3
<1>2. ASSUME NEW j \in Jobs, proc'[j] # "gone", Crash PROVE status'[j] = "absent"
  BY <1>2 DEF Crash, Loaded, Nobody, EndsInv, StartedInv, NotSaved
<1>3. ASSUME NEW j \in Jobs, proc'[j] \notin {"none", "gone"} PROVE status'[j] \notin {"absent", "interrupted"}
  <2>1. ~ Crash
    BY <1>3 DEF Crash
  <2>2. ASSUME NEW k \in Jobs, NEW st \in Statuses \ {"absent", "interrupted"}, Becomes(k, st)
        PROVE  status'[j] = st \/ (status'[j] = status[j] /\ k # j)
    BY <2>2 DEF Becomes, TypeInv, StoreType
  <2>3. ASSUME NEW c \in Callers, start_optimize(c, j) PROVE status'[j] = "running"
    BY <2>3 DEF start_optimize, Becomes, TypeInv, StoreType
  <2>4. CASE proc[j] = "none"
    BY <1>3, <2>3, <2>4, ProcStep
  <2>5. CASE proc[j] # "none"
    <3>1. status[j] \notin {"absent", "interrupted"}
      BY <1>3, <2>1, <2>5, ProcStep DEF TellInv
    <3>2. ASSUME NEW c \in Callers, Mark(c) \/ \E k \in Jobs : start_optimize(c, k)
          PROVE  status'[j] \notin {"absent", "interrupted"}
      BY <2>2, <3>1, <3>2 DEF Mark, start_optimize, Statuses, TypeInv, PlacesType, Procs
    <3>3. ASSUME NEW s \in Streams, Settle(s) PROVE status'[j] \notin {"absent", "interrupted"}
      BY <2>2, <3>1, <3>3 DEF Settle, Statuses, TypeInv, PlacesType, Procs
    <3> QED
      BY <2>1, <3>1, <3>2, <3>3, StatusStep
  <2> QED
    BY <2>4, <2>5
<1>4. ASSUME NEW j \in Jobs, proc'[j] # "gone", status'[j] \in {"done", "failed"} PROVE \E s \in clients'[j] : Told(s)'
  <2>1. ~ Crash /\ proc[j] # "gone"
    BY <1>2, <1>4, ProcStep
  <2>2. clients[j] \subseteq clients'[j] /\ \A s \in Streams : Told(s) => Told(s)'
    BY <2>1, MemberStep, NewMember DEF Stays, TypeInv, SentType
  <2>3. CASE status[j] \in {"done", "failed"}
    <3>1. PICK s \in clients[j] : Told(s)
      BY <2>1, <2>3 DEF TellInv
    <3>2. s \in Streams
      BY DEF TypeInv, SentType
    <3> QED
      BY <2>2, <3>1, <3>2
  <2>4. ASSUME NEW s \in Streams, Settle(s), status[j] \notin {"done", "failed"} PROVE \E t \in clients'[j] : Told(t)'
    <3>1. job[s] = j
      BY <1>4, <2>4 DEF Settle, Becomes, TypeInv, StoreType
    <3>2. s \in clients'[j]
      BY <2>2, <2>4, <3>1 DEF Settle, MembersInv
    <3>3. Told(s)'
      BY <2>4 DEF Settle, Goto, Told, Saving, TypeInv, PlacesType, Procs
    <3> QED
      BY <3>2, <3>3
  <2>5. ASSUME NEW c \in Callers, Mark(c) \/ \E k \in Jobs : start_optimize(c, k) PROVE status[j] \in {"done", "failed"}
    BY <1>4, <2>5 DEF Mark, start_optimize, Becomes, TypeInv, StoreType
  <2> QED
    BY <1>4, <2>1, <2>3, <2>4, <2>5, StatusStep
<1> QED
  BY <1>1, <1>3, <1>4 DEF TellInv

\* What is put at the end of the queue, and taken from its head.
LEMMA PendingLine ==
    ASSUME NEW q \in Seq(Lines \cup {Sentinel}), NEW a \in Nat, NEW b \in Nat, b + 1 \in Lines, Pending(q, a, b, FALSE)
    PROVE  Pending(Append(q, b + 1), a, b + 1, FALSE)
<1>1. /\ Len(Append(q, b + 1)) = Len(q) + 1 /\ \A i \in 1 .. Len(q) : Append(q, b + 1)[i] = q[i]
      /\ Append(q, b + 1)[Len(q) + 1] = b + 1
  OBVIOUS
<1>2. Len(q) = b - a /\ \A i \in 1 .. (b + 1) - a : Append(q, b + 1)[i] = a + i
  BY <1>1 DEF Pending
<1> QED
  BY <1>1, <1>2 DEF Pending

\* The end marker behind what is pending.
LEMMA PendingMarker ==
    ASSUME NEW q \in Seq(Lines \cup {Sentinel}), NEW a \in Nat, NEW b \in Nat, Pending(q, a, b, FALSE)
    PROVE  Pending(Append(q, Sentinel), a, b, TRUE)
<1>1. /\ Len(Append(q, Sentinel)) = Len(q) + 1 /\ \A i \in 1 .. Len(q) : Append(q, Sentinel)[i] = q[i]
      /\ Append(q, Sentinel)[Len(q) + 1] = Sentinel /\ Len(q) = b - a
  BY DEF Pending
<1>2. \A i \in 1 .. b - a : Append(q, Sentinel)[i] = a + i
  BY <1>1 DEF Pending
<1> QED
  BY <1>1, <1>2 DEF Pending

\* The head of what is pending.
LEMMA PendingTaken ==
    ASSUME NEW q \in Seq(Lines \cup {Sentinel}), q # <<>>, NEW a \in Nat, NEW b \in Nat, NEW m \in BOOLEAN, Pending(q, a, b, m)
    PROVE  IF a < b THEN Head(q) = a + 1 /\ Pending(Tail(q), a + 1, b, m)
                    ELSE Head(q) = Sentinel /\ m /\ a = b /\ Pending(Tail(q), a, b, FALSE)
<1>1. /\ Len(q) \in Nat \ {0} /\ Head(q) = q[1] /\ Len(Tail(q)) = Len(q) - 1
      /\ \A i \in 1 .. Len(q) - 1 : Tail(q)[i] = q[i + 1]
  OBVIOUS
<1>2. CASE a < b
  <2>1. \A i \in 1 .. b - (a + 1) : Tail(q)[i] = (a + 1) + i
    BY <1>1, <1>2 DEF Pending
  <2>2. m => Tail(q)[(b - (a + 1)) + 1] = Sentinel
    BY <1>1, <1>2 DEF Pending
  <2> QED
    BY <1>1, <1>2, <2>1, <2>2 DEF Pending
<1>3. CASE ~ a < b
  <2>1. a = b /\ m /\ Len(q) = 1
    BY <1>1, <1>3 DEF Pending
  <2> QED
    BY <1>1, <2>1 DEF Pending
<1> QED
  BY <1>2, <1>3

\* One more line sent or captured.
LEMMA CountsMore ==
    ASSUME NEW S, NEW q \in Seq(S), Counts(q), Len(q) + 1 \in S
    PROVE  Counts(Append(q, Len(q) + 1)) /\ Len(Append(q, Len(q) + 1)) = Len(q) + 1
<1>1. /\ Len(Append(q, Len(q) + 1)) = Len(q) + 1 /\ \A i \in 1 .. Len(q) : Append(q, Len(q) + 1)[i] = q[i]
      /\ Append(q, Len(q) + 1)[Len(q) + 1] = Len(q) + 1 /\ Len(q) \in Nat
  OBVIOUS
<1> QED
  BY <1>1 DEF Counts

\* A job and a stream are left alone.
JobAlone(j) ==
    /\ lines'[j] = lines[j] /\ queue'[j] = queue[j] /\ read'[j] = read[j]
    /\ reader'[j] = "ended" <=> reader[j] = "ended"
StreamAlone(s) == pc'[s] = pc[s] /\ op'[s] = op[s] /\ item'[s] = item[s] /\ sent'[s] = sent[s]

\* Left alone, the lone client has what it had.
LEMMA AloneStays == ASSUME NEW s, NEW j, JobAlone(j), StreamAlone(s), LoneInv(s, j) PROVE LoneInv(s, j)'
  BY DEF JobAlone, StreamAlone, LoneInv, Unbroken, Delivered, InHand, MarkerOut, Owes, Pending, Counts

\* The threads of callers leave a job nobody cancels alone, and so do its idle hours.
LEMMA OthersLeaveAlone ==
    ASSUME TypeInv, EndsInv, ClientsInv, NEW j \in Jobs, Unspoilt(j)
    PROVE  /\ \A k \in Jobs :
                StartTuner(k) \/ EndTuner(k) \/ PrintLine(k) \/ Exit(k) \/ (k # j /\ ReadLine(k)) =>
                  JobAlone(j) /\ \A s \in Streams : StreamAlone(s)
           /\ \A c \in Callers : Cancelling(c) \/ Persist(c) \/ (\E k \in Jobs : start_optimize(c, k) \/ cancel_job(c, k))
                => JobAlone(j) /\ \A s \in Streams : StreamAlone(s)
<1> USE JobsAssumption DEF TypeInv, PlacesType, Procs, Goto, JobAlone, StreamAlone
<1>1. ASSUME NEW k \in Jobs, StartTuner(k) \/ EndTuner(k) \/ PrintLine(k) \/ Exit(k)
      PROVE  JobAlone(j) /\ \A s \in Streams : StreamAlone(s)
  BY <1>1 DEF StartTuner, EndTuner, PrintLine, Exit, jobs, history
<1>2. ASSUME NEW k \in Jobs, k # j, ReadLine(k) PROVE JobAlone(j) /\ \A s \in Streams : StreamAlone(s)
  BY <1>2 DEF ReadLine, PutLine, PutMarker, jobs, history, PipeType
<1>3. ASSUME NEW c \in Callers, Persist(c) PROVE JobAlone(j) /\ \A s \in Streams : StreamAlone(s)
  <2>1. /\ UNCHANGED <<lines, queue, read>>
        /\ \A s \in Streams : pc'[s] = pc[s] /\ op'[s] = op[s]
    BY <1>3 DEF Persist, Snapshot, Truncate, Write, PersistRaises, After, jobs, child
  <2>2. UNCHANGED <<item, sent>>
    BY <1>3 DEF Persist, Snapshot, Truncate, Write, PersistRaises, After, history, Saving
  <2>3. reader'[j] = "ended" <=> reader[j] = "ended"
    <3>1. CASE Write(c) /\ op[c] = "start"
      <4>1. reader' = [reader EXCEPT ![job[c]] = "reading"] /\ reader[job[c]] = "none"
        BY <3>1 DEF Write, After, ClientsInv, ReaderInv, Starting, Saving
      <4> QED
        BY <4>1 DEF PipeType
    <3>2. CASE ~ (Write(c) /\ op[c] = "start")
      BY <1>3, <3>2 DEF Persist, Snapshot, Truncate, Write, PersistRaises, After, child
    <3> QED
      BY <3>1, <3>2
  <2> QED
    BY <2>1, <2>2, <2>3
<1>4. ASSUME NEW c \in Callers, Cancelling(c) PROVE JobAlone(j) /\ \A s \in Streams : StreamAlone(s)
  <2>1. UNCHANGED <<read, reader, item, sent>> /\ \A s \in Streams : pc'[s] = pc[s] /\ op'[s] = op[s]
    BY <1>4 DEF Cancelling, Poll, TerminateFails, WaitOrKill, Mark, NoteCancel, child, history
  <2>2. CASE NoteCancel(c)
    <3>1. job[c] # j
      BY <2>2 DEF NoteCancel, ClientsInv, TellInv, Unspoilt
    <3>2. lines'[j] = lines[j] /\ queue'[j] = queue[j]
      BY <2>2, <3>1 DEF NoteCancel, StoreType, PipeType
    <3> QED
      BY <2>1, <3>2
  <2>3. CASE ~ NoteCancel(c)
    <3>1. UNCHANGED <<lines, queue>>
      BY <1>4, <2>3 DEF Cancelling, Poll, TerminateFails, WaitOrKill, Mark, jobs
    <3> QED
      BY <2>1, <3>1
  <2> QED
    BY <2>2, <2>3
<1>5. ASSUME NEW c \in Callers, NEW k \in Jobs, start_optimize(c, k) \/ cancel_job(c, k)
      PROVE  JobAlone(j) /\ \A s \in Streams : StreamAlone(s)
  <2>1. UNCHANGED <<lines, queue, read, reader, item, sent>>
    BY <1>5 DEF start_optimize, cancel_job, jobs, child, history
  <2>2. \A s \in Streams : pc'[s] = pc[s] /\ op'[s] = op[s]
    BY <1>5 DEF start_optimize, cancel_job
  <2> QED
    BY <2>1, <2>2
<1> QED
  BY <1>1, <1>2, <1>3, <1>4, <1>5

\* So does a stream of another job.
LEMMA StreamsLeaveAlone ==
    ASSUME TypeInv, ClientsInv, NEW j \in Jobs, NEW t \in Streams, t \notin clients[j], t \notin clients'[j],
           Streaming(t) \/ Disconnect(t) \/ Persist(t) \/ \E k \in Jobs : stream_optimize(t, k)
    PROVE  JobAlone(j) /\ \A s \in Streams \ {t} : StreamAlone(s)
<1> USE JobsAssumption DEF TypeInv, PlacesType, Procs, Goto
<1>1. ASSUME NEW k \in Jobs, stream_optimize(t, k)
      PROVE  /\ UNCHANGED <<lines, queue, read, reader, op, item, sent>>
             /\ \A s \in Streams \ {t} : pc'[s] = pc[s]
  BY <1>1 DEF stream_optimize, jobs, child
<1>2. ASSUME Persist(t)
      PROVE  /\ UNCHANGED <<lines, queue, read, reader>>
             /\ \A s \in Streams \ {t} : pc'[s] = pc[s] /\ op'[s] = op[s] /\ item'[s] = item[s] /\ sent'[s] = sent[s]
  <2>1. UNCHANGED <<lines, queue, read, reader>>
    BY <1>2 DEF Persist, Snapshot, Truncate, Write, PersistRaises, After, jobs, child, Saving
  <2>2. \A s \in Streams \ {t} : pc'[s] = pc[s] /\ op'[s] = op[s]
    BY <1>2 DEF Persist, Snapshot, Truncate, Write, PersistRaises, After
  <2>3. \A s \in Streams \ {t} : item'[s] = item[s] /\ sent'[s] = sent[s]
    BY <1>2 DEF Persist, Snapshot, Truncate, Write, PersistRaises, After, Send, Gone, history, SentType
  <2> QED
    BY <2>1, <2>2, <2>3
<1>3. ASSUME Streaming(t) \/ Disconnect(t)
      PROVE  /\ UNCHANGED <<read, reader>> /\ lines'[j] = lines[j] /\ queue'[j] = queue[j]
             /\ \A s \in Streams \ {t} : pc'[s] = pc[s] /\ op'[s] = op[s] /\ item'[s] = item[s] /\ sent'[s] = sent[s]
  <2> USE DEF Streaming, Replay, CheckStatus, Take, GotLine, GotMarker, Reap, Settle, TakeForNobody, Disconnect
  <2>1. pc[t] \notin {"idle", "gone"}
    BY <1>3
  <2>2. job[t] # j
    BY <2>1 DEF ClientsInv, MembersInv
  <2>3. UNCHANGED <<read, reader>>
    BY <1>3 DEF child
  <2>4. lines'[j] = lines[j]
    BY <1>3, <2>2 DEF jobs, Capture, StoreType
  <2>5. queue'[j] = queue[j]
    BY <1>3, <2>2 DEF PipeType
  <2>6. \A s \in Streams \ {t} : pc'[s] = pc[s] /\ op'[s] = op[s]
    BY <1>3
  <2>7. \A s \in Streams \ {t} : item'[s] = item[s] /\ sent'[s] = sent[s]
    BY <1>3 DEF Send, Gone, history, SentType
  <2> HIDE DEF Streaming, Replay, CheckStatus, Take, GotLine, GotMarker, Reap, Settle, TakeForNobody, Disconnect
  <2> QED
    BY <2>3, <2>4, <2>5, <2>6, <2>7
<1> HIDE DEF TypeInv, PlacesType, Procs, Goto
<1> QED
  BY <1>1, <1>2, <1>3 DEF JobAlone, StreamAlone

\* The reader puts a line or the end marker behind what is pending.
LEMMA ReaderAppends ==
    ASSUME TypeInv, NEW j \in Jobs, ReadLine(j), NEW a \in Nat, Pending(queue[j], a, read[j], FALSE)
    PROVE  Pending(queue'[j], a, read'[j], reader'[j] = "ended")
<1> USE JobsAssumption DEF TypeInv, PipeType
<1>1. reader[j] = "reading" /\ read[j] \in Nat /\ queue[j] \in Seq(Lines \cup {Sentinel})
  BY DEF ReadLine
<1>2. CASE PutMarker(j)
  <2>1. queue'[j] = Append(queue[j], Sentinel) /\ read'[j] = read[j] /\ reader'[j] = "ended"
    BY <1>2 DEF PutMarker
  <2>2. Pending(Append(queue[j], Sentinel), a, read[j], TRUE)
    BY <1>1, PendingMarker
  <2> QED
    BY <2>1, <2>2
<1>3. CASE PutLine(j) /\ read[j] < printed[j]
  <2>1. queue'[j] = Append(queue[j], read[j] + 1) /\ read'[j] = read[j] + 1 /\ reader'[j] = "reading"
    BY <1>1, <1>3 DEF PutLine
  <2>2. read[j] + 1 \in Lines
    BY <1>3 DEF Lines
  <2>3. Pending(Append(queue[j], read[j] + 1), a, read[j] + 1, FALSE)
    BY <1>1, <2>2, PendingLine
  <2> QED
    BY <2>1, <2>3
<1> QED
  BY <1>2, <1>3 DEF ReadLine

\* The reader goes on while the lone client waits.
LEMMA LoneReads ==
    ASSUME TypeInv, NEW s \in Streams, NEW j \in Jobs, ReadLine(j), LoneInv(s, j)
    PROVE  LoneInv(s, j)'
<1>1. UNCHANGED <<lines, pc, op, item, sent>>
  BY DEF ReadLine, jobs, history
<1>2. reader[j] = "reading" /\ ~ MarkerOut(s)
  BY DEF ReadLine, LoneInv, Unbroken
<1>3. Len(lines[j]) + InHand(s) \in Nat
  BY DEF TypeInv, StoreType, InHand
<1>4. Pending(queue'[j], Len(lines[j]) + InHand(s), read'[j], reader'[j] = "ended")
  BY <1>2, <1>3, ReaderAppends DEF LoneInv, Unbroken
<1>5. Unbroken(s, j)'
  BY <1>1, <1>2, <1>4 DEF LoneInv, Unbroken, InHand, MarkerOut
<1>6. Delivered(s, j)'
  BY <1>1 DEF LoneInv, Delivered, Owes
<1> QED
  BY <1>5, <1>6 DEF LoneInv

\* The lone stream's own steps.
LEMMA LoneSaves ==
    ASSUME TypeInv, NEW s \in Streams, NEW j \in Jobs, Persist(s), LoneInv(s, j), pc'[s] # "gone"
    PROVE  LoneInv(s, j)'
<1> USE JobsAssumption DEF TypeInv, PlacesType, Procs, Goto, Saving
<1>1. UNCHANGED <<lines, queue, read>> /\ reader'[j] = reader[j] /\ pc[s] \in Saving
  BY DEF Persist, Snapshot, Truncate, Write, PersistRaises, After, jobs, child
<1>2. CASE Snapshot(s) \/ Truncate(s)
  <2>1. UNCHANGED <<op, item, sent>> /\ pc'[s] \in Saving
    BY <1>2 DEF Snapshot, Truncate, history
  <2>2. Unbroken(s, j)'
    BY <1>1, <2>1 DEF LoneInv, Unbroken, InHand, MarkerOut
  <2>3. Delivered(s, j)'
    BY <1>1, <2>1 DEF LoneInv, Delivered, Owes
  <2> QED
    BY <2>2, <2>3 DEF LoneInv
<1>3. CASE Write(s) /\ op[s] = "end"
  <2>1. pc'[s] = "ended" /\ UNCHANGED <<item, sent>>
    BY <1>3 DEF Write, After
  <2>2. Unbroken(s, j)'
    BY <1>1, <1>3, <2>1 DEF LoneInv, Unbroken, InHand, MarkerOut
  <2>3. Delivered(s, j)'
    BY <1>1, <1>3, <2>1 DEF LoneInv, Delivered, Owes
  <2> QED
    BY <2>2, <2>3 DEF LoneInv
<1>4. CASE Write(s) /\ op[s] = "line"
  <2>1. /\ pc'[s] = "get" /\ item'[s] = Sentinel /\ sent'[s] = Append(sent[s], item[s])
        /\ item[s] = Len(lines[j]) /\ Len(sent[s]) = Len(lines[j]) - 1
    BY <1>4 DEF Write, After, Send, SentType, LoneInv, Delivered, Owes
  <2>2. InHand(s) = 0 /\ ~ MarkerOut(s) /\ InHand(s)' = 0 /\ ~ MarkerOut(s)'
    BY <1>1, <1>4, <2>1 DEF InHand, MarkerOut
  <2>3. /\ Len(lines[j]) \in Nat /\ sent[s] \in Seq(Lines \cup {Note}) /\ Counts(sent[s])
        /\ item[s] \in Lines \cup {Note} /\ item[s] = Len(sent[s]) + 1
    BY <1>1, <1>4, <2>1 DEF StoreType, SentType, LoneInv, Delivered
  <2>4. Counts(sent'[s]) /\ Len(sent'[s]) = Len(lines[j])
    BY <2>1, <2>3, CountsMore
  <2>5. Delivered(s, j)'
    BY <1>1, <2>1, <2>3, <2>4 DEF Delivered, Owes
  <2>6. Unbroken(s, j)'
    BY <1>1, <2>2 DEF LoneInv, Unbroken
  <2> QED
    BY <2>5, <2>6 DEF LoneInv
<1>5. CASE PersistRaises(s)
  BY <1>5 DEF PersistRaises
<1> QED
  BY <1>1, <1>2, <1>3, <1>4, <1>5 DEF Persist, Write

\* The lone client is sent what was captured before it came...
LEMMA LoneReplays ==
    ASSUME TypeInv, NEW s \in Streams, NEW j \in Jobs, Replay(s), job[s] = j, LoneInv(s, j)
    PROVE  LoneInv(s, j)'
<1> USE JobsAssumption DEF TypeInv, PlacesType, Procs, Goto, Saving
<1>1. UNCHANGED <<lines, queue, read, reader, item, op>> /\ pc[s] = "replay"
  BY DEF Replay, jobs, child
<1>2. /\ Len(lines[j]) \in Nat /\ Len(sent[s]) \in Nat
      /\ lines[j] \in Seq(Lines \cup {Note}) /\ sent[s] \in Seq(Lines \cup {Note})
      /\ Counts(lines[j]) /\ Counts(sent[s]) /\ Len(sent[s]) <= Len(lines[j])
  BY DEF StoreType, SentType, LoneInv, Unbroken, Delivered
<1>3. CASE Len(sent[s]) < Len(lines[j])
  <2>1. UNCHANGED pc /\ sent'[s] = Append(sent[s], lines[j][Len(sent[s]) + 1])
    BY <1>3 DEF Replay, SentType
  <2>2. lines[j][Len(sent[s]) + 1] = Len(sent[s]) + 1 /\ Len(sent[s]) + 1 \in Lines \cup {Note}
    BY <1>2, <1>3 DEF Counts
  <2>3. Counts(sent'[s]) /\ Len(sent'[s]) = Len(sent[s]) + 1
    BY <1>2, <2>1, <2>2, CountsMore
  <2>4. Unbroken(s, j)'
    BY <1>1, <2>1 DEF LoneInv, Unbroken, InHand, MarkerOut
  <2>5. Delivered(s, j)'
    BY <1>1, <1>2, <1>3, <2>1, <2>3 DEF Delivered, Owes
  <2> QED
    BY <2>4, <2>5 DEF LoneInv
<1>4. CASE ~ Len(sent[s]) < Len(lines[j])
  <2>1. pc'[s] = "check" /\ UNCHANGED sent
    BY <1>4 DEF Replay
  <2>2. Unbroken(s, j)'
    BY <1>1, <2>1 DEF LoneInv, Unbroken, InHand, MarkerOut
  <2>3. Delivered(s, j)'
    BY <1>1, <1>2, <1>4, <2>1 DEF Delivered, Owes
  <2> QED
    BY <2>2, <2>3 DEF LoneInv
<1> QED
  BY <1>3, <1>4

\* ...takes the next line or the end marker...
LEMMA LoneTakes ==
    ASSUME TypeInv, NEW s \in Streams, NEW j \in Jobs, Take(s), job[s] = j, LoneInv(s, j)
    PROVE  LoneInv(s, j)'
<1> USE JobsAssumption, LineTypes DEF TypeInv, PlacesType, Procs, Goto, Saving
<1>1. /\ UNCHANGED <<lines, read, reader, sent, op>> /\ pc[s] = "get" /\ pc'[s] = "got" /\ queue[j] # <<>>
      /\ item'[s] = Head(queue[j]) /\ queue'[j] = Tail(queue[j])
  BY DEF Take, jobs, child, history, PipeType
<1>2. /\ Len(lines[j]) \in Nat /\ read[j] \in Nat /\ queue[j] \in Seq(Lines \cup {Sentinel})
      /\ Pending(queue[j], Len(lines[j]), read[j], reader[j] = "ended")
  BY <1>1 DEF StoreType, PipeType, LoneInv, Unbroken, InHand, MarkerOut
<1>3. Delivered(s, j)'
  BY <1>1 DEF LoneInv, Delivered, Owes
<1> DEFINE q == queue[j]
           a == Len(lines[j])
           b == read[j]
           m == reader[j] = "ended"
<1>4. /\ q \in Seq(Lines \cup {Sentinel}) /\ q # <<>> /\ a \in Nat /\ b \in Nat /\ m \in BOOLEAN
      /\ Pending(q, a, b, m)
  BY <1>1, <1>2
<1>5. /\ Counts(lines'[j]) /\ Len(lines'[j]) = a /\ read'[j] = b /\ (reader'[j] = "ended" <=> m)
      /\ queue'[j] = Tail(q) /\ item'[s] = Head(q) /\ pc'[s] = "got"
  BY <1>1 DEF LoneInv, Unbroken
<1> HIDE DEF q, a, b, m
<1>6. IF a < b THEN Head(q) = a + 1 /\ Pending(Tail(q), a + 1, b, m)
               ELSE Head(q) = Sentinel /\ m /\ a = b /\ Pending(Tail(q), a, b, FALSE)
  BY <1>4, PendingTaken, ZenonT(60)
<1>7. CASE a < b
  <2>1. item'[s] # Sentinel /\ InHand(s)' = 1 /\ ~ MarkerOut(s)'
    BY <1>4, <1>5, <1>6, <1>7 DEF InHand, MarkerOut, Sentinel
  <2>2. /\ InHand(s)' = 1 => item'[s] = Len(lines'[j]) + 1
        /\ ~ MarkerOut(s)' /\ Counts(lines'[j])
    BY <1>5, <1>6, <1>7, <2>1
  <2>3. Pending(queue'[j], Len(lines'[j]) + InHand(s)', read'[j], reader'[j] = "ended" /\ ~ MarkerOut(s)')
    <3>1. (reader'[j] = "ended" /\ ~ MarkerOut(s)') = m /\ Len(lines'[j]) + InHand(s)' = a + 1
      BY <1>4, <1>5, <2>1
    <3> QED
      BY <1>5, <1>6, <1>7, <3>1
  <2> QED
    BY <1>3, <2>2, <2>3 DEF LoneInv, Unbroken
<1>8. CASE ~ a < b
  <2>1. InHand(s)' = 0 /\ MarkerOut(s)' /\ a + 0 = a
    BY <1>4, <1>5, <1>6, <1>8 DEF InHand, MarkerOut
  <2>2. /\ InHand(s)' = 1 => item'[s] = Len(lines'[j]) + 1
        /\ MarkerOut(s)' => reader'[j] = "ended" /\ Len(lines'[j]) = read'[j]
    BY <1>5, <1>6, <1>8, <2>1
  <2>3. Pending(queue'[j], Len(lines'[j]) + InHand(s)', read'[j], reader'[j] = "ended" /\ ~ MarkerOut(s)')
    <3>1. Pending(Tail(q), a, b, FALSE)
      BY <1>6, <1>8
    <3>2. (reader'[j] = "ended" /\ ~ MarkerOut(s)') = FALSE /\ Len(lines'[j]) + InHand(s)' = a
      BY <1>5, <2>1
    <3> QED
      BY <1>5, <3>1, <3>2
  <2> QED
    BY <1>3, <1>5, <2>2, <2>3 DEF LoneInv, Unbroken
<1> QED
  BY <1>7, <1>8

\* ...captures the line, and sends or saves it...
LEMMA LoneCaptures ==
    ASSUME TypeInv, NEW s \in Streams, NEW j \in Jobs, GotLine(s), job[s] = j, LoneInv(s, j)
    PROVE  LoneInv(s, j)'
<1> USE JobsAssumption, LineTypes DEF TypeInv, PlacesType, Procs, Goto
<1>1. /\ UNCHANGED <<queue, read, reader>> /\ pc[s] = "got" /\ item[s] # Sentinel
      /\ lines'[j] = Append(lines[j], item[s])
  BY DEF GotLine, Capture, child, StoreType
<1>2. /\ lines[j] \in Seq(Lines \cup {Note}) /\ Len(lines[j]) \in Nat /\ InHand(s) = 1 /\ ~ MarkerOut(s)
      /\ item[s] = Len(lines[j]) + 1 /\ item[s] \in Lines \cup {Note} /\ Counts(lines[j])
  BY <1>1 DEF StoreType, LoneInv, Unbroken, InHand, MarkerOut, Saving
<1>3. Counts(lines'[j]) /\ Len(lines'[j]) = Len(lines[j]) + 1
  BY <1>1, <1>2, CountsMore
<1>4. Counts(sent[s]) /\ Len(sent[s]) = Len(lines[j]) /\ sent[s] \in Seq(Lines \cup {Note})
  BY <1>1 DEF LoneInv, Delivered, Owes, SentType, Saving
<1>5. /\ pc'[s] \in {"snapshot", "get"} /\ (pc'[s] = "snapshot" => op'[s] = "line")
      /\ Pending(queue[j], Len(lines[j]) + 1, read[j], reader[j] = "ended")
  BY <1>1, <1>2 DEF GotLine, LoneInv, Unbroken
<1>6. InHand(s)' = 0 /\ ~ MarkerOut(s)' /\ Len(lines'[j]) + 0 = Len(lines[j]) + 1
  BY <1>2, <1>3, <1>5 DEF InHand, MarkerOut, Saving
<1>7. Unbroken(s, j)'
  BY <1>1, <1>3, <1>5, <1>6 DEF Unbroken
<1>8. CASE pc'[s] = "snapshot"
  <2>1. UNCHANGED <<sent, item>> /\ op'[s] = "line"
    BY <1>8 DEF GotLine
  <2>2. Delivered(s, j)'
    BY <1>2, <1>3, <1>4, <1>8, <2>1 DEF Delivered, Owes, Saving
  <2> QED
    BY <1>7, <2>2 DEF LoneInv
<1>9. CASE pc'[s] = "get"
  <2>1. sent'[s] = Append(sent[s], item[s])
    BY <1>9 DEF GotLine, Send, SentType
  <2>2. Counts(sent'[s]) /\ Len(sent'[s]) = Len(lines'[j])
    BY <1>2, <1>3, <1>4, <2>1, CountsMore
  <2>3. Delivered(s, j)'
    BY <1>2, <1>3, <1>9, <2>2 DEF Delivered, Owes, Saving
  <2> QED
    BY <1>7, <2>3 DEF LoneInv
<1> QED
  BY <1>5, <1>8, <1>9

\* ...and goes on to the end of the job.
LEMMA LoneEnds ==
    ASSUME TypeInv, NEW s \in Streams, NEW j \in Jobs, job[s] = j, LoneInv(s, j),
           GotMarker(s) \/ Reap(s) \/ Settle(s) \/ (CheckStatus(s) /\ status[j] = "running")
    PROVE  LoneInv(s, j)'
<1> USE JobsAssumption, LineTypes DEF TypeInv, PlacesType, Procs, Goto
<1>1. UNCHANGED <<lines, queue, read, reader, item, sent>>
  BY DEF GotMarker, Reap, Settle, CheckStatus, jobs, child, history
<1>2. CASE GotMarker(s) \/ Reap(s) \/ Settle(s)
  <2>1. /\ MarkerOut(s) /\ InHand(s) = 0 /\ ~ Owes(s) /\ pc[s] # "replay"
        /\ MarkerOut(s)' /\ InHand(s)' = 0 /\ ~ Owes(s)' /\ pc'[s] # "replay"
    BY <1>2 DEF GotMarker, Reap, Settle, MarkerOut, InHand, Owes, Saving
  <2> QED
    BY <1>1, <2>1 DEF LoneInv, Unbroken, Delivered
<1>3. CASE CheckStatus(s) /\ status[j] = "running"
  <2>1. pc[s] = "check" /\ pc'[s] = "get"
    BY <1>3 DEF CheckStatus
  <2>2. /\ ~ MarkerOut(s) /\ InHand(s) = 0 /\ ~ Owes(s) /\ pc[s] # "replay"
        /\ ~ MarkerOut(s)' /\ InHand(s)' = 0 /\ ~ Owes(s)' /\ pc'[s] # "replay"
    BY <2>1 DEF MarkerOut, InHand, Owes, Saving
  <2> QED
    BY <1>1, <2>2 DEF LoneInv, Unbroken, Delivered
<1> QED
  BY <1>2, <1>3

\* Whatever others do, the lone client has all the lines in order.
LEMMA AloneKept == ASSUME TypeInv, EndsInv, ClientsInv, [JobsNext]_vars PROVE AloneInv'
<1> SUFFICES ASSUME NEW j \in Jobs, Unspoilt(j)'
             PROVE  /\ clients'[j] = {} => lines'[j] = <<>> /\ Pending(queue'[j], 0, read'[j], reader'[j] = "ended")
                    /\ \A s \in Streams : clients'[j] = {s} /\ pc'[s] \notin {"gone", "orphan"} => LoneInv(s, j)'
  BY DEF AloneInv
<1> USE DEF Procs
<1>1. CASE Crash
  <2>1. /\ lines'[j] = <<>> /\ queue'[j] = <<>> /\ read'[j] = 0 /\ reader'[j] # "ended" /\ clients'[j] = {}
    BY <1>1 DEF Crash, Unspoilt, Loaded, Nobody, EndsInv, StartedInv, NotSaved
  <2> QED
    BY <2>1 DEF Pending
<1>2. CASE ~ Crash
  <2>1. Unspoilt(j)
    BY <1>2, HadGrows, ProcStep DEF Unspoilt
  <2>2. clients[j] \subseteq clients'[j] /\ clients'[j] \in SUBSET Streams
    <3>1. clients' \in [Jobs -> SUBSET Streams] /\ clients \in [Jobs -> SUBSET Streams]
      BY SentTyped DEF TypeInv, SentType
    <3>2. ASSUME NEW s \in Streams, NEW k \in Jobs, stream_optimize(s, k) PROVE clients[j] \subseteq clients'[j]
      BY <3>1, <3>2, NewMember DEF ClientsInv
    <3> QED
      BY <1>2, <3>1, <3>2, MemberStep
  <2>3. \A s \in Streams : s \in clients[j] => /\ job[s] = j /\ pc[s] # "idle"
                                               /\ pc'[s] \notin {"gone", "orphan"} => pc[s] \notin {"gone", "orphan"}
    <3>1. \A s \in Streams : s \in clients[j] => Stays(s)
      BY <1>2, MemberStep, NewMember DEF ClientsInv
    <3> QED
      BY <3>1 DEF Stays, ClientsInv, MembersInv
  <2>4. ASSUME NEW s \in Streams, clients'[j] = {s}, pc'[s] \notin {"gone", "orphan"}
        PROVE  LoneInv(s, j)'
    <3>1. CASE clients[j] = {s}
      <4>1. LoneInv(s, j) /\ job[s] = j /\ pc[s] # "idle"
        BY <2>1, <2>3, <2>4, <3>1 DEF ClientsInv, AloneInv
      <4>2. CASE JobAlone(j) /\ StreamAlone(s)
        BY <4>1, <4>2, AloneStays
      <4>3. CASE ReadLine(j)
        BY <4>1, <4>3, LoneReads
      <4>4. ASSUME NEW t \in Streams, t # s,
                   Streaming(t) \/ Disconnect(t) \/ Persist(t) \/ \E k \in Jobs : stream_optimize(t, k)
            PROVE  JobAlone(j) /\ StreamAlone(s)
        BY <2>4, <3>1, <4>4, StreamsLeaveAlone
      <4>5. CASE Persist(s)
        BY <2>4, <4>1, <4>5, LoneSaves
      <4>6. CASE Streaming(s)
        <5>1. CASE CheckStatus(s) /\ status[j] # "running"
          <6>1. pc[s] = "check"
            BY <5>1 DEF CheckStatus
          <6>2. proc[j] # "none" /\ status[j] # "cancelled" /\ status[j] \in Statuses
            BY <2>1, <3>1 DEF Unspoilt, TypeInv, StoreType, EndsInv, StartedInv, NoTrace
          <6>3. status[j] \in {"done", "failed"}
            BY <2>1, <5>1, <6>2 DEF Unspoilt, Statuses, ClientsInv, TellInv
          <6>4. Told(s)
            BY <2>1, <3>1, <6>3 DEF Unspoilt, ClientsInv, TellInv
          <6> QED
            BY <6>1, <6>4 DEF Told, Saving
        <5>2. CASE TakeForNobody(s)
          BY <2>4, <5>2 DEF TakeForNobody, Goto, TypeInv, PlacesType
        <5> QED
          BY <4>1, <4>6, <5>1, <5>2, LoneReplays, LoneTakes, LoneCaptures, LoneEnds DEF Streaming
      <4>7. CASE Disconnect(s)
        BY <2>4, <4>7 DEF Disconnect, Goto, TypeInv, PlacesType
      <4>8. ASSUME NEW k \in Jobs, stream_optimize(s, k) PROVE FALSE
        BY <4>1, <4>8 DEF stream_optimize
      <4>9. CASE UNCHANGED vars
        BY <4>2, <4>9 DEF vars, jobs, child, history, JobAlone, StreamAlone
      <4> QED
        BY <1>2, <2>1, <4>2, <4>3, <4>4, <4>5, <4>6, <4>7, <4>8, <4>9, OthersLeaveAlone
           DEF JobsNext, Work, Environment
    <3>2. CASE clients[j] # {s}
      <4>1. clients[j] = {} /\ clients' # clients
        BY <2>2, <2>4, <3>2
      <4>2. PICK t \in Streams : \E k \in Jobs : stream_optimize(t, k)
        BY <1>2, <4>1, MemberStep
      <4>3. stream_optimize(s, j)
        <5>1. PICK k \in Jobs : stream_optimize(t, k)
          BY <4>2
        <5>2. clients' = [clients EXCEPT ![k] = clients[k] \cup {t}]
          BY <5>1, NewMember DEF ClientsInv
        <5>3. k = j /\ t = s
          BY <2>4, <4>1, <5>2 DEF TypeInv, SentType
        <5> QED
          BY <5>1, <5>3
      <4>4. pc'[s] = "replay" /\ sent'[s] = <<>>
        BY <4>3, NewMember DEF ClientsInv
      <4>5. lines[j] = <<>> /\ Pending(queue[j], 0, read[j], reader[j] = "ended")
        BY <2>1, <4>1 DEF ClientsInv, AloneInv
      <4>6. UNCHANGED <<lines, queue, read, reader>>
        BY <4>3 DEF stream_optimize, jobs, child
      <4>7. InHand(s)' = 0 /\ ~ MarkerOut(s)' /\ ~ Owes(s)' /\ Len(lines'[j]) = 0 /\ Len(sent'[s]) = 0
        BY <4>4, <4>5, <4>6 DEF InHand, MarkerOut, Owes, Saving
      <4>8. Unbroken(s, j)'
        BY <4>5, <4>6, <4>7 DEF Unbroken, Counts
      <4>9. Delivered(s, j)'
        BY <4>4, <4>7 DEF Delivered, Counts
      <4> QED
        BY <4>8, <4>9 DEF LoneInv
    <3> QED
      BY <3>1, <3>2
  <2>5. ASSUME clients'[j] = {}
        PROVE  lines'[j] = <<>> /\ Pending(queue'[j], 0, read'[j], reader'[j] = "ended")
    <3>1. lines[j] = <<>> /\ Pending(queue[j], 0, read[j], reader[j] = "ended")
      BY <2>1, <2>2, <2>5 DEF ClientsInv, AloneInv
    <3>2. CASE JobAlone(j)
      BY <3>1, <3>2 DEF JobAlone
    <3>3. CASE ReadLine(j)
      <4>1. lines' = lines /\ reader[j] = "reading"
        BY <3>3 DEF ReadLine, jobs
      <4> QED
        BY <3>1, <3>3, <4>1, ReaderAppends
    <3>4. ASSUME NEW t \in Streams,
                 Streaming(t) \/ Disconnect(t) \/ Persist(t) \/ \E k \in Jobs : stream_optimize(t, k)
          PROVE  JobAlone(j)
      BY <2>2, <2>5, <3>4, StreamsLeaveAlone
    <3>5. CASE UNCHANGED vars
      BY <3>2, <3>5 DEF vars, jobs, child, JobAlone
    <3> QED
      BY <1>2, <2>1, <3>2, <3>3, <3>4, <3>5, OthersLeaveAlone DEF JobsNext, Work, Environment
  <2> QED
    BY <2>4, <2>5
<1> QED
  BY <1>1, <1>2

\* The invariant about clients is inductive.
LEMMA ClientsInvariant == JobsSpec => []ClientsInv
<1>1. JobsInit => ClientsInv
  <2> SUFFICES ASSUME JobsInit PROVE ClientsInv
    OBVIOUS
  <2>1. ReaderInv
    BY DEF JobsInit, ReaderInv, Starting, Saving, Procs
  <2>2. MembersInv
    BY DEF JobsInit, MembersInv, Procs
  <2>3. TellInv
    BY DEF JobsInit, TellInv, Procs
  <2>4. AloneInv
    <3>1. ASSUME NEW j \in Jobs PROVE /\ lines[j] = <<>> /\ clients[j] = {}
                                      /\ Pending(queue[j], 0, read[j], reader[j] = "ended")
      BY DEF JobsInit, Pending
    <3> QED
      BY <3>1 DEF AloneInv
  <2> QED
    BY <2>1, <2>2, <2>3, <2>4 DEF ClientsInv
<1>2. TypeInv /\ EndsInv /\ ClientsInv /\ [JobsNext]_vars => ClientsInv'
  BY ReaderKept, MembersKept, TellKept, AloneKept DEF ClientsInv
<1> QED
  BY <1>1, <1>2, TypeInvariant, EndsInvariant, PTL DEF JobsSpec

\* A client that streamed alone to the end of a job nobody cancelled got all its lines.
THEOREM LoneClientServed == JobsSpec => []LoneClientGotAll
<1>1. TypeInv /\ ClientsInv => LoneClientGotAll
  <2> SUFFICES ASSUME TypeInv, ClientsInv, NEW s \in Streams, NEW j \in Jobs,
                      pc[s] = "ended", clients[j] = {s}, "cancelled" \notin had[j], proc[j] # "gone"
               PROVE  sent[s] = [n \in 1 .. printed[j] |-> n]
    BY DEF LoneClientGotAll
  <2>1. LoneInv(s, j)
    BY DEF ClientsInv, AloneInv, Unspoilt
  <2>2. reader[j] = "ended" /\ Len(lines[j]) = read[j]
    BY <2>1 DEF LoneInv, Unbroken, MarkerOut
  <2>3. Counts(sent[s]) /\ Len(sent[s]) = Len(lines[j])
    BY <2>1 DEF LoneInv, Delivered, Owes, Saving
  <2>4. Len(sent[s]) = printed[j]
    BY <2>2, <2>3 DEF ClientsInv, ReaderInv
  <2>5. sent[s] \in Seq(Lines \cup {Note}) /\ Len(sent[s]) \in Nat
    BY DEF TypeInv, SentType
  <2>6. sent[s] = [n \in 1 .. Len(sent[s]) |-> sent[s][n]]
    BY <2>5
  <2> QED
    BY <2>3, <2>4, <2>5, <2>6 DEF Counts
<1> QED
  BY <1>1, TypeInvariant, ClientsInvariant, PTL

----------------------------------------------------------------------------
(* What a final status says of the processes.                                  *)

HasMarker(s) == pc[s] = "reap" \/ (pc[s] = "got" /\ item[s] = Sentinel)

\* Of a job nobody cancelled the end marker means that nobody is left at work, wherever
\* it is: a status is settled by the stream that has it.
QuietInv ==
    /\ \A j \in Jobs : "cancelled" \notin had[j] => Absent(Sentinel, queue[j]) \/ Quiet(j)
    /\ \A s \in Streams : "cancelled" \notin had[job[s]] /\ HasMarker(s) => Quiet(job[s])
    /\ \A s \in Streams : pc[s] = "settle" => Quiet(job[s])
    /\ \A j \in Jobs : status[j] \in {"done", "failed"} => Quiet(j)
    /\ \A j \in Jobs : status[j] = "running" => "cancelled" \notin had[j]

\* An end marker is put in the queue by the reader, or by a cancellation.
LEMMA MarkerPut ==
    ASSUME TypeInv, [JobsNext]_vars, NEW j \in Jobs, Absent(Sentinel, queue[j])
    PROVE  \/ Absent(Sentinel, queue'[j])
           \/ reader[j] = "reading" /\ OutputEnds(j)
           \/ \E c \in Callers : pc[c] = "note" /\ job[c] = j
<1> USE LineTypes DEF TypeInv, PlacesType, PipeType, Procs
<1> DEFINE Goal == \/ Absent(Sentinel, queue'[j])
                   \/ reader[j] = "reading" /\ OutputEnds(j)
                   \/ \E c \in Callers : pc[c] = "note" /\ job[c] = j
<1>1. ASSUME NEW k \in Jobs, StartTuner(k) \/ EndTuner(k) \/ PrintLine(k) \/ Exit(k) PROVE Goal
  BY <1>1 DEF StartTuner, EndTuner, PrintLine, Exit
<1>2. ASSUME NEW k \in Jobs, ReadLine(k) PROVE Goal
  <2>1. CASE k = j /\ read[j] < printed[j]
    <3>1. read[j] + 1 \in Lines
      BY <2>1, JobsAssumption DEF Lines
    <3>2. queue'[j] = Append(queue[j], read[j] + 1)
      BY <1>2, <2>1 DEF ReadLine, PutLine
    <3>3. Grown(Sentinel, queue[j], read[j] + 1)
      BY <3>1, QueuesAndLines
    <3>4. read[j] + 1 # Sentinel
      BY <3>1
    <3> QED
      BY <3>2, <3>3, <3>4 DEF Grown
  <2>2. CASE k = j /\ ~ read[j] < printed[j]
    BY <1>2, <2>2 DEF ReadLine
  <2>3. CASE k # j
    BY <1>2, <2>3 DEF ReadLine, PutLine, PutMarker
  <2> QED
    BY <2>1, <2>2, <2>3
<1>3. ASSUME NEW p \in Procs, Persist(p) PROVE Goal
  BY <1>3 DEF Persist, Snapshot, Truncate, Write, PersistRaises
<1>4. ASSUME NEW c \in Callers, Cancelling(c) \/ \E k \in Jobs : start_optimize(c, k) \/ cancel_job(c, k)
      PROVE  Goal
  BY <1>4 DEF Cancelling, Poll, TerminateFails, WaitOrKill, Mark, NoteCancel, start_optimize, cancel_job
<1>5. ASSUME NEW s \in Streams, Take(s) \/ TakeForNobody(s) PROVE Goal
  <2>1. queue' = queue \/ (queue[job[s]] # <<>> /\ queue' = [queue EXCEPT ![job[s]] = Tail(@)])
    BY <1>5 DEF Take, TakeForNobody
  <2>2. queue[j] # <<>> => Absent(Sentinel, Tail(queue[j]))
    BY QueuesAndLines DEF Shrunk
  <2>3. queue'[j] = queue[j] \/ (queue[j] # <<>> /\ queue'[j] = Tail(queue[j]))
    <3>1. DOMAIN queue = Jobs
      OBVIOUS
    <3>2. CASE job[s] = j
      BY <2>1, <3>1, <3>2, Zenon
    <3>3. CASE job[s] # j
      BY <2>1, <3>1, <3>3, Zenon
    <3> QED
      BY <3>2, <3>3
  <2> QED
    BY <2>2, <2>3
<1>6. ASSUME NEW s \in Streams,
             \/ Replay(s) \/ CheckStatus(s) \/ GotLine(s) \/ GotMarker(s) \/ Reap(s) \/ Settle(s)
             \/ Disconnect(s) \/ \E k \in Jobs : stream_optimize(s, k)
      PROVE  Goal
  BY <1>6 DEF Replay, CheckStatus, GotLine, GotMarker, Reap, Settle, Disconnect, stream_optimize
<1>7. CASE Crash
  <2>1. queue'[j] = <<>>
    BY <1>7 DEF Crash
  <2> QED
    BY <2>1 DEF Absent
<1>8. CASE UNCHANGED vars
  BY <1>8 DEF vars
<1> HIDE DEF Goal, TypeInv, PlacesType, PipeType, Procs
<1> QED
  BY <1>1, <1>2, <1>3, <1>4, <1>5, <1>6, <1>7, <1>8 DEF Goal, JobsNext, Work, Environment, Streaming

\* A stream comes by the end marker by taking it from the queue.
LEMMA MarkerTaken ==
    ASSUME TypeInv, [JobsNext]_vars, NEW s \in Streams, HasMarker(s)'
    PROVE  job'[s] = job[s] /\ (HasMarker(s) \/ ~ Absent(Sentinel, queue[job[s]]))
<1> USE LineTypes DEF TypeInv, PlacesType, Procs, HasMarker, Goto
<1> DEFINE Goal == job'[s] = job[s] /\ (HasMarker(s) \/ ~ Absent(Sentinel, queue[job[s]]))
<1>1. ASSUME NEW j \in Jobs, StartTuner(j) \/ EndTuner(j) \/ PrintLine(j) \/ Exit(j) \/ ReadLine(j)
      PROVE  Goal
  BY <1>1 DEF StartTuner, EndTuner, PrintLine, Exit, ReadLine
<1>2. ASSUME NEW p \in Procs, Persist(p) PROVE Goal
  <2>1. job' = job /\ pc'[p] \notin {"reap", "got"} /\ \A q \in Procs \ {p} : pc'[q] = pc[q]
    BY <1>2 DEF Persist, Snapshot, Truncate, Write, PersistRaises, After, Saving
  <2>2. \A t \in Streams \ {p} : item'[t] = item[t]
    BY <1>2 DEF Persist, Snapshot, Truncate, Write, PersistRaises, After, Send, Gone
  <2> QED
    BY <2>1, <2>2
<1>3. ASSUME NEW c \in Callers, Cancelling(c) \/ \E j \in Jobs : start_optimize(c, j) \/ cancel_job(c, j)
      PROVE  Goal
  <2>1. pc'[s] = pc[s] /\ job'[s] = job[s] /\ item' = item
    BY <1>3 DEF Cancelling, Poll, TerminateFails, WaitOrKill, Mark, NoteCancel, start_optimize, cancel_job
  <2> QED
    BY <2>1
<1>4. ASSUME NEW t \in Streams, t # s, Streaming(t) \/ Disconnect(t) \/ \E j \in Jobs : stream_optimize(t, j)
      PROVE  Goal
  <2>1. pc'[s] = pc[s] /\ job'[s] = job[s] /\ item'[s] = item[s]
    BY <1>4 DEF Streaming, Replay, CheckStatus, Take, GotLine, GotMarker, Reap, Settle, TakeForNobody,
                Disconnect, Send, Gone, stream_optimize
  <2> QED
    BY <2>1
<1>5. CASE Take(s)
  <2>1. queue[job[s]] # <<>> /\ item'[s] = Head(queue[job[s]]) /\ job' = job /\ pc'[s] = "got"
    BY <1>5 DEF Take
  <2>2. Shrunk(Sentinel, queue[job[s]])
    BY <2>1, QueuesAndLines
  <2> QED
    BY <2>1, <2>2 DEF Shrunk
<1>6. CASE GotMarker(s)
  BY <1>6 DEF GotMarker
<1>7. CASE \/ Replay(s) \/ CheckStatus(s) \/ GotLine(s) \/ Reap(s) \/ Settle(s) \/ TakeForNobody(s)
           \/ Disconnect(s) \/ \E j \in Jobs : stream_optimize(s, j)
  <2>1. pc'[s] \notin {"reap", "got"}
    BY <1>7 DEF Replay, CheckStatus, GotLine, Reap, Settle, TakeForNobody, Disconnect, stream_optimize
  <2> QED
    BY <2>1
<1>8. CASE Crash
  <2>1. pc'[s] \in {"idle", "gone"}
    BY <1>8 DEF Crash
  <2> QED
    BY <2>1
<1>9. CASE UNCHANGED vars
  BY <1>9 DEF vars
<1> HIDE DEF Goal, TypeInv, PlacesType, Procs, HasMarker, Goto
<1> QED
  BY <1>1, <1>2, <1>3, <1>4, <1>5, <1>6, <1>7, <1>8, <1>9 DEF Goal, JobsNext, Work, Environment, Streaming

\* Whatever races for the status, nobody is left at work when it is settled.
LEMMA QuietKept == ASSUME TypeInv, EndsInv, ClientsInv, QuietInv, [JobsNext]_vars PROVE QuietInv'
<1>1. \A j \in Jobs : Quiet(j) => Quiet(j)'
  BY QuietStays
<1>2. \A j \in Jobs : had[j] \subseteq had'[j]
  BY HadGrows
<1>3. \A p \in Procs : job[p] \in Jobs
  BY DEF TypeInv, PlacesType
<1>4. ASSUME NEW j \in Jobs, "cancelled" \notin had'[j] PROVE Absent(Sentinel, queue'[j]) \/ Quiet(j)'
  <2>1. "cancelled" \notin had[j]
    BY <1>2, <1>4
  <2>2. CASE Quiet(j)
    BY <1>1, <2>2
  <2>3. CASE Absent(Sentinel, queue[j])
    <3>1. reader[j] = "reading" => proc[j] # "none"
      BY DEF EndsInv, StartedInv, NoTrace
    <3>2. \A c \in Callers : ~ (pc[c] = "note" /\ job[c] = j)
      BY <2>1 DEF ClientsInv, TellInv
    <3> QED
      BY <1>1, <2>3, <3>1, <3>2, MarkerPut DEF Quiet
  <2> QED
    BY <2>1, <2>2, <2>3 DEF QuietInv
<1>5. ASSUME NEW s \in Streams, "cancelled" \notin had'[job'[s]], HasMarker(s)' PROVE Quiet(job[s])'
  <2>1. /\ job'[s] = job[s] /\ job[s] \in Jobs /\ "cancelled" \notin had[job[s]]
        /\ HasMarker(s) \/ ~ Absent(Sentinel, queue[job[s]])
    BY <1>2, <1>3, <1>5, MarkerTaken DEF Procs
  <2>2. Quiet(job[s])
    BY <2>1 DEF QuietInv
  <2> QED
    BY <1>1, <2>1, <2>2
<1>6. ASSUME NEW s \in Streams, pc'[s] = "settle" PROVE Quiet(job[s])'
  <2>1. job'[s] = job[s] /\ job[s] \in Jobs /\ (pc[s] = "settle" \/ (Reap(s) /\ status[job[s]] = "running"))
    BY <1>3, <1>6, PlaceStep DEF ToSettle, Procs
  <2>2. Quiet(job[s])
    BY <2>1 DEF QuietInv, Reap, HasMarker
  <2> QED
    BY <1>1, <2>1, <2>2
<1>7. ASSUME NEW j \in Jobs, status'[j] \in {"done", "failed"} PROVE Quiet(j)'
  <2>1. CASE status[j] \in {"done", "failed"}
    BY <1>1, <2>1 DEF QuietInv
  <2>2. ASSUME NEW s \in Streams, Settle(s), status[j] \notin {"done", "failed"} PROVE Quiet(j)
    <3>1. job[s] = j /\ pc[s] = "settle"
      BY <1>7, <2>2 DEF Settle, Becomes, TypeInv, StoreType
    <3> QED
      BY <3>1 DEF QuietInv
  <2>3. ASSUME NEW c \in Callers, Mark(c) \/ \E k \in Jobs : start_optimize(c, k)
        PROVE  status[j] \in {"done", "failed"}
    BY <1>7, <2>3 DEF Mark, start_optimize, Becomes, TypeInv, StoreType
  <2>4. CASE Crash
    <3>1. proc[j] # "none"
      BY <1>7, <2>4 DEF Crash, Loaded, Nobody, EndsInv, StartedInv, NotSaved
    <3> QED
      BY <2>4, <3>1 DEF Crash, Quiet, OutputEnds, Running
  <2> QED
    BY <1>1, <1>7, <2>1, <2>2, <2>3, <2>4, StatusStep
<1>8. ASSUME NEW j \in Jobs, status'[j] = "running" PROVE "cancelled" \notin had'[j]
  <2>1. CASE UNCHANGED <<status, had>>
    BY <1>8, <2>1 DEF QuietInv
  <2>2. ASSUME NEW c \in Callers, NEW k \in Jobs, start_optimize(c, k) PROVE "cancelled" \notin had'[j]
    <3>1. had[k] = {"absent"} /\ Becomes(k, "running")
      BY <2>2 DEF start_optimize, EndsInv, StartedInv, NoTrace
    <3> QED
      BY <1>8, <3>1 DEF Becomes, QuietInv, TypeInv, StoreType
  <2>3. ASSUME NEW c \in Callers, Mark(c) PROVE "cancelled" \notin had'[j]
    <3>1. job[c] # j /\ job[c] \in Jobs
      BY <1>3, <1>8, <2>3 DEF Mark, Becomes, TypeInv, StoreType, Procs
    <3> QED
      BY <1>8, <2>3, <3>1 DEF Mark, Becomes, QuietInv, TypeInv, StoreType
  <2>4. ASSUME NEW s \in Streams, Settle(s) PROVE "cancelled" \notin had'[j]
    <3>1. job[s] # j /\ job[s] \in Jobs
      BY <1>3, <1>8, <2>4 DEF Settle, Becomes, TypeInv, StoreType, Procs
    <3> QED
      BY <1>8, <2>4, <3>1 DEF Settle, Becomes, QuietInv, TypeInv, StoreType
  <2>5. CASE Crash
    BY <1>8, <2>5 DEF Crash, Loaded, TypeInv, StoreType, Dicts
  <2> DEFINE Free == "cancelled" \notin had'[j]
  <2> HIDE DEF Free
  <2>6. \/ UNCHANGED <<status, had>> \/ Crash \/ \E s \in Streams : Settle(s)
        \/ \E c \in Callers : Mark(c) \/ \E k \in Jobs : start_optimize(c, k)
    BY StatusStep
  <2>7. Free
    BY <2>1, <2>2, <2>3, <2>4, <2>5, <2>6 DEF Free
  <2> QED
    BY <2>7 DEF Free
<1> QED
  BY <1>4, <1>5, <1>6, <1>7, <1>8 DEF QuietInv

\* The invariant about the end marker is inductive.
LEMMA QuietInvariant == JobsSpec => []QuietInv
<1>1. JobsInit => QuietInv
  BY DEF JobsInit, QuietInv, Absent, HasMarker, Procs
<1>2. TypeInv /\ EndsInv /\ ClientsInv /\ QuietInv /\ [JobsNext]_vars => QuietInv'
  BY QuietKept
<1> QED
  BY <1>1, <1>2, TypeInvariant, EndsInvariant, ClientsInvariant, PTL DEF JobsSpec

\* A job reported done, failed or cancelled has no child at work, and one reported done
\* or failed no optimizer either, whichever cancellations and streams raced for its
\* status.
THEOREM FinalJobsEnded == JobsSpec => []FinalMeansEnded
<1>1. EndsInv /\ QuietInv => FinalMeansEnded
  BY DEF EndsInv, ChildOver, QuietInv, Quiet, OutputEnds, FinalMeansEnded
<1> QED
  BY <1>1, EndsInvariant, QuietInvariant, PTL
====
