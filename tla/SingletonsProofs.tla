---- MODULE SingletonsProofs ----
(* Theorems about Singletons, for any number of threads, builders, changes and  *)
(* requests: the lock of a session, the sum of a client, and what the caches    *)
(* hold while settings change.                                                  *)
EXTENDS SingletonsTypes

----------------------------------------------------------------------------
(* The lock of a session: whoever is inside of it is its holder.              *)

\* w is inside the lock of its session.
Inside(w) == pc[w] = "sign in" \/ (pc[w] = "read env" /\ frames[w] = <<>>)

LockInv ==
    /\ \A i \in DOMAIN sessions :
          /\ sessions[i].logins <= 1
          /\ sessions[i].login = 0 <=> sessions[i].logins = 0
    /\ \A i \in DOMAIN sessions : sessions[i].lock # Free =>
          /\ sessions[i].lock \in Workers /\ Inside(sessions[i].lock)
          /\ hold[sessions[i].lock].session = i
    /\ \A w \in Workers : Inside(w) =>
          /\ hold[w].session # 0
          /\ sessions[hold[w].session].lock = w /\ sessions[hold[w].session].login = 0
    /\ \A w \in Workers : pc[w] = "sign in" => hold[w].settings # 0
    /\ \A w \in Workers : pc[w] \in {"lock", "cache session"} => hold[w].session # 0

InsideAt(l, fs) == l = "sign in" \/ (l = "read env" /\ fs = <<>>)
TakenAt(l, h) == (l = "sign in" => h.settings # 0) /\ (l \in {"lock", "cache session"} => h.session # 0)
OneTime(r) == r.logins <= 1 /\ (r.login = 0 <=> r.logins = 0)

\* Where the threads are after a step of one of them.
LEMMA MovesAt ==
    ASSUME ThreadsInv, NEW p \in Procs, NEW l, NEW fs, NEW h, Moves(p, l, fs, h)
    PROVE  /\ pc'[p] = l /\ frames'[p] = fs /\ hold'[p] = h
           /\ \A q \in Procs : q # p => pc'[q] = pc[q] /\ frames'[q] = frames[q] /\ hold'[q] = hold[q]
<1>1. /\ pc' = [pc EXCEPT ![p] = l] /\ frames' = [frames EXCEPT ![p] = fs]
      /\ hold' = [hold EXCEPT ![p] = h]
      /\ pc \in [Procs -> WorkerPlaces \cup AdminPlaces] /\ frames \in [Procs -> Seq(Frames)]
      /\ hold = [q \in Procs |-> hold[q]]
  BY DEF Moves, ThreadsInv
<1>2. /\ pc'[p] = l /\ \A q \in Procs : q # p => pc'[q] = pc[q]
  BY <1>1
<1>3. /\ frames'[p] = fs /\ \A q \in Procs : q # p => frames'[q] = frames[q]
  BY <1>1
<1>4. /\ hold'[p] = h /\ \A q \in Procs : q # p => hold'[q] = hold[q]
  BY <1>1
<1> QED
  BY <1>2, <1>3, <1>4

\* The holder of a session's lock.
HolderIs(i) ==
    sessions[i].lock # Free =>
       /\ sessions[i].lock \in Workers /\ InsideAt(pc[sessions[i].lock], frames[sessions[i].lock])
       /\ hold[sessions[i].lock].session = i

InsiderIs(w) ==
    InsideAt(pc[w], frames[w]) =>
       /\ hold[w].session # 0
       /\ sessions[hold[w].session].lock = w /\ sessions[hold[w].session].login = 0

\* The lock's invariant, part by part.
LEMMA LockIs ==
    LockInv <=> /\ \A i \in DOMAIN sessions : OneTime(sessions[i])
                /\ \A i \in DOMAIN sessions : HolderIs(i)
                /\ \A w \in Workers : InsiderIs(w)
                /\ \A w \in Workers : TakenAt(pc[w], hold[w])
  BY Zenon DEF LockInv, OneTime, HolderIs, InsiderIs, TakenAt, InsideAt, Inside

\* The same after a step.
LEMMA LockIsNext ==
    LockInv' <=> /\ \A i \in DOMAIN sessions' : OneTime(sessions'[i])
                 /\ \A i \in DOMAIN sessions' : HolderIs(i)'
                 /\ \A w \in Workers : InsiderIs(w)'
                 /\ \A w \in Workers : TakenAt(pc'[w], hold'[w])
  BY Zenon DEF LockInv, OneTime, HolderIs, InsiderIs, TakenAt, InsideAt, Inside

\* Whoever is inside of a lock has a session that exists.
LEMMA InsiderSession ==
    ASSUME TypesInv, SingletonsAssumption, LockInv, NEW w \in Workers, InsideAt(pc[w], frames[w])
    PROVE  hold[w].session \in DOMAIN sessions
<1>1. hold[w].session # 0
  BY LockIs DEF InsiderIs
<1>2. ThreadsInv /\ StoresInv
  BY DEF TypesInv
<1>3. Hands(hold[w], Len(sessions), Len(clients), Len(settings))
  BY <1>2, WorkerIs
<1>4. hold[w].session \in 0 .. Len(sessions)
  BY <1>3 DEF Hands
<1>5. DOMAIN sessions = 1 .. Len(sessions) /\ Len(sessions) \in Nat
  BY <1>2, StoresAre
<1>6. PICK i, n : i = hold[w].session /\ n = Len(sessions)
  OBVIOUS
<1>7. i \in 1 .. n
  BY <1>1, <1>4, <1>5, <1>6
<1> QED
  BY <1>5, <1>6, <1>7

\* A step of a thread that is inside of no lock, before it and after it.
LEMMA LockQuiet ==
    ASSUME TypesInv, SingletonsAssumption, LockInv, sessions' = sessions,
           NEW p \in Procs, NEW l, NEW fs, NEW h, Moves(p, l, fs, h),
           p \in Workers => ~ InsideAt(pc[p], frames[p]) /\ ~ InsideAt(l, fs) /\ TakenAt(l, h)
    PROVE  LockInv'
<1>1. /\ pc'[p] = l /\ frames'[p] = fs /\ hold'[p] = h
      /\ \A q \in Procs : q # p => pc'[q] = pc[q] /\ frames'[q] = frames[q] /\ hold'[q] = hold[q]
  BY MovesAt DEF TypesInv
<1>2. \A w \in Workers : w \in Procs
  BY DEF Procs
<1>3. /\ \A i \in DOMAIN sessions : OneTime(sessions[i])
      /\ \A i \in DOMAIN sessions : HolderIs(i)
      /\ \A w \in Workers : InsiderIs(w)
      /\ \A w \in Workers : TakenAt(pc[w], hold[w])
  BY LockIs
<1>4. \A i \in DOMAIN sessions' : OneTime(sessions'[i])
  BY <1>3
<1>5. ASSUME NEW i \in DOMAIN sessions'
      PROVE  HolderIs(i)'
  <2>1. HolderIs(i)
    BY <1>3
  <2> QED
    BY <1>1, <1>2, <2>1 DEF HolderIs
<1>6. ASSUME NEW w \in Workers
      PROVE  InsiderIs(w)'
  <2>1. InsiderIs(w)
    BY <1>3
  <2> QED
    BY <1>1, <1>2, <2>1 DEF InsiderIs
<1>7. \A w \in Workers : TakenAt(pc'[w], hold'[w])
  BY <1>1, <1>2, <1>3
<1> QED
  BY <1>4, <1>5, <1>6, <1>7, LockIsNext

\* A step of a worker on its session.
LEMMA LockTurned ==
    ASSUME TypesInv, SingletonsAssumption, LockInv,
           NEW w \in Workers, NEW l, NEW fs, NEW h, Moves(w, l, fs, h), TakenAt(l, h),
           NEW i, i = hold[w].session, i \in DOMAIN sessions, sessions[i].lock \in {Free, w},
           NEW y, SessionTurns(i, y), OneTime(y),
           IF InsideAt(l, fs) THEN y.lock = w /\ y.login = 0 /\ h.session = i /\ i # 0 ELSE y.lock = Free
    PROVE  LockInv'
<1>1. w \in Procs /\ w # Free /\ \A v \in Workers : v \in Procs /\ v # Free
  BY DEF Procs, SingletonsAssumption
<1>2. /\ pc'[w] = l /\ frames'[w] = fs /\ hold'[w] = h
      /\ \A q \in Procs : q # w => pc'[q] = pc[q] /\ frames'[q] = frames[q] /\ hold'[q] = hold[q]
  BY <1>1, MovesAt DEF TypesInv
<1>3. /\ \A j \in DOMAIN sessions : OneTime(sessions[j])
      /\ \A j \in DOMAIN sessions : HolderIs(j)
      /\ \A v \in Workers : InsiderIs(v)
      /\ \A v \in Workers : TakenAt(pc[v], hold[v])
  BY LockIs
<1>4. /\ DOMAIN sessions' = DOMAIN sessions /\ sessions'[i] = y
      /\ \A j \in DOMAIN sessions : j # i => sessions'[j] = sessions[j]
  BY DEF SessionTurns
<1>5. \A j \in DOMAIN sessions' : OneTime(sessions'[j])
  BY <1>3, <1>4
<1>6. ASSUME NEW j \in DOMAIN sessions'
      PROVE  HolderIs(j)'
  <2>1. CASE j = i
    BY <1>2, <1>4, <2>1 DEF HolderIs
  <2>2. CASE j # i
    <3>1. HolderIs(j) /\ sessions'[j] = sessions[j]
      BY <1>3, <1>4, <2>2
    <3>2. sessions[j].lock # w
      BY <1>1, <2>2, <3>1 DEF HolderIs
    <3> QED
      BY <1>1, <1>2, <3>1, <3>2 DEF HolderIs
  <2> QED
    BY <2>1, <2>2
<1>7. ASSUME NEW v \in Workers
      PROVE  InsiderIs(v)'
  <2>1. CASE v = w
    BY <1>2, <1>4, <2>1 DEF InsiderIs
  <2>2. CASE v # w
    <3>1. pc'[v] = pc[v] /\ frames'[v] = frames[v] /\ hold'[v] = hold[v]
      BY <1>1, <1>2, <2>2
    <3>2. SUFFICES ASSUME InsideAt(pc[v], frames[v])
                   PROVE  /\ hold[v].session # 0 /\ sessions'[hold[v].session].lock = v
                          /\ sessions'[hold[v].session].login = 0
      BY <3>1 DEF InsiderIs
    <3>3. hold[v].session \in DOMAIN sessions
      BY <3>2, InsiderSession
    <3>4. /\ hold[v].session # 0 /\ sessions[hold[v].session].lock = v
          /\ sessions[hold[v].session].login = 0
      BY <1>3, <3>2 DEF InsiderIs
    <3>5. hold[v].session # i
      BY <1>1, <2>2, <3>4
    <3> QED
      BY <1>4, <3>3, <3>4, <3>5
  <2> QED
    BY <2>1, <2>2
<1>8. \A v \in Workers : TakenAt(pc'[v], hold'[v])
  BY <1>1, <1>2, <1>3
<1> QED
  BY <1>5, <1>6, <1>7, <1>8, LockIsNext

\* A worker that builds comes to a place outside of every lock and every call.
Builds(w) ==
    \E l, fs, h :
       /\ Moves(w, l, fs, h) /\ l \in {"idle", "task", "build", "read env"} /\ ~ InsideAt(l, fs)
       /\ h = Empty \/ h.session = hold[w].session

\* To give a builder's value ends outside of every lock.
LEMMA GiveBuilds ==
    ASSUME ThreadsInv, SingletonsAssumption, NEW w \in Workers, NEW below, NEW c, NEW o, Give(w, below, c, o)
    PROVE  Builds(w)
<1>1. w \in Procs /\ Shapes /\ Hands(hold[w], Len(sessions), Len(clients), Len(settings))
  BY WorkerIs
<1>2. With(w, c, o).session = hold[w].session
  <2>1. CASE c # "orchestrator"
    BY <2>1 DEF With
  <2>2. CASE c = "orchestrator"
    <3>1. PICK x, h : x = o.parts["validation_service"].client /\ h = hold[w]
      OBVIOUS
    <3>2. With(w, c, o) = PutClient(h, x)
      BY <2>2, <3>1 DEF With, PutClient
    <3>3. DOMAIN h = {"session", "client", "settings", "sum", "next"}
      BY <1>1, <3>1 DEF Hands
    <3>4. PutClient(h, x).session = h.session
      BY <3>3 DEF PutClient
    <3> QED
      BY <3>1, <3>2, <3>4
  <2> QED
    BY <2>1, <2>2
<1>3. CASE \E l \in {"idle", "task"} :
              Moves(w, l, <<>>, IF l = "idle" THEN Empty ELSE With(w, c, o))
  <2>1. PICK l : l \in {"idle", "task"} /\ Moves(w, l, <<>>, IF l = "idle" THEN Empty ELSE With(w, c, o))
    BY <1>3
  <2>2. PICK h : h = IF l = "idle" THEN Empty ELSE With(w, c, o)
    OBVIOUS
  <2>3. h = Empty \/ h.session = hold[w].session
    BY <1>2, <2>2
  <2>4. ~ InsideAt(l, <<>>) /\ l \in {"idle", "task", "build", "read env"}
    BY <2>1 DEF InsideAt
  <2>5. Moves(w, l, <<>>, h)
    BY <2>1, <2>2
  <2> QED
    BY <2>3, <2>4, <2>5 DEF Builds
<1>4. CASE Moves(w, "build", [below EXCEPT ![Len(below)] = Plus(below[Len(below)], c, o)], hold[w])
  <2>1. PICK fs : fs = [below EXCEPT ![Len(below)] = Plus(below[Len(below)], c, o)]
    OBVIOUS
  <2>2. ~ InsideAt("build", fs)
    BY DEF InsideAt
  <2>3. PICK l : l = "build"
    OBVIOUS
  <2>4. Moves(w, l, fs, hold[w]) /\ ~ InsideAt(l, fs) /\ l \in {"idle", "task", "build", "read env"}
    BY <1>4, <2>1, <2>2, <2>3
  <2> QED
    BY <2>4 DEF Builds
<1> QED
  BY <1>1, <1>3, <1>4, GiveMoves

\* A call of a builder ends outside of every lock.
LEMMA CallBuilds ==
    ASSUME TypesInv, SingletonsAssumption, NEW w \in Workers, NEW c \in Cached, Call(w, c)
    PROVE  Builds(w)
<1>1. ThreadsInv /\ StoresInv
  BY DEF TypesInv
<1>2. w \in Procs /\ Shapes /\ frames[w] \in Seq(Frames)
  BY <1>1, WorkerIs
<1>3. settings \in Seq(Nat) /\ current \in 0 .. Len(settings)
  BY <1>1, Types
<1>4. CASE \E object \in cell[c] : Give(w, frames[w], c, object)
  BY <1>1, <1>4, GiveBuilds
<1>5. CASE \E l \in {"build", "read env"}, f \in Frames :
                    Begun(c, f, l) /\ Moves(w, l, Append(frames[w], f), hold[w])
  <2>1. PICK l, f : /\ l \in {"build", "read env"} /\ f \in Frames
                    /\ Begun(c, f, l) /\ Moves(w, l, Append(frames[w], f), hold[w])
    BY <1>5
  <2>2. Append(frames[w], f) # <<>>
    BY <1>2, <2>1, AppendIs
  <2>3. PICK fs : fs = Append(frames[w], f)
    OBVIOUS
  <2>4. ~ InsideAt(l, fs) /\ l \in {"idle", "task", "build", "read env"}
    BY <2>1, <2>2, <2>3 DEF InsideAt
  <2>5. Moves(w, l, fs, hold[w])
    BY <2>1, <2>3
  <2> QED
    BY <2>4, <2>5 DEF Builds
<1> QED
  BY <1>2, <1>3, <1>4, <1>5, CallMoves

\* The steps of builders touch no session and no settings.
LEMMA BuildSteps ==
    ASSUME TypesInv, SingletonsAssumption, NEW w \in Workers, Ask(w) \/ AskPart(w) \/ Store(w)
    PROVE  Builds(w) /\ pc[w] \in {"task", "build"} /\ UNCHANGED <<settings, current, session, sessions, halfway>>
<1>1. CASE Ask(w)
  <2>1. PICK c \in Cached : Does(w, c) /\ Call(w, c)
    BY <1>1 DEF Ask
  <2>2. pc[w] = "task" /\ UNCHANGED <<settings, current, session, sessions, halfway>>
    BY <1>1, <2>1 DEF Ask, Does, caches, counts
  <2> QED
    BY <2>1, <2>2, CallBuilds
<1>2. CASE AskPart(w)
  <2>1. PICK i \in Wanting(w) : Call(w, Builders[Top(w).of][i])
    BY <1>2 DEF AskPart
  <2>2. Builders[Top(w).of][i] \in Cached
    BY DEF Wanting
  <2>3. pc[w] = "build" /\ UNCHANGED <<settings, current, session, sessions, halfway>>
    BY <1>2 DEF AskPart, caches, counts
  <2> QED
    BY <2>1, <2>2, <2>3, CallBuilds
<1>3. CASE Store(w)
  <2>1. PICK below, c, o : Give(w, below, c, o)
    BY <1>3, StoreIs
  <2>2. ThreadsInv
    BY DEF TypesInv
  <2>3. pc[w] = "build" /\ UNCHANGED <<settings, current, session, sessions, halfway>>
    BY <1>3 DEF Store, counts
  <2> QED
    BY <2>1, <2>2, <2>3, GiveBuilds
<1> QED
  BY <1>1, <1>2, <1>3

\* A step outside of every lock keeps the lock's invariant.
LEMMA PlainQuiet ==
    ASSUME TypesInv, SingletonsAssumption, LockInv, sessions' = sessions,
           NEW w \in Workers, NEW l, NEW fs, NEW h, Moves(w, l, fs, h),
           pc[w] \notin {"sign in", "read env"}, l \notin {"sign in", "cache session"}, ~ InsideAt(l, fs),
           l = "lock" => h.session # 0
    PROVE  LockInv'
<1>1. w \in Procs
  BY DEF Procs
<1>2. ~ InsideAt(pc[w], frames[w])
  BY DEF InsideAt
<1>3. TakenAt(l, h)
  BY DEF TakenAt
<1> QED
  BY <1>1, <1>2, <1>3, LockQuiet

\* So does the look at the cap.
LEMMA LockCap ==
    ASSUME TypesInv, SingletonsAssumption, LockInv, sessions' = sessions,
           NEW w \in Workers, NEW spend, CapMoves(w, spend), pc[w] \notin {"sign in", "read env"}
    PROVE  LockInv'
<1>1. CASE Moves(w, "idle", <<>>, Empty)
  <2>1. ~ InsideAt("idle", <<>>)
    BY DEF InsideAt
  <2> QED
    BY <1>1, <2>1, PlainQuiet
<1>2. CASE Moves(w, "post", <<>>, hold[w])
  <2>1. ~ InsideAt("post", <<>>)
    BY DEF InsideAt
  <2>2. PICK g : g = hold[w]
    OBVIOUS
  <2>3. Moves(w, "post", <<>>, g)
    BY <1>2, <2>2
  <2> QED
    BY <2>1, <2>3, PlainQuiet
<1> QED
  BY <1>1, <1>2 DEF CapMoves

\* So do the steps of workers that take no lock.
LEMMA LockQuietWork ==
    ASSUME TypesInv, SingletonsAssumption, LockInv, NEW w \in Workers,
           \/ Request(w) \/ Ask(w) \/ AskPart(w) \/ Store(w) \/ BrokerRaises(w) \/ CacheSession(w) \/ LoggedIn(w)
           \/ BeginCall(w) \/ ResetSpend(w) \/ Answered(w) \/ CallFails(w) \/ Charge(w)
    PROVE  LockInv'
<1>1. ThreadsInv
  BY DEF TypesInv
<1>2. /\ \A fs : ~ InsideAt("idle", fs) /\ ~ InsideAt("task", fs) /\ ~ InsideAt("lock", fs) /\ ~ InsideAt("new day", fs)
      /\ \A fs : ~ InsideAt("charge", fs)
  BY DEF InsideAt
<1>g. PICK g : g = hold[w]
  OBVIOUS
<1>3. CASE Request(w)
  <2>1. pc[w] = "idle" /\ Moves(w, "task", <<>>, g) /\ sessions' = sessions
    BY <1>1, <1>3, <1>g, RequestMoves
  <2> QED
    BY <1>2, <2>1, PlainQuiet
<1>4. CASE Ask(w) \/ AskPart(w) \/ Store(w)
  <2>1. Builds(w) /\ pc[w] \in {"task", "build"} /\ sessions' = sessions
    BY <1>4, BuildSteps
  <2>2. PICK l, fs, h : Moves(w, l, fs, h) /\ l \in {"idle", "task", "build", "read env"} /\ ~ InsideAt(l, fs)
    BY <2>1 DEF Builds
  <2>3. l \notin {"sign in", "cache session"} /\ l # "lock" /\ pc[w] \notin {"sign in", "read env"}
    BY <2>1, <2>2
  <2> QED
    BY <2>1, <2>2, <2>3, PlainQuiet
<1>5. CASE BrokerRaises(w)
  <2>1. pc[w] = "build" /\ Moves(w, "idle", <<>>, Empty) /\ sessions' = sessions
    BY <1>1, <1>5, BrokerRaisesMoves
  <2> QED
    BY <1>2, <2>1, PlainQuiet
<1>6. CASE CacheSession(w)
  <2>1. pc[w] = "cache session" /\ Moves(w, "task", <<>>, g) /\ sessions' = sessions
    BY <1>1, <1>6, <1>g, CacheSessionMoves
  <2> QED
    BY <1>2, <2>1, PlainQuiet
<1>7. CASE LoggedIn(w)
  <2>1. /\ pc[w] = "task" /\ g.session # 0 /\ sessions' = sessions
        /\ \/ \E l \in {"idle", "task"} : Moves(w, l, <<>>, IF l = "idle" THEN Empty ELSE g)
           \/ Moves(w, "lock", <<>>, g)
    BY <1>1, <1>7, <1>g, LoggedInMoves
  <2>2. CASE Moves(w, "lock", <<>>, g)
    BY <1>2, <2>1, <2>2, PlainQuiet
  <2>3. CASE \E l \in {"idle", "task"} : Moves(w, l, <<>>, IF l = "idle" THEN Empty ELSE g)
    <3>1. PICK l : l \in {"idle", "task"} /\ Moves(w, l, <<>>, IF l = "idle" THEN Empty ELSE g)
      BY <2>3
    <3>2. PICK h : h = IF l = "idle" THEN Empty ELSE g
      OBVIOUS
    <3>3. Moves(w, l, <<>>, h) /\ ~ InsideAt(l, <<>>) /\ l \notin {"sign in", "cache session"} /\ l # "lock"
      BY <1>2, <3>1, <3>2
    <3> QED
      BY <2>1, <3>3, PlainQuiet
  <2> QED
    BY <2>1, <2>2, <2>3
<1>8. CASE BeginCall(w)
  <2>1. /\ pc[w] = "task" /\ sessions' = sessions
        /\ CapMoves(w, clients[hold[w].client].spend) \/ Moves(w, "new day", <<>>, g)
    BY <1>1, <1>8, <1>g, BeginCallMoves
  <2>2. CASE Moves(w, "new day", <<>>, g)
    BY <1>2, <2>1, <2>2, PlainQuiet
  <2>3. CASE CapMoves(w, clients[hold[w].client].spend)
    BY <2>1, <2>3, LockCap
  <2> QED
    BY <2>1, <2>2, <2>3
<1>9. CASE ResetSpend(w)
  <2>1. /\ pc[w] = "new day" /\ sessions' = sessions /\ CapMoves(w, 0)
    BY <1>1, <1>9, ResetSpendMoves
  <2> QED
    BY <2>1, LockCap
<1>10. CASE Answered(w)
  <2>1. pc[w] = "post" /\ sessions' = sessions /\ \E h : Moves(w, "charge", <<>>, h)
    BY <1>1, <1>10, AnsweredMoves
  <2>2. PICK h : Moves(w, "charge", <<>>, h)
    BY <2>1
  <2> QED
    BY <1>2, <2>1, <2>2, PlainQuiet
<1>11. CASE CallFails(w)
  <2>1. pc[w] = "post" /\ Moves(w, "idle", <<>>, Empty) /\ sessions' = sessions
    BY <1>1, <1>11, CallFailsMoves
  <2> QED
    BY <1>2, <2>1, PlainQuiet
<1>12. CASE Charge(w)
  <2>1. pc[w] = "charge" /\ Moves(w, "idle", <<>>, Empty) /\ sessions' = sessions
    BY <1>1, <1>12, ChargeMoves
  <2> QED
    BY <1>2, <2>1, PlainQuiet
<1> QED
  BY <1>3, <1>4, <1>5, <1>6, <1>7, <1>8, <1>9, <1>10, <1>11, <1>12

\* So does a step of an admin, who takes no lock.
LEMMA LockAdmin ==
    ASSUME TypesInv, SingletonsAssumption, LockInv, sessions' = sessions,
           NEW a \in Admins, NEW l, NEW fs, NEW h, Moves(a, l, fs, h)
    PROVE  LockInv'
<1>1. a \in Procs /\ a \notin Workers
  BY DEF SingletonsAssumption, Procs
<1> QED
  BY <1>1, LockQuiet

\* So does an admin that asks for the settings.
LEMMA LockAsks ==
    ASSUME TypesInv, SingletonsAssumption, LockInv, sessions' = sessions, NEW a \in Admins, NEW l, AskMoves(a, l)
    PROVE  LockInv'
<1>1. \E k, h : Moves(a, k, <<>>, h)
  BY DEF AskMoves
<1>2. PICK k, h : Moves(a, k, <<>>, h)
  BY <1>1
<1> QED
  BY <1>2, LockAdmin

\* A stack without indices is empty.
LEMMA StackEmpty ==
    ASSUME NEW s \in Seq(Frames)
    PROVE  s = <<>> <=> DOMAIN s = {}
<1>1. DOMAIN <<>> = {}
  BY NoPartsYet
<1>2. DOMAIN s = {} => s = <<>>
  <2>1. DOMAIN s = 1 .. Len(s) /\ Len(s) \in Nat
    BY SequenceIs
  <2>2. DOMAIN s = {} => Len(s) = 0
    BY <2>1
  <2>3. Len(s) = 0 => s = <<>>
    OBVIOUS
  <2> QED
    BY <2>2, <2>3
<1> QED
  BY <1>1, <1>2

\* So does the clearing of a cache.
LEMMA LockClear ==
    ASSUME TypesInv, SingletonsAssumption, LockInv, NEW a \in Admins, ClearCell(a)
    PROVE  LockInv'
<1>1. ThreadsInv
  BY DEF TypesInv
<1>2. /\ pc' = pc /\ sessions' = sessions /\ frames' \in [Procs -> Seq(Frames)]
      /\ hold' = [hold EXCEPT ![a] = PutNext(hold[a], hold[a].next + 1)]
      /\ \A p \in Procs : DOMAIN frames'[p] = DOMAIN frames[p]
  BY <1>1, ClearMoves DEF caches
<1>3. \A w \in Workers : w \in Procs /\ w # a
  BY DEF Procs, SingletonsAssumption
<1>4. \A w \in Workers : hold'[w] = hold[w]
  BY <1>1, <1>2, <1>3 DEF ThreadsInv
<1>5. \A w \in Workers : frames'[w] = <<>> <=> frames[w] = <<>>
  <2> TAKE w \in Workers
  <2>1. frames'[w] \in Seq(Frames) /\ frames[w] \in Seq(Frames)
    BY <1>1, <1>2, <1>3 DEF ThreadsInv
  <2>2. PICK s \in Seq(Frames) : s = frames[w]
    BY <2>1
  <2>3. PICK t \in Seq(Frames) : t = frames'[w]
    BY <2>1
  <2>4. DOMAIN s = DOMAIN t
    BY <1>2, <1>3, <2>2, <2>3
  <2>5. /\ s = <<>> <=> DOMAIN s = {}
        /\ t = <<>> <=> DOMAIN t = {}
    BY StackEmpty
  <2> QED
    BY <2>2, <2>3, <2>4, <2>5
<1>6. \A w \in Workers : InsideAt(pc'[w], frames'[w]) <=> InsideAt(pc[w], frames[w])
  BY <1>2, <1>5 DEF InsideAt
<1>7. /\ \A i \in DOMAIN sessions : OneTime(sessions[i])
      /\ \A i \in DOMAIN sessions : HolderIs(i)
      /\ \A w \in Workers : InsiderIs(w)
      /\ \A w \in Workers : TakenAt(pc[w], hold[w])
  BY LockIs
<1>8. \A i \in DOMAIN sessions' : OneTime(sessions'[i])
  BY <1>2, <1>7
<1>9. ASSUME NEW i \in DOMAIN sessions'
      PROVE  HolderIs(i)'
  <2>1. HolderIs(i)
    BY <1>2, <1>7
  <2> QED
    BY <1>2, <1>4, <1>6, <2>1 DEF HolderIs
<1>10. ASSUME NEW w \in Workers
       PROVE  InsiderIs(w)'
  <2>1. InsiderIs(w)
    BY <1>7
  <2> QED
    BY <1>2, <1>4, <1>6, <2>1 DEF InsiderIs
<1>11. \A w \in Workers : TakenAt(pc'[w], hold'[w])
  BY <1>2, <1>4, <1>7
<1> QED
  BY <1>8, <1>9, <1>10, <1>11, LockIsNext

\* So does every step of an admin.
LEMMA LockAdministers ==
    ASSUME TypesInv, SingletonsAssumption, LockInv, NEW a \in Admins, Administer(a)
    PROVE  LockInv'
<1>1. ThreadsInv
  BY DEF TypesInv
<1>2. CASE Patch(a)
  <2>1. AskMoves(a, "set") /\ sessions' = sessions
    BY <1>1, <1>2, PatchMoves
  <2> QED
    BY <2>1, LockAsks
<1>3. CASE Reread(a)
  <2>1. AskMoves(a, "clear") /\ sessions' = sessions
    BY <1>1, <1>3, RereadMoves
  <2> QED
    BY <2>1, LockAsks
<1>4. CASE Reload(a) \/ SetFields(a) \/ ResetSession(a)
  <2>1. (\E l, h : Moves(a, l, <<>>, h)) /\ sessions' = sessions
    BY <1>1, <1>4, ReloadMoves, SetFieldsMoves, ResetSessionMoves
  <2>2. PICK l, h : Moves(a, l, <<>>, h)
    BY <2>1
  <2> QED
    BY <2>1, <2>2, LockAdmin
<1> QED
  BY <1>2, <1>3, <1>4, LockClear DEF Administer

NewSession == [login |-> 0, lock |-> Free, logins |-> 0]

\* A session that is made has no login, and its lock is free.
LEMMA NewSessionIs ==
    NewSession \in SessionT /\ OneTime(NewSession) /\ NewSession.lock = Free /\ NewSession.login = 0
  BY DEF NewSession, SessionT, OneTime

\* A worker outside of every lock makes a session.
LEMMA LockAppended ==
    ASSUME TypesInv, SingletonsAssumption, LockInv, NEW e \in SessionT, sessions' = Append(sessions, e),
           OneTime(e), e.lock = Free,
           NEW w \in Workers, NEW l, NEW fs, NEW h, Moves(w, l, fs, h),
           ~ InsideAt(pc[w], frames[w]), ~ InsideAt(l, fs), TakenAt(l, h)
    PROVE  LockInv'
<1>1. w \in Procs /\ \A v \in Workers : v \in Procs
  BY DEF Procs
<1>2. /\ pc'[w] = l /\ frames'[w] = fs /\ hold'[w] = h
      /\ \A q \in Procs : q # w => pc'[q] = pc[q] /\ frames'[q] = frames[q] /\ hold'[q] = hold[q]
  BY <1>1, MovesAt DEF TypesInv
<1>3. /\ \A i \in DOMAIN sessions : OneTime(sessions[i])
      /\ \A i \in DOMAIN sessions : HolderIs(i)
      /\ \A v \in Workers : InsiderIs(v)
      /\ \A v \in Workers : TakenAt(pc[v], hold[v])
  BY LockIs
<1>4. sessions \in Seq(SessionT)
  BY StoresAre DEF TypesInv
<1>5. /\ \A i \in DOMAIN sessions : i \in DOMAIN sessions' /\ sessions'[i] = sessions[i]
      /\ \A i \in DOMAIN sessions' : i \in DOMAIN sessions \/ sessions'[i] = e
  BY <1>4
<1>6. \A i \in DOMAIN sessions' : OneTime(sessions'[i])
  BY <1>3, <1>5
<1>7. ASSUME NEW i \in DOMAIN sessions'
      PROVE  HolderIs(i)'
  <2>1. CASE i \in DOMAIN sessions
    <3>1. HolderIs(i) /\ sessions'[i] = sessions[i]
      BY <1>3, <1>5, <2>1
    <3> QED
      BY <1>1, <1>2, <3>1 DEF HolderIs
  <2>2. CASE sessions'[i] = e
    BY <2>2 DEF HolderIs
  <2> QED
    BY <1>5, <2>1, <2>2
<1>8. ASSUME NEW v \in Workers
      PROVE  InsiderIs(v)'
  <2>1. CASE v = w
    BY <1>2, <2>1 DEF InsiderIs
  <2>2. CASE v # w
    <3>1. pc'[v] = pc[v] /\ frames'[v] = frames[v] /\ hold'[v] = hold[v]
      BY <1>1, <1>2, <2>2
    <3>2. SUFFICES ASSUME InsideAt(pc[v], frames[v])
                   PROVE  /\ hold[v].session # 0 /\ sessions'[hold[v].session].lock = v
                          /\ sessions'[hold[v].session].login = 0
      BY <3>1 DEF InsiderIs
    <3>3. hold[v].session \in DOMAIN sessions
      BY <3>2, InsiderSession
    <3>4. /\ hold[v].session # 0 /\ sessions[hold[v].session].lock = v
          /\ sessions[hold[v].session].login = 0
      BY <1>3, <3>2 DEF InsiderIs
    <3> QED
      BY <1>5, <3>3, <3>4
  <2> QED
    BY <2>1, <2>2
<1>9. \A v \in Workers : TakenAt(pc'[v], hold'[v])
  BY <1>1, <1>2, <1>3
<1> QED
  BY <1>6, <1>7, <1>8, <1>9, LockIsNext

\* What the places of a login are to the predicates of the lock.
LEMMA PlacesAre ==
    /\ \A fs, h : ~ InsideAt("task", fs) /\ TakenAt("task", h) /\ ~ InsideAt("idle", fs) /\ TakenAt("idle", h)
    /\ \A fs : ~ InsideAt("cache session", fs) /\ ~ InsideAt("lock", fs) /\ InsideAt("sign in", fs)
    /\ \A h : h.session # 0 => TakenAt("cache session", h)
    /\ \A h : h.settings # 0 => TakenAt("sign in", h)
    /\ \A h : TakenAt("read env", h) /\ InsideAt("read env", <<>>)
    /\ \A fs : fs # <<>> => ~ InsideAt("read env", fs)
  BY DEF InsideAt, TakenAt

\* Whoever takes or makes a session keeps the lock's invariant.
LEMMA LockTakeSession ==
    ASSUME TypesInv, SingletonsAssumption, LockInv, NEW w \in Workers, TakeSession(w)
    PROVE  LockInv'
<1>1. ThreadsInv /\ StoresInv
  BY DEF TypesInv
<1>2. Hands(hold[w], Len(sessions), Len(clients), Len(settings))
  BY <1>1, WorkerIs
<1>3. sessions \in Seq(SessionT) /\ Len(sessions) \in Nat /\ Len(clients) \in Nat /\ Len(settings) \in Nat
  BY <1>1, StoresAre
<1>4. pc[w] = "task"
  BY <1>1, TakeSessionMoves
<1>5. ~ InsideAt(pc[w], frames[w])
  BY <1>4, PlacesAre
<1>6. CASE sessions' = sessions /\ Moves(w, "task", <<>>, [hold[w] EXCEPT !.session = session])
  <2>1. PICK h : h = [hold[w] EXCEPT !.session = session]
    OBVIOUS
  <2>2. Moves(w, "task", <<>>, h) /\ sessions' = sessions
    BY <1>6, <2>1
  <2>3. w \in Procs /\ ~ InsideAt("task", <<>>) /\ TakenAt("task", h)
    BY PlacesAre DEF Procs
  <2> QED
    BY <1>5, <2>2, <2>3, LockQuiet
<1>7. CASE /\ sessions' = Append(sessions, [login |-> 0, lock |-> Free, logins |-> 0])
           /\ Moves(w, "cache session", <<>>, [hold[w] EXCEPT !.session = Len(sessions')])
  <2>1. PICK e : e = NewSession
    OBVIOUS
  <2>2. e \in SessionT /\ OneTime(e) /\ e.lock = Free /\ sessions' = Append(sessions, e)
    BY <1>7, <2>1, NewSessionIs DEF NewSession
  <2>3. PICK x, g : x = Len(sessions') /\ g = hold[w]
    OBVIOUS
  <2>4. x \in Nat /\ x # 0 /\ Len(sessions) <= x
    BY <1>3, <2>2, <2>3
  <2>5. PICK h : h = PutSession(g, x)
    OBVIOUS
  <2>6. h.session = x
    <3>1. DOMAIN g = {"session", "client", "settings", "sum", "next"}
      BY <1>2, <2>3 DEF Hands
    <3> QED
      BY <2>5, <3>1 DEF PutSession
  <2>7. Moves(w, "cache session", <<>>, h)
    BY <1>7, <2>3, <2>5 DEF PutSession
  <2>8. ~ InsideAt("cache session", <<>>) /\ TakenAt("cache session", h)
    <3>1. h.session # 0
      BY <2>4, <2>6
    <3> QED
      BY <3>1, PlacesAre
  <2> QED
    BY <1>5, <2>2, <2>7, <2>8, LockAppended
<1> QED
  BY <1>1, <1>6, <1>7, TakeSessionMoves

\* Whoever takes the lock keeps it: the second look finds no login.
LEMMA LockLockLogin ==
    ASSUME TypesInv, SingletonsAssumption, LockInv, NEW w \in Workers, LockLogin(w)
    PROVE  LockInv'
<1>1. ThreadsInv /\ StoresInv
  BY DEF TypesInv
<1>2. w \in Procs /\ Hands(hold[w], Len(sessions), Len(clients), Len(settings))
  BY <1>1, WorkerIs
<1>3. pc[w] = "lock" /\ sessions[hold[w].session].lock = Free
  BY <1>1, LockLoginMoves
<1>4. ~ InsideAt(pc[w], frames[w])
  BY <1>3, PlacesAre
<1>5. PICK g, i : g = hold[w] /\ i = hold[w].session
  OBVIOUS
<1>6. i # 0
  BY <1>3, <1>5, LockIs DEF TakenAt
<1>7. i \in DOMAIN sessions /\ sessions[i] \in SessionT
  <2>1. i \in 0 .. Len(sessions)
    BY <1>2, <1>5 DEF Hands
  <2>2. sessions \in Seq(SessionT) /\ DOMAIN sessions = 1 .. Len(sessions) /\ Len(sessions) \in Nat
    BY <1>1, StoresAre
  <2>3. i \in DOMAIN sessions
    BY <1>6, <2>1, <2>2
  <2> QED
    BY <2>2, <2>3
<1>8. CASE sessions' = sessions /\ \E l \in {"idle", "task"} : Moves(w, l, <<>>, IF l = "idle" THEN Empty ELSE hold[w])
  <2>1. CASE Moves(w, "idle", <<>>, Empty)
    BY <1>2, <1>4, <1>8, <2>1, PlacesAre, LockQuiet
  <2>2. CASE Moves(w, "task", <<>>, g)
    BY <1>2, <1>4, <1>8, <2>2, PlacesAre, LockQuiet
  <2> QED
    BY <1>5, <1>8, <2>1, <2>2
<1>9. CASE /\ sessions[hold[w].session].login = 0
           /\ sessions' = [sessions EXCEPT ![hold[w].session].lock = w]
           /\ \/ current # 0 /\ Moves(w, "sign in", <<>>, [hold[w] EXCEPT !.settings = current])
              \/ current = 0 /\ Moves(w, "read env", <<>>, hold[w])
  <2>1. PICK y : y = PutLock(sessions[i], w)
    OBVIOUS
  <2>2. SessionTurns(i, y)
    BY <1>1, <1>2, <1>5, <1>9, <2>1, LockTurns
  <2>3. y.lock = w /\ y.login = sessions[i].login /\ y.logins = sessions[i].logins
    <3>1. PICK r \in SessionT : r = sessions[i]
      BY <1>7
    <3>2. w \in Procs \cup {Free}
      BY <1>2
    <3>3. PutLock(r, w).lock = w /\ PutLock(r, w).login = r.login /\ PutLock(r, w).logins = r.logins
      BY <3>2, SessionSet
    <3> QED
      BY <2>1, <3>1, <3>3
  <2>4. OneTime(y) /\ y.login = 0
    <3>1. OneTime(sessions[i])
      BY <1>7, LockIs
    <3> QED
      BY <1>5, <1>9, <2>3, <3>1 DEF OneTime
  <2>5. CASE current # 0 /\ Moves(w, "sign in", <<>>, [hold[w] EXCEPT !.settings = current])
    <3>1. PICK x : x = current
      OBVIOUS
    <3>2. PICK h : h = PutSettings(g, x)
      OBVIOUS
    <3>3. DOMAIN g = {"session", "client", "settings", "sum", "next"}
      BY <1>2, <1>5 DEF Hands
    <3>4. h.session = i /\ h.settings # 0
      BY <1>5, <2>5, <3>1, <3>2, <3>3 DEF PutSettings
    <3>5. Moves(w, "sign in", <<>>, h)
      BY <1>5, <2>5, <3>1, <3>2 DEF PutSettings
    <3>6. TakenAt("sign in", h) /\ InsideAt("sign in", <<>>)
      BY <3>4, PlacesAre
    <3>7. sessions[i].lock \in {Free, w}
      BY <1>3, <1>5
    <3> QED
      BY <1>5, <1>6, <1>7, <2>2, <2>3, <2>4, <3>4, <3>5, <3>6, <3>7, LockTurned
  <2>6. CASE Moves(w, "read env", <<>>, hold[w])
    <3>1. Moves(w, "read env", <<>>, g) /\ g.session = i
      BY <1>5, <2>6
    <3>2. TakenAt("read env", g) /\ InsideAt("read env", <<>>)
      BY PlacesAre
    <3>3. sessions[i].lock \in {Free, w}
      BY <1>3, <1>5
    <3> QED
      BY <1>5, <1>6, <1>7, <2>2, <2>3, <2>4, <3>1, <3>2, <3>3, LockTurned
  <2> QED
    BY <1>9, <2>5, <2>6
<1> QED
  BY <1>1, <1>8, <1>9, LockLoginMoves

\* The session that a worker signs in to.
LEMMA InsiderHas ==
    ASSUME TypesInv, SingletonsAssumption, LockInv, NEW w \in Workers, InsideAt(pc[w], frames[w])
    PROVE  /\ hold[w].session # 0 /\ hold[w].session \in DOMAIN sessions
           /\ sessions[hold[w].session] \in SessionT /\ OneTime(sessions[hold[w].session])
           /\ sessions[hold[w].session].lock = w /\ sessions[hold[w].session].login = 0
           /\ sessions[hold[w].session].logins = 0
<1>1. /\ hold[w].session # 0
      /\ sessions[hold[w].session].lock = w /\ sessions[hold[w].session].login = 0
  BY LockIs DEF InsiderIs
<1>2. hold[w].session \in DOMAIN sessions
  BY InsiderSession
<1>3. sessions \in Seq(SessionT)
  BY StoresAre DEF TypesInv
<1>4. PICK i : i = hold[w].session
  OBVIOUS
<1>5. sessions[i] \in SessionT
  BY <1>2, <1>3, <1>4
<1>6. OneTime(sessions[i])
  BY <1>2, <1>4, LockIs
<1> QED
  BY <1>1, <1>2, <1>4, <1>5, <1>6 DEF OneTime

\* The holder of the lock signs in once, and leaves it.
LEMMA LockSignIn ==
    ASSUME TypesInv, SingletonsAssumption, LockInv, NEW w \in Workers, SignIn(w)
    PROVE  LockInv'
<1>1. ThreadsInv /\ StoresInv
  BY DEF TypesInv
<1>2. pc[w] = "sign in"
  BY <1>1, SignInMoves
<1>3. InsideAt(pc[w], frames[w])
  BY <1>2, PlacesAre
<1>4. PICK i, x, g : i = hold[w].session /\ x = hold[w].settings /\ g = hold[w]
  OBVIOUS
<1>5. /\ i # 0 /\ i \in DOMAIN sessions /\ sessions[i] \in SessionT
      /\ sessions[i].lock = w /\ sessions[i].login = 0 /\ sessions[i].logins = 0
  BY <1>3, <1>4, InsiderHas
<1>6. Hands(g, Len(sessions), Len(clients), Len(settings)) /\ Len(settings) \in Nat
  BY <1>1, <1>4, WorkerIs, StoresAre
<1>7. x \in Nat /\ x # 0
  <2>1. x # 0
    BY <1>2, <1>4, LockIs DEF TakenAt
  <2>2. x \in 0 .. Len(settings)
    BY <1>4, <1>6 DEF Hands
  <2> QED
    BY <1>6, <2>1, <2>2
<1>8. PICK y : y = Signed(sessions[i], x)
  OBVIOUS
<1>9. SessionTurns(i, y)
  BY <1>1, <1>4, <1>7, <1>8, SignInMoves, SignTurns
<1>10. y.lock = Free /\ y.login = x /\ y.logins = 1
  <2>1. PICK r \in SessionT : r = sessions[i]
    BY <1>5
  <2>2. Signed(r, x).lock = Free /\ Signed(r, x).login = x /\ Signed(r, x).logins = r.logins + 1
    BY <1>7, SessionSet
  <2>3. r.logins = 0
    BY <1>5, <2>1
  <2> QED
    BY <1>8, <2>1, <2>2, <2>3
<1>11. OneTime(y)
  BY <1>7, <1>10 DEF OneTime
<1>12. sessions[i].lock \in {Free, w}
  BY <1>5
<1>13. CASE Moves(w, "idle", <<>>, Empty)
  <2>1. ~ InsideAt("idle", <<>>) /\ TakenAt("idle", Empty)
    BY PlacesAre
  <2> QED
    BY <1>4, <1>5, <1>9, <1>10, <1>11, <1>12, <1>13, <2>1, LockTurned
<1>14. CASE Moves(w, "task", <<>>, PutSettings(g, 0))
  <2>1. ~ InsideAt("task", <<>>) /\ TakenAt("task", PutSettings(g, 0))
    BY PlacesAre
  <2> QED
    BY <1>4, <1>5, <1>9, <1>10, <1>11, <1>12, <1>14, <2>1, LockTurned
<1>15. Moves(w, "idle", <<>>, Empty) \/ Moves(w, "task", <<>>, PutSettings(g, 0))
  BY <1>1, <1>4, SignInMoves DEF PutSettings
<1> QED
  BY <1>13, <1>14, <1>15

\* A sign-in that fails leaves the lock and no login.
LEMMA LockLoginFails ==
    ASSUME TypesInv, SingletonsAssumption, LockInv, NEW w \in Workers, LoginFails(w)
    PROVE  LockInv'
<1>1. ThreadsInv /\ StoresInv
  BY DEF TypesInv
<1>2. pc[w] = "sign in" /\ Moves(w, "idle", <<>>, Empty)
  BY <1>1, LoginFailsMoves
<1>3. InsideAt(pc[w], frames[w])
  BY <1>2, PlacesAre
<1>4. PICK i : i = hold[w].session
  OBVIOUS
<1>5. /\ i # 0 /\ i \in DOMAIN sessions /\ sessions[i] \in SessionT /\ OneTime(sessions[i])
      /\ sessions[i].lock = w
  BY <1>3, <1>4, InsiderHas
<1>6. PICK y : y = PutLock(sessions[i], Free)
  OBVIOUS
<1>7. SessionTurns(i, y)
  BY <1>1, <1>4, <1>6, LoginFailsMoves, LockTurns
<1>8. y.lock = Free /\ OneTime(y)
  <2>1. PICK r \in SessionT : r = sessions[i]
    BY <1>5
  <2>2. Free \in Procs \cup {Free}
    OBVIOUS
  <2>3. PutLock(r, Free).lock = Free /\ PutLock(r, Free).login = r.login /\ PutLock(r, Free).logins = r.logins
    BY <2>2, SessionSet
  <2> QED
    BY <1>5, <1>6, <2>1, <2>3 DEF OneTime
<1>9. sessions[i].lock \in {Free, w}
  BY <1>5
<1>10. ~ InsideAt("idle", <<>>) /\ TakenAt("idle", Empty)
  BY PlacesAre
<1> QED
  BY <1>2, <1>4, <1>5, <1>7, <1>8, <1>9, <1>10, LockTurned

\* To put in place what is there changes nothing.
LEMMA ElementSame ==
    ASSUME NEW S, NEW s \in Seq(S), NEW i \in DOMAIN s, NEW y, y = s[i]
    PROVE  s = [s EXCEPT ![i] = y]
<1>1. s = [k \in DOMAIN s |-> s[k]]
  BY SequenceIs
<1> QED
  BY <1>1

\* Whoever read .env under the lock goes on to sign in.
LEMMA LockNewSettings ==
    ASSUME TypesInv, SingletonsAssumption, LockInv, NEW p \in Procs, NewSettings(p)
    PROVE  LockInv'
<1>1. ThreadsInv /\ StoresInv
  BY DEF TypesInv
<1>2. pc[p] = "read env" /\ sessions' = sessions /\ settings' = Append(settings, 0)
  BY <1>1, NewSettingsMoves
<1>3. PICK g, x : g = hold[p] /\ x = Len(settings')
  OBVIOUS
<1>4. CASE p \notin Workers
  <2>1. \E l, fs, h : Moves(p, l, fs, h)
    BY <1>1, NewSettingsMoves
  <2>2. PICK l, fs, h : Moves(p, l, fs, h)
    BY <2>1
  <2> QED
    BY <1>2, <1>4, <2>2, LockQuiet
<1>5. CASE p \in Workers /\ frames[p] # <<>> /\ Moves(p, "build", SetTop(frames[p], <<Len(settings'), 0>>), hold[p])
  <2>1. PICK fs : fs = SetTop(frames[p], <<Len(settings'), 0>>)
    OBVIOUS
  <2>2. Moves(p, "build", fs, g)
    BY <1>3, <1>5, <2>1
  <2>3. ~ InsideAt(pc[p], frames[p])
    BY <1>2, <1>5 DEF InsideAt
  <2>4. ~ InsideAt("build", fs) /\ TakenAt("build", g)
    BY DEF InsideAt, TakenAt
  <2> QED
    BY <1>2, <2>2, <2>3, <2>4, LockQuiet
<1>6. CASE p \in Workers /\ frames[p] = <<>> /\ Moves(p, "sign in", <<>>, [hold[p] EXCEPT !.settings = Len(settings')])
  <2>1. InsideAt(pc[p], frames[p])
    BY <1>2, <1>6 DEF InsideAt
  <2>2. PICK i, y : i = hold[p].session /\ y = sessions[i]
    OBVIOUS
  <2>3. /\ i # 0 /\ i \in DOMAIN sessions /\ y \in SessionT /\ OneTime(y)
        /\ y.lock = p /\ y.login = 0
    BY <1>6, <2>1, <2>2, InsiderHas
  <2>4. SessionTurns(i, y)
    <3>1. sessions \in Seq(SessionT)
      BY <1>1, StoresAre
    <3>2. sessions' = [sessions EXCEPT ![i] = y]
      <4>1. sessions = [sessions EXCEPT ![i] = y]
        BY <2>2, <2>3, <3>1, ElementSame
      <4> QED
        BY <1>2, <4>1
    <3> QED
      BY <1>1, <2>3, <3>2, SessionTurned
  <2>5. PICK h : h = PutSettings(g, x)
    OBVIOUS
  <2>6. Moves(p, "sign in", <<>>, h)
    BY <1>3, <1>6, <2>5 DEF PutSettings
  <2>7. Hands(g, Len(sessions), Len(clients), Len(settings))
    BY <1>1, <1>3, <1>6, WorkerIs
  <2>8. h.session = i /\ h.settings = x
    <3>1. DOMAIN g = {"session", "client", "settings", "sum", "next"}
      BY <2>7 DEF Hands
    <3>2. g.session = i
      BY <1>3, <2>2
    <3> QED
      BY <2>5, <3>1, <3>2 DEF PutSettings
  <2>9. x # 0
    <3>1. settings \in Seq(Nat) /\ settings' = Append(settings, 0)
      BY <1>1, <1>2, StoresAre
    <3>2. x = Len(settings) + 1 /\ Len(settings) \in Nat
      BY <1>3, <3>1
    <3> QED
      BY <3>2
  <2>10. TakenAt("sign in", h) /\ InsideAt("sign in", <<>>)
    BY <2>8, <2>9, PlacesAre
  <2>11. sessions[i].lock \in {Free, p}
    BY <2>2, <2>3
  <2> QED
    BY <1>6, <2>2, <2>3, <2>4, <2>6, <2>8, <2>10, <2>11, LockTurned
<1> QED
  BY <1>1, <1>4, <1>5, <1>6, NewSettingsMoves

\* Whoever could not read .env leaves the lock that it holds.
LEMMA LockEnvRaises ==
    ASSUME TypesInv, SingletonsAssumption, LockInv, NEW p \in Procs, EnvRaises(p)
    PROVE  LockInv'
<1>1. ThreadsInv /\ StoresInv
  BY DEF TypesInv
<1>2. Moves(p, "idle", <<>>, Empty)
  BY <1>1, EnvRaisesMoves
<1>3. /\ pc'[p] = "idle" /\ frames'[p] = <<>> /\ hold'[p] = Empty
      /\ \A q \in Procs : q # p => pc'[q] = pc[q] /\ frames'[q] = frames[q] /\ hold'[q] = hold[q]
  BY <1>1, <1>2, MovesAt
<1>4. /\ DOMAIN sessions' = DOMAIN sessions
      /\ \A i \in DOMAIN sessions :
            sessions'[i] = IF sessions[i].lock = p THEN PutLock(sessions[i], Free) ELSE sessions[i]
  BY <1>1, EnvRaisesMoves, Unlocked
<1>5. \A i \in DOMAIN sessions : sessions[i] \in SessionT
  <2>1. sessions \in Seq(SessionT)
    BY <1>1, StoresAre
  <2> QED
    BY <2>1
<1>6. \A r \in SessionT : /\ PutLock(r, Free).lock = Free /\ PutLock(r, Free).login = r.login
                          /\ PutLock(r, Free).logins = r.logins
  <2>1. Free \in Procs \cup {Free}
    OBVIOUS
  <2> QED
    BY <2>1, SessionSet
<1>7. /\ \A i \in DOMAIN sessions : OneTime(sessions[i])
      /\ \A i \in DOMAIN sessions : HolderIs(i)
      /\ \A v \in Workers : InsiderIs(v)
      /\ \A v \in Workers : TakenAt(pc[v], hold[v])
  BY LockIs
<1>8. ASSUME NEW i \in DOMAIN sessions'
      PROVE  OneTime(sessions'[i]) /\ HolderIs(i)'
  <2>1. i \in DOMAIN sessions /\ sessions[i] \in SessionT /\ OneTime(sessions[i]) /\ HolderIs(i)
    BY <1>4, <1>5, <1>7
  <2>2. CASE sessions[i].lock = p
    <3>1. sessions'[i] = PutLock(sessions[i], Free)
      BY <1>4, <2>1, <2>2
    <3>2. sessions'[i].lock = Free /\ sessions'[i].login = sessions[i].login /\ sessions'[i].logins = sessions[i].logins
      BY <1>6, <2>1, <3>1
    <3> QED
      BY <2>1, <3>2 DEF OneTime, HolderIs
  <2>3. CASE sessions[i].lock # p
    <3>1. sessions'[i] = sessions[i]
      BY <1>4, <2>1, <2>3
    <3>2. OneTime(sessions'[i])
      BY <2>1, <3>1
    <3>3. HolderIs(i)'
      BY <1>3, <2>1, <2>3, <3>1 DEF HolderIs, Procs
    <3> QED
      BY <3>2, <3>3
  <2> QED
    BY <2>2, <2>3
<1>9. ASSUME NEW v \in Workers
      PROVE  InsiderIs(v)' /\ TakenAt(pc'[v], hold'[v])
  <2>1. CASE v = p
    <3>1. ~ InsideAt(pc'[v], frames'[v]) /\ TakenAt(pc'[v], hold'[v])
      BY <1>3, <2>1, PlacesAre
    <3> QED
      BY <3>1 DEF InsiderIs
  <2>2. CASE v # p
    <3>1. pc'[v] = pc[v] /\ frames'[v] = frames[v] /\ hold'[v] = hold[v]
      BY <1>3, <2>2 DEF Procs
    <3>2. TakenAt(pc'[v], hold'[v])
      BY <1>7, <3>1
    <3>3. ASSUME InsideAt(pc[v], frames[v])
          PROVE  /\ hold[v].session # 0 /\ sessions'[hold[v].session].lock = v
                 /\ sessions'[hold[v].session].login = 0
      <4>1. /\ hold[v].session # 0 /\ hold[v].session \in DOMAIN sessions
            /\ sessions[hold[v].session].lock = v /\ sessions[hold[v].session].login = 0
        BY <3>3, InsiderHas
      <4>2. sessions'[hold[v].session] = sessions[hold[v].session]
        BY <1>4, <2>2, <4>1
      <4> QED
        BY <4>1, <4>2
    <3> QED
      BY <3>1, <3>2, <3>3 DEF InsiderIs
  <2> QED
    BY <2>1, <2>2
<1> QED
  BY <1>8, <1>9, LockIsNext

\* There is no session at the start.
LEMMA LockInit ==
    ASSUME SingletonsInit
    PROVE  LockInv
<1>1. sessions = <<>> /\ pc = [p \in Procs |-> "idle"]
  BY DEF SingletonsInit
<1>2. DOMAIN sessions = {}
  BY <1>1, NoPartsYet
<1>3. \A w \in Workers : pc[w] = "idle"
  BY <1>1 DEF Procs
<1> QED
  BY <1>2, <1>3 DEF LockInv, Inside

\* Every step keeps the lock's invariant.
LEMMA LockStep ==
    ASSUME TypesInv, SingletonsAssumption, LockInv, [SingletonsNext]_vars
    PROVE  LockInv'
<1>1. ASSUME NEW w \in Workers, Work(w)
      PROVE  LockInv'
  <2>1. \/ Request(w) \/ Ask(w) \/ AskPart(w) \/ Store(w) \/ BrokerRaises(w) \/ CacheSession(w) \/ LoggedIn(w)
        \/ BeginCall(w) \/ ResetSpend(w) \/ Answered(w) \/ CallFails(w) \/ Charge(w)
        \/ TakeSession(w) \/ LockLogin(w) \/ SignIn(w) \/ LoginFails(w)
    BY <1>1 DEF Work
  <2> QED
    BY <2>1, LockQuietWork, LockTakeSession, LockLockLogin, LockSignIn, LockLoginFails
<1>2. ASSUME NEW p \in Procs, NewSettings(p) \/ EnvRaises(p)
      PROVE  LockInv'
  BY <1>2, LockNewSettings, LockEnvRaises
<1>3. CASE UNCHANGED vars
  <2>1. sessions' = sessions /\ pc' = pc /\ frames' = frames /\ hold' = hold
    BY <1>3 DEF vars, threads
  <2> QED
    BY <2>1 DEF LockInv, Inside
<1>4. SingletonsNext => \/ \E w \in Workers : Work(w)
                        \/ \E a \in Admins : Administer(a)
                        \/ \E p \in Procs : NewSettings(p) \/ EnvRaises(p)
                        \/ UNCHANGED vars
  BY DEF SingletonsNext, Rest
<1> QED
  BY <1>1, <1>2, <1>3, <1>4, LockAdministers

\* Types, and what holds of every session's lock: whoever is between taking it and
\* leaving it is its holder, and the session has no login until then.
THEOREM LockAlways == SingletonsSpec => [](TypesInv /\ LockInv)
<1>1. SingletonsInit => TypesInv /\ LockInv
  BY TypesInit, LockInit, SingletonsAssumption
<1>2. TypesInv /\ LockInv /\ [SingletonsNext]_vars => (TypesInv /\ LockInv)'
  BY TypesStep, LockStep, SingletonsAssumption
<1> QED
  BY <1>1, <1>2, PTL DEF SingletonsSpec

\* Threads that find a session without a login at the same time sign in once:
\* _ensure_logged_in looks again under its lock.
THEOREM LoggedInOnce == SingletonsSpec => []OneLogin
<1>1. LockInv => OneLogin
  BY DEF LockInv, OneLogin
<1> QED
  BY <1>1, LockAlways, PTL

\* The caches refer to objects that exist, a builder has at most one, and a session's
\* lock is held by the thread that signs in to it.
THEOREM SingletonsTypeCorrect == SingletonsSpec => []SingletonsTypeOK
<1>1. TypesInv /\ LockInv => SingletonsTypeOK
  <2> SUFFICES ASSUME TypesInv, LockInv PROVE SingletonsTypeOK
    OBVIOUS
  <2>1. StoresInv /\ ThreadsInv /\ CellsInv
    BY DEF TypesInv
  <2>2. current \in 0 .. Len(settings) /\ session \in 0 .. Len(sessions)
    BY <2>1, StoresAre
  <2>3. ASSUME NEW c \in Cached
        PROVE  Cardinality(cell[c]) <= 1
    <3>1. \A o, q \in cell[c] : o = q
      BY <2>1 DEF CellsInv
    <3>2. CASE cell[c] = {}
      BY <3>2, FS_EmptySet
    <3>3. CASE cell[c] # {}
      <4>1. PICK o : cell[c] = {o}
        BY <3>1, <3>3
      <4>2. Cardinality({o}) = 1
        BY FS_Singleton
      <4> QED
        BY <4>1, <4>2
    <3> QED
      BY <3>2, <3>3
  <2>4. ASSUME NEW c \in Cached, NEW o \in cell[c]
        PROVE  o.client \in 0 .. Len(clients) /\ o.seen[1] \in 0 .. Len(settings)
    <3>1. o \in Products /\ Filled(c, o, Len(clients), Len(settings)) /\ o.client <= Len(clients)
      BY <2>1, CellIs
    <3>2. o.client \in Nat /\ o.seen[1] \in Nat
      BY <3>1, PartsAreLeaves, MarkIs
    <3>3. o.seen[1] <= Len(settings)
      BY <3>1 DEF Filled
    <3>4. Len(clients) \in Nat /\ Len(settings) \in Nat
      BY <2>1, StoresAre
    <3> QED
      BY <3>1, <3>2, <3>3, <3>4
  <2>5. \A i \in DOMAIN sessions : sessions[i].lock # Free =>
          /\ pc[sessions[i].lock] \in {"read env", "sign in"}
          /\ hold[sessions[i].lock].session = i
    BY DEF LockInv, Inside
  <2>6. \A w \in Workers : pc[w] = "build" => frames[w] # <<>>
    BY <2>1 DEF ThreadsInv, Procs
  <2> QED
    BY <2>2, <2>3, <2>4, <2>5, <2>6 DEF SingletonsTypeOK
<1> QED
  BY <1>1, LockAlways, PTL

----------------------------------------------------------------------------
(* The clients: who is in a call of one that is exact is alone in it.         *)

ClientInv ==
    \A c \in DOMAIN clients : clients[c].exact =>
        /\ \A v, w \in Workers : hold[v].client = c /\ pc[v] \in Calling
                                 /\ hold[w].client = c /\ pc[w] \in Calling => v = w
        /\ (\A w \in Workers : hold[w].client = c => pc[w] # "charge")
              => clients[c].spend = clients[c].bill
        /\ \A w \in Workers : hold[w].client = c /\ pc[w] = "charge" => hold[w].sum = clients[c].bill
        /\ \A w \in Workers : hold[w].client = c /\ pc[w] = "post" => clients[c].spend < Cap
        /\ clients[c].bill < Cap + MaxCost

Calls(w, c) == hold[w].client = c /\ pc[w] \in Calling
Posts(w, c) == hold[w].client = c /\ pc[w] = "post"
Charges(w, c) == hold[w].client = c /\ pc[w] = "charge"

ClientOK(c) ==
    clients[c].exact =>
        /\ \A v, w \in Workers : Calls(v, c) /\ Calls(w, c) => v = w
        /\ (\A w \in Workers : ~ Charges(w, c)) => clients[c].spend = clients[c].bill
        /\ \A w \in Workers : Charges(w, c) => hold[w].sum = clients[c].bill
        /\ \A w \in Workers : Posts(w, c) => clients[c].spend < Cap
        /\ clients[c].bill < Cap + MaxCost

\* The clients' invariant, client by client.
LEMMA ClientIs == ClientInv <=> \A c \in DOMAIN clients : ClientOK(c)
<1>1. ASSUME NEW c \in DOMAIN clients
      PROVE  ClientOK(c) <=>
               (clients[c].exact =>
        /\ \A v, w \in Workers : hold[v].client = c /\ pc[v] \in Calling
                                 /\ hold[w].client = c /\ pc[w] \in Calling => v = w
        /\ (\A w \in Workers : hold[w].client = c => pc[w] # "charge")
              => clients[c].spend = clients[c].bill
        /\ \A w \in Workers : hold[w].client = c /\ pc[w] = "charge" => hold[w].sum = clients[c].bill
        /\ \A w \in Workers : hold[w].client = c /\ pc[w] = "post" => clients[c].spend < Cap
        /\ clients[c].bill < Cap + MaxCost)
  BY Zenon DEF ClientOK, Calls, Posts, Charges
<1> QED
  BY <1>1, Zenon DEF ClientInv

\* The same after a step.
LEMMA ClientIsNext == ClientInv' <=> \A c \in DOMAIN clients' : ClientOK(c)'
<1>1. ASSUME NEW c \in DOMAIN clients'
      PROVE  ClientOK(c)' <=>
               (clients'[c].exact =>
        /\ \A v, w \in Workers : hold'[v].client = c /\ pc'[v] \in Calling
                                 /\ hold'[w].client = c /\ pc'[w] \in Calling => v = w
        /\ (\A w \in Workers : hold'[w].client = c => pc'[w] # "charge")
              => clients'[c].spend = clients'[c].bill
        /\ \A w \in Workers : hold'[w].client = c /\ pc'[w] = "charge" => hold'[w].sum = clients'[c].bill
        /\ \A w \in Workers : hold'[w].client = c /\ pc'[w] = "post" => clients'[c].spend < Cap
        /\ clients'[c].bill < Cap + MaxCost)
  BY Zenon DEF ClientOK, Calls, Posts, Charges
<1> QED
  BY <1>1, Zenon DEF ClientInv

\* Whoever posts or charges is in a call.
LEMMA CallsAre ==
    \A w, c : Posts(w, c) \/ Charges(w, c) => Calls(w, c)
  BY DEF Calls, Posts, Charges, Calling

\* The same after a step.
LEMMA CallsAreNext ==
    \A w, c : Posts(w, c)' \/ Charges(w, c)' => Calls(w, c)'
  BY DEF Calls, Posts, Charges, Calling

\* A client that the step of p has nothing to do with.
LEMMA OtherClient ==
    ASSUME TypesInv, NEW p \in Procs, NEW l, NEW fs, NEW h, Moves(p, l, fs, h),
           NEW c, ClientOK(c), clients'[c] = clients[c], p \in Workers => ~ Calls(p, c) /\ ~ Calls(p, c)'
    PROVE  ClientOK(c)'
<1>1. \A q \in Procs : q # p => pc'[q] = pc[q] /\ hold'[q] = hold[q]
  BY MovesAt DEF TypesInv
<1>2. \A w \in Workers : w # p => /\ Calls(w, c)' <=> Calls(w, c)
                                  /\ Posts(w, c)' <=> Posts(w, c)
                                  /\ Charges(w, c)' <=> Charges(w, c)
                                  /\ hold'[w] = hold[w]
  BY <1>1 DEF Procs, Calls, Posts, Charges
<1>3. \A w \in Workers : /\ Calls(w, c)' <=> Calls(w, c)
                         /\ Posts(w, c)' <=> Posts(w, c)
                         /\ Charges(w, c)' <=> Charges(w, c)
                         /\ Charges(w, c) => hold'[w] = hold[w]
  BY <1>2, CallsAre, CallsAreNext
<1> QED
  BY <1>3 DEF ClientOK

\* The client c of the only worker that calls it.
LEMMA SoleClient ==
    ASSUME NEW w \in Workers, NEW c, \A v \in Workers : v # w => ~ Calls(v, c)',
           clients'[c].exact => /\ IF Charges(w, c)' THEN hold'[w].sum = clients'[c].bill
                                   ELSE clients'[c].spend = clients'[c].bill
                                /\ Posts(w, c)' => clients'[c].spend < Cap
                                /\ clients'[c].bill < Cap + MaxCost
    PROVE  ClientOK(c)'
<1>1. \A v \in Workers : Calls(v, c)' \/ Posts(v, c)' \/ Charges(v, c)' => v = w
  BY CallsAreNext
<1> QED
  BY <1>1 DEF ClientOK

\* Another worker's call goes on.
LEMMA CallsKept ==
    ASSUME TypesInv, NEW w \in Workers, NEW l, NEW fs, NEW h, Moves(w, l, fs, h), NEW c, NEW v \in Workers, v # w
    PROVE  Calls(v, c)' <=> Calls(v, c)
<1>1. w \in Procs /\ v \in Procs
  BY DEF Procs
<1>2. pc'[v] = pc[v] /\ hold'[v] = hold[v]
  BY <1>1, MovesAt DEF TypesInv
<1> QED
  BY <1>2 DEF Calls

\* A step of a call, by w on its client.
LEMMA ClientStep ==
    ASSUME TypesInv, SingletonsAssumption, ClientInv, NEW w \in Workers, NEW l, NEW fs, NEW h, Moves(w, l, fs, h),
           NEW c, c = hold[w].client, NEW y, ClientTurns(c, y), h.client \in {0, c},
           c \in DOMAIN clients => ClientOK(c)'
    PROVE  ClientInv'
<1>1. c = hold[w].client
  OBVIOUS
<1>2. /\ DOMAIN clients' = DOMAIN clients
      /\ \A d \in DOMAIN clients : d # c => clients'[d] = clients[d]
  BY <1>1 DEF ClientTurns
<1>3. w \in Procs
  BY DEF Procs
<1>4. hold'[w] = h
  BY <1>3, MovesAt DEF TypesInv
<1>5. 0 \notin DOMAIN clients
  <2>1. DOMAIN clients = 1 .. Len(clients)
    BY StoresAre DEF TypesInv
  <2> QED
    BY <2>1
<1>6. ASSUME NEW d \in DOMAIN clients, d # c
      PROVE  ClientOK(d)'
  <2>1. ClientOK(d) /\ clients'[d] = clients[d]
    BY <1>2, <1>6, ClientIs
  <2>2. ~ Calls(w, d) /\ ~ Calls(w, d)'
    BY <1>1, <1>4, <1>5, <1>6 DEF Calls
  <2> QED
    BY <1>3, <2>1, <2>2, OtherClient
<1> QED
  BY <1>1, <1>2, <1>6, ClientIsNext

\* A step outside of the calls, that makes no client.
LEMMA ClientQuiet ==
    ASSUME TypesInv, ClientInv, clients' = clients, NEW p \in Procs, NEW l, NEW fs, NEW h, Moves(p, l, fs, h),
           p \in Workers => pc[p] \notin Calling /\ l \notin Calling
    PROVE  ClientInv'
<1>1. pc'[p] = l
  BY MovesAt DEF TypesInv
<1>2. ASSUME NEW c \in DOMAIN clients'
      PROVE  ClientOK(c)'
  <2>1. ClientOK(c) /\ clients'[c] = clients[c]
    BY <1>2, ClientIs
  <2>2. p \in Workers => ~ Calls(p, c) /\ ~ Calls(p, c)'
    BY <1>1 DEF Calls
  <2> QED
    BY <2>1, <2>2, OtherClient
<1> QED
  BY <1>2, ClientIsNext

\* The client of a call that overlaps no other.
LEMMA SoleIs ==
    ASSUME TypesInv, ClientInv, NEW w \in Workers, pc[w] \in Calling,
           NEW c \in DOMAIN clients, c = hold[w].client, clients[c].exact
    PROVE  /\ \A v \in Workers : v # w => ~ Calls(v, c)
           /\ pc[w] = "charge" => hold[w].sum = clients[c].bill
           /\ pc[w] # "charge" => clients[c].spend = clients[c].bill
           /\ pc[w] = "post" => clients[c].spend < Cap
           /\ clients[c].bill < Cap + MaxCost
<1>1. ClientOK(c)
  BY ClientIs
<1>2. Calls(w, c)
  BY DEF Calls
<1>3. \A v \in Workers : v # w => ~ Calls(v, c)
  BY <1>1, <1>2 DEF ClientOK
<1>4. (\A v \in Workers : ~ Charges(v, c)) => clients[c].spend = clients[c].bill
  BY <1>1 DEF ClientOK
<1>5. pc[w] # "charge" => \A v \in Workers : ~ Charges(v, c)
  BY <1>3, CallsAre DEF Charges
<1>6. pc[w] = "charge" => hold[w].sum = clients[c].bill
  BY <1>1 DEF ClientOK, Charges
<1>7. pc[w] = "post" => clients[c].spend < Cap
  BY <1>1 DEF ClientOK, Posts
<1>8. clients[c].bill < Cap + MaxCost
  BY <1>1 DEF ClientOK
<1> QED
  BY <1>3, <1>4, <1>5, <1>6, <1>7, <1>8

\* What the types say of a client.
LEMMA ClientHas ==
    ASSUME TypesInv, NEW c \in DOMAIN clients
    PROVE  clients[c] \in ClientT /\ c # 0
<1>1. clients \in Seq(ClientT) /\ DOMAIN clients = 1 .. Len(clients)
  BY StoresAre DEF TypesInv
<1> QED
  BY <1>1

\* What is assumed of the cap and of the costs.
LEMMA CapIs ==
    ASSUME SingletonsAssumption
    PROVE  Cap \in Nat /\ 0 < Cap /\ MaxCost \in Nat /\ \A x \in Costs : x \in Nat /\ x <= MaxCost
<1>1. \E m \in Costs : TRUE
  BY DEF SingletonsAssumption
<1>2. MaxCost \in Nat
  BY <1>1, MaxCostIs
<1>3. \A x \in Costs : x \in Nat /\ x <= MaxCost
  BY MaxCostIs
<1>4. Cap \in Nat /\ 0 < Cap
  BY DEF SingletonsAssumption
<1> QED
  BY <1>2, <1>3, <1>4

\* Where a worker's call comes to.
LEMMA CallComesTo ==
    ASSUME TypesInv, NEW w \in Workers, NEW l, NEW fs, NEW h, Moves(w, l, fs, h), NEW c
    PROVE  /\ hold'[w] = h
           /\ Calls(w, c)' <=> h.client = c /\ l \in Calling
           /\ Posts(w, c)' <=> h.client = c /\ l = "post"
           /\ Charges(w, c)' <=> h.client = c /\ l = "charge"
<1>1. w \in Procs
  BY DEF Procs
<1>2. pc'[w] = l /\ hold'[w] = h
  BY <1>1, MovesAt DEF TypesInv
<1> QED
  BY <1>2 DEF Calls, Posts, Charges

\* The sum that is charged is what was billed: nobody else wrote it.
LEMMA ClientCharge ==
    ASSUME TypesInv, SingletonsAssumption, ClientInv, NEW w \in Workers, Charge(w)
    PROVE  ClientInv'
<1>1. ThreadsInv /\ StoresInv
  BY DEF TypesInv
<1>2. PICK c, x : c = hold[w].client /\ x = hold[w].sum
  OBVIOUS
<1>3. /\ pc[w] = "charge" /\ Moves(w, "idle", <<>>, Empty)
      /\ clients' = [clients EXCEPT ![c].spend = x]
  BY <1>1, <1>2, ChargeMoves
<1>4. c \in DOMAIN clients => x \in Nat
  <2>1. pc[w] = "charge" /\ hold[w].client # 0 => hold[w].sum \in Nat
    BY <1>1 DEF ThreadsInv
  <2> QED
    BY <1>2, <1>3, <2>1, ClientHas
<1>5. PICK y : y = Spent(clients[c], x)
  OBVIOUS
<1>6. ClientTurns(c, y)
  BY <1>1, <1>3, <1>4, <1>5, SpendClients
<1>7. ASSUME c \in DOMAIN clients
      PROVE  ClientOK(c)'
  <2>1. clients'[c] = y
    BY <1>6, <1>7 DEF ClientTurns
  <2>2. clients[c] \in ClientT
    BY <1>7, ClientHas
  <2>3. y.spend = x /\ y.bill = clients[c].bill /\ y.exact = clients[c].exact
    <3>1. PICK r \in ClientT : r = clients[c]
      BY <2>2
    <3>2. Spent(r, x).spend = x /\ Spent(r, x).bill = r.bill /\ Spent(r, x).exact = r.exact
      BY <1>4, <1>7, ClientSet
    <3> QED
      BY <1>5, <3>1, <3>2
  <2>4. ~ Posts(w, c)' /\ ~ Charges(w, c)'
    BY <1>3, CallComesTo
  <2>5. ASSUME clients[c].exact
        PROVE  (\A v \in Workers : v # w => ~ Calls(v, c)) /\ x = clients[c].bill /\ clients[c].bill < Cap + MaxCost
    <3>1. pc[w] \in Calling
      BY <1>3 DEF Calling
    <3> QED
      BY <1>2, <1>3, <1>7, <2>5, <3>1, SoleIs
  <2>6. CASE clients[c].exact
    <3>1. \A v \in Workers : v # w => ~ Calls(v, c)'
      BY <1>3, <2>5, <2>6, CallsKept
    <3> QED
      BY <2>1, <2>3, <2>4, <2>5, <2>6, <3>1, SoleClient
  <2>7. CASE ~ clients[c].exact
    BY <2>1, <2>3, <2>7 DEF ClientOK
  <2> QED
    BY <2>6, <2>7
<1>8. Empty.client = 0
  BY EmptyHands
<1> QED
  BY <1>2, <1>3, <1>6, <1>7, <1>8, ClientStep

\* A call that fails leaves an exact client only if it was not billed.
LEMMA ClientCallFails ==
    ASSUME TypesInv, SingletonsAssumption, ClientInv, NEW w \in Workers, CallFails(w)
    PROVE  ClientInv'
<1>1. ThreadsInv /\ StoresInv
  BY DEF TypesInv
<1>2. PICK c : c = hold[w].client
  OBVIOUS
<1>3. pc[w] = "post" /\ Moves(w, "idle", <<>>, Empty)
  BY <1>1, CallFailsMoves
<1>4. PICK billed \in BOOLEAN : clients' = [clients EXCEPT ![c].exact = @ /\ ~ billed]
  BY <1>1, <1>2, CallFailsMoves
<1>5. PICK y, x : x = (~ billed) /\ y = Inexact(clients[c], x)
  OBVIOUS
<1>6. x \in BOOLEAN
  BY <1>5
<1>7. ClientTurns(c, y)
  BY <1>1, <1>4, <1>5, <1>6, BeginCallClients
<1>8. ASSUME c \in DOMAIN clients
      PROVE  ClientOK(c)'
  <2>1. clients'[c] = y
    BY <1>7, <1>8 DEF ClientTurns
  <2>2. clients[c] \in ClientT
    BY <1>8, ClientHas
  <2>3. y.spend = clients[c].spend /\ y.bill = clients[c].bill /\ (y.exact => clients[c].exact)
    <3>1. PICK r \in ClientT : r = clients[c]
      BY <2>2
    <3>2. Inexact(r, x).spend = r.spend /\ Inexact(r, x).bill = r.bill /\ (Inexact(r, x).exact <=> r.exact /\ x)
      BY <1>6, ClientSet
    <3> QED
      BY <1>5, <3>1, <3>2
  <2>4. ~ Posts(w, c)' /\ ~ Charges(w, c)'
    BY <1>3, CallComesTo
  <2>5. ASSUME clients[c].exact
        PROVE  /\ \A v \in Workers : v # w => ~ Calls(v, c)
               /\ clients[c].spend = clients[c].bill /\ clients[c].bill < Cap + MaxCost
    <3>1. pc[w] \in Calling /\ pc[w] # "charge"
      BY <1>3 DEF Calling
    <3> QED
      BY <1>2, <1>8, <2>5, <3>1, SoleIs
  <2>6. CASE clients[c].exact
    <3>1. \A v \in Workers : v # w => ~ Calls(v, c)'
      BY <1>3, <2>5, <2>6, CallsKept
    <3> QED
      BY <2>1, <2>3, <2>4, <2>5, <2>6, <3>1, SoleClient
  <2>7. CASE ~ clients[c].exact
    BY <2>1, <2>3, <2>7 DEF ClientOK
  <2> QED
    BY <2>6, <2>7
<1>9. Empty.client = 0
  BY EmptyHands
<1> QED
  BY <1>2, <1>3, <1>7, <1>8, <1>9, ClientStep

\* Where the look at the cap comes to.
LEMMA CapComesTo ==
    ASSUME NEW w \in Workers, NEW spend, CapMoves(w, spend), NEW c, c = hold[w].client
    PROVE  \E l, h : /\ Moves(w, l, <<>>, h) /\ h.client \in {0, c} /\ l # "charge"
                     /\ l = "post" => ~ (spend >= Cap)
<1>1. CASE Moves(w, "idle", <<>>, Empty)
  <2>1. Empty.client = 0
    BY EmptyHands
  <2> QED
    BY <1>1, <2>1
<1>2. CASE ~ (spend >= Cap) /\ Moves(w, "post", <<>>, hold[w])
  BY <1>2
<1> QED
  BY <1>1, <1>2 DEF CapMoves

\* A new day begins with nothing billed.
LEMMA ClientResetSpend ==
    ASSUME TypesInv, SingletonsAssumption, ClientInv, NEW w \in Workers, ResetSpend(w)
    PROVE  ClientInv'
<1>1. ThreadsInv /\ StoresInv
  BY DEF TypesInv
<1>2. PICK c : c = hold[w].client
  OBVIOUS
<1>3. /\ pc[w] = "new day" /\ CapMoves(w, 0)
      /\ clients' = [clients EXCEPT ![c] = [@ EXCEPT !.spend = 0, !.bill = 0]]
  BY <1>1, <1>2, ResetSpendMoves
<1>4. PICK l, h : /\ Moves(w, l, <<>>, h) /\ h.client \in {0, c} /\ l # "charge"
  BY <1>2, <1>3, CapComesTo
<1>5. PICK y : y = Renewed(clients[c])
  OBVIOUS
<1>6. ClientTurns(c, y)
  BY <1>1, <1>3, <1>5, ResetClients
<1>7. ASSUME c \in DOMAIN clients
      PROVE  ClientOK(c)'
  <2>1. clients'[c] = y
    BY <1>6, <1>7 DEF ClientTurns
  <2>2. clients[c] \in ClientT
    BY <1>7, ClientHas
  <2>3. y.spend = 0 /\ y.bill = 0 /\ y.exact = clients[c].exact
    <3>1. PICK r \in ClientT : r = clients[c]
      BY <2>2
    <3>2. Renewed(r).spend = 0 /\ Renewed(r).bill = 0 /\ Renewed(r).exact = r.exact
      BY ClientSet
    <3> QED
      BY <1>5, <3>1, <3>2
  <2>4. ~ Charges(w, c)'
    BY <1>4, CallComesTo
  <2>5. 0 < Cap /\ 0 < Cap + MaxCost
    BY CapIs
  <2>6. CASE clients[c].exact
    <3>1. pc[w] \in Calling
      BY <1>3 DEF Calling
    <3>2. \A v \in Workers : v # w => ~ Calls(v, c)
      BY <1>2, <1>7, <2>6, <3>1, SoleIs
    <3>3. \A v \in Workers : v # w => ~ Calls(v, c)'
      BY <1>4, <3>2, CallsKept
    <3> QED
      BY <2>1, <2>3, <2>4, <2>5, <3>3, SoleClient
  <2>7. CASE ~ clients[c].exact
    BY <2>1, <2>3, <2>7 DEF ClientOK
  <2> QED
    BY <2>6, <2>7
<1> QED
  BY <1>2, <1>4, <1>6, <1>7, ClientStep

\* One call more than what was under the cap is billed.
LEMMA ClientAnswered ==
    ASSUME TypesInv, SingletonsAssumption, ClientInv, NEW w \in Workers, Answered(w)
    PROVE  ClientInv'
<1>1. ThreadsInv /\ StoresInv
  BY DEF TypesInv
<1>2. PICK c, g : c = hold[w].client /\ g = hold[w]
  OBVIOUS
<1>3. pc[w] = "post"
  BY <1>1, AnsweredMoves
<1>4. PICK cost \in Costs : /\ clients' = [clients EXCEPT ![c].bill = @ + cost]
                            /\ Moves(w, "charge", <<>>, PutSum(g, clients[c].spend + cost))
  BY <1>1, <1>2, AnsweredMoves DEF PutSum
<1>5. PICK x, h : x = clients[c].spend + cost /\ h = PutSum(g, x)
  OBVIOUS
<1>6. Moves(w, "charge", <<>>, h)
  BY <1>4, <1>5
<1>7. h.client = c /\ h.sum = x
  <2>1. Hands(g, Len(sessions), Len(clients), Len(settings))
    BY <1>1, <1>2, WorkerIs
  <2>2. DOMAIN g = {"session", "client", "settings", "sum", "next"} /\ g.client = c
    BY <1>2, <2>1 DEF Hands
  <2> QED
    BY <1>5, <2>2 DEF PutSum
<1>8. cost \in Nat /\ cost <= MaxCost /\ Cap \in Nat /\ MaxCost \in Nat
  BY CapIs
<1>9. PICK y : y = Billed(clients[c], cost)
  OBVIOUS
<1>10. ClientTurns(c, y)
  BY <1>1, <1>4, <1>8, <1>9, BillClients
<1>11. ASSUME c \in DOMAIN clients
      PROVE  ClientOK(c)'
  <2>1. clients'[c] = y
    BY <1>10, <1>11 DEF ClientTurns
  <2>2. PICK r \in ClientT : r = clients[c]
    BY <1>11, ClientHas
  <2>3. y.spend = r.spend /\ y.bill = r.bill + cost /\ y.exact = r.exact /\ r.spend \in Nat /\ r.bill \in Nat
    BY <1>8, <1>9, <2>2, ClientSet
  <2>4. Charges(w, c)' /\ ~ Posts(w, c)' /\ hold'[w] = h
    BY <1>6, <1>7, CallComesTo
  <2>6. CASE r.exact
    <3>1. pc[w] \in Calling /\ pc[w] # "charge"
      BY <1>3 DEF Calling
    <3>2. /\ \A v \in Workers : v # w => ~ Calls(v, c)
          /\ r.spend = r.bill /\ r.spend < Cap
      BY <1>2, <1>3, <1>11, <2>2, <2>6, <3>1, SoleIs
    <3>3. \A v \in Workers : v # w => ~ Calls(v, c)'
      BY <1>6, <3>2, CallsKept
    <3>4. x = y.bill
      BY <1>5, <2>2, <2>3, <3>2
    <3>5. y.bill < Cap + MaxCost
      <4>1. r.bill < Cap
        BY <3>2
      <4> QED
        BY <1>8, <2>3, <4>1
    <3>6. hold'[w].sum = clients'[c].bill /\ clients'[c].bill < Cap + MaxCost
      BY <1>7, <2>1, <2>4, <3>4, <3>5
    <3> QED
      BY <2>4, <3>3, <3>6, SoleClient
  <2>7. CASE ~ r.exact
    BY <2>1, <2>3, <2>7 DEF ClientOK
  <2> QED
    BY <2>6, <2>7
<1> QED
  BY <1>2, <1>6, <1>7, <1>10, <1>11, ClientStep

\* A call that begins during another makes the client inexact.
LEMMA ClientBeginCall ==
    ASSUME TypesInv, SingletonsAssumption, ClientInv, NEW w \in Workers, BeginCall(w)
    PROVE  ClientInv'
<1>1. ThreadsInv /\ StoresInv
  BY DEF TypesInv
<1>2. PICK c : c = hold[w].client
  OBVIOUS
<1>3. PICK x : x = ~ Mate(w, c)
  OBVIOUS
<1>4. /\ pc[w] = "task"
      /\ CapMoves(w, clients[c].spend) \/ Moves(w, "new day", <<>>, hold[w])
      /\ clients' = [clients EXCEPT ![c].exact = @ /\ x] /\ x \in BOOLEAN
  BY <1>1, <1>2, <1>3, BeginCallMoves
<1>5. PICK l, h : /\ Moves(w, l, <<>>, h) /\ h.client \in {0, c} /\ l # "charge"
                  /\ l = "post" => ~ (clients[c].spend >= Cap)
  <2>1. CASE CapMoves(w, clients[c].spend)
    BY <1>2, <2>1, CapComesTo
  <2>2. CASE Moves(w, "new day", <<>>, hold[w])
    <3>1. PICK l, h : l = "new day" /\ h = hold[w]
      OBVIOUS
    <3>2. Moves(w, l, <<>>, h) /\ h.client \in {0, c} /\ l # "charge" /\ l # "post"
      BY <1>2, <2>2, <3>1
    <3> QED
      BY <3>2
  <2> QED
    BY <1>4, <2>1, <2>2
<1>6. PICK y : y = Inexact(clients[c], x)
  OBVIOUS
<1>7. ClientTurns(c, y)
  BY <1>1, <1>4, <1>6, BeginCallClients
<1>8. ASSUME c \in DOMAIN clients
      PROVE  ClientOK(c)'
  <2>1. clients'[c] = y
    BY <1>7, <1>8 DEF ClientTurns
  <2>2. PICK r \in ClientT : r = clients[c]
    BY <1>8, ClientHas
  <2>3. y.spend = r.spend /\ y.bill = r.bill /\ (y.exact <=> r.exact /\ x) /\ r.spend \in Nat
    BY <1>4, <1>6, <2>2, ClientSet
  <2>4. ~ Charges(w, c)'
    BY <1>5, CallComesTo
  <2>5. Posts(w, c)' => y.spend < Cap
    <3>1. Posts(w, c)' => l = "post"
      BY <1>5, CallComesTo
    <3>2. Posts(w, c)' => ~ (r.spend >= Cap)
      BY <1>5, <2>2, <3>1
    <3>3. Cap \in Nat
      BY CapIs
    <3> QED
      BY <2>3, <3>2, <3>3
  <2>6. CASE y.exact
    <3>1. \A v \in Workers : v # w => ~ Calls(v, c)
      BY <1>3, <2>3, <2>6 DEF Mate, Calls
    <3>2. ~ Calls(w, c)
      <4>1. pc[w] = "task"
        BY <1>4
      <4> QED
        BY <4>1 DEF Calls, Calling
    <3>3. ClientOK(c) /\ r.exact
      BY <1>8, <2>3, <2>6, ClientIs
    <3>4. r.spend = r.bill /\ r.bill < Cap + MaxCost
      <4>1. \A v \in Workers : ~ Charges(v, c)
        BY <3>1, <3>2, CallsAre
      <4> QED
        BY <2>2, <3>3, <4>1 DEF ClientOK
    <3>5. \A v \in Workers : v # w => ~ Calls(v, c)'
      BY <1>5, <3>1, CallsKept
    <3> QED
      BY <2>1, <2>3, <2>4, <2>5, <3>4, <3>5, SoleClient
  <2>7. CASE ~ y.exact
    BY <2>1, <2>7 DEF ClientOK
  <2> QED
    BY <2>6, <2>7
<1> QED
  BY <1>2, <1>5, <1>7, <1>8, ClientStep

\* A client that has just been made is in nobody's hands.
LEMMA ClientMade ==
    ASSUME TypesInv, SingletonsAssumption, ClientInv, NEW w \in Workers, NEW l, NEW fs, NEW h, Moves(w, l, fs, h),
           pc[w] \notin Calling, l \notin Calling, clients' = Append(clients, NewClient)
    PROVE  ClientInv'
<1>1. ThreadsInv /\ StoresInv
  BY DEF TypesInv
<1>2. clients \in Seq(ClientT) /\ Len(clients) \in Nat /\ DOMAIN clients = 1 .. Len(clients)
  BY <1>1, StoresAre
<1>3. PICK x : x = NewClient
  OBVIOUS
<1>4. x.spend = 0 /\ x.bill = 0 /\ x \in ClientT
  BY <1>3 DEF NewClient, ClientT
<1>5. PICK n : n = Len(clients) + 1
  OBVIOUS
<1>6. /\ clients'[n] = x /\ DOMAIN clients' = DOMAIN clients \cup {n}
      /\ \A i \in DOMAIN clients : clients'[i] = clients[i]
  <2>1. clients' = Append(clients, x)
    BY <1>3
  <2> QED
    BY <1>2, <1>4, <1>5, <2>1
<1>7. w \in Procs
  BY DEF Procs
<1>8. pc'[w] = l
  BY <1>1, <1>7, MovesAt
<1>9. ASSUME NEW c \in DOMAIN clients
      PROVE  ClientOK(c)'
  <2>1. ClientOK(c) /\ clients'[c] = clients[c]
    BY <1>6, <1>9, ClientIs
  <2>2. ~ Calls(w, c) /\ ~ Calls(w, c)'
    BY <1>8 DEF Calls
  <2> QED
    BY <1>7, <2>1, <2>2, OtherClient
<1>10. ClientOK(n)'
  <2>1. ASSUME NEW v \in Workers, v # w
        PROVE  ~ Calls(v, n)'
    <3>1. v \in Procs
      BY DEF Procs
    <3>2. Hands(hold[v], Len(sessions), Len(clients), Len(settings))
      BY <1>1, <3>1 DEF ThreadsInv
    <3>3. hold[v].client \in 0 .. Len(clients)
      BY <3>2 DEF Hands
    <3>4. hold[v].client # n
      BY <1>2, <1>5, <3>3
    <3>5. ~ Calls(v, n)
      BY <3>4 DEF Calls
    <3> QED
      BY <2>1, <3>5, CallsKept
  <2>2. ~ Calls(w, n)'
    BY <1>8 DEF Calls
  <2>3. ~ Posts(w, n)' /\ ~ Charges(w, n)'
    BY <2>2, CallsAreNext
  <2>4. clients'[n].spend = clients'[n].bill /\ clients'[n].bill < Cap + MaxCost
    <3>1. Cap \in Nat /\ 0 < Cap /\ MaxCost \in Nat
      BY CapIs
    <3>2. 0 < Cap + MaxCost
      BY <3>1
    <3> QED
      BY <1>4, <1>6, <3>2
  <2> QED
    BY <2>1, <2>3, <2>4, SoleClient
<1> QED
  BY <1>6, <1>9, <1>10, ClientIsNext

\* Builders keep the clients' invariant.
LEMMA ClientBuilds ==
    ASSUME TypesInv, SingletonsAssumption, ClientInv, NEW w \in Workers, Ask(w) \/ AskPart(w) \/ Store(w)
    PROVE  ClientInv'
<1>1. Builds(w) /\ pc[w] \in {"task", "build"}
  BY BuildSteps
<1>2. PICK l, fs, h : Moves(w, l, fs, h) /\ l \in {"idle", "task", "build", "read env"}
  BY <1>1 DEF Builds
<1>3. pc[w] \notin Calling /\ l \notin Calling
  BY <1>1, <1>2 DEF Calling
<1>4. w \in Procs
  BY DEF Procs
<1>5. clients' = clients \/ clients' = Append(clients, NewClient)
  <2>1. CASE Store(w)
    BY <2>1, StoreIs
  <2>2. CASE Ask(w) \/ AskPart(w)
    BY <2>2 DEF Ask, AskPart
  <2> QED
    BY <2>1, <2>2
<1>6. Moves(w, l, fs, h)
  BY <1>2
<1>7. CASE clients' = clients
  BY <1>3, <1>4, <1>6, <1>7, ClientQuiet
<1>8. CASE clients' = Append(clients, NewClient)
  BY <1>3, <1>6, <1>8, ClientMade
<1> QED
  BY <1>5, <1>7, <1>8

\* A step that has nothing to do with the client.
CallsNothing(p) ==
    /\ clients' = clients
    /\ \E l, fs, h : Moves(p, l, fs, h) /\ (p \in Workers => pc[p] \notin Calling /\ l \notin Calling)

\* A step outside of the calls keeps it.
LEMMA CallsNothingKeeps ==
    ASSUME TypesInv, ClientInv, NEW p \in Procs, CallsNothing(p)
    PROVE  ClientInv'
<1>1. PICK l, fs, h : Moves(p, l, fs, h) /\ (p \in Workers => pc[p] \notin Calling /\ l \notin Calling)
  BY DEF CallsNothing
<1> QED
  BY <1>1, ClientQuiet DEF CallsNothing

\* The steps of a login are outside of the calls.
LEMMA SessionCallsNothing ==
    ASSUME TypesInv, SingletonsAssumption, NEW w \in Workers,
           \/ Request(w) \/ BrokerRaises(w) \/ TakeSession(w) \/ CacheSession(w) \/ LoggedIn(w) \/ LockLogin(w)
           \/ SignIn(w) \/ LoginFails(w)
    PROVE  CallsNothing(w)
<1>1. ThreadsInv
  BY DEF TypesInv
<1>2. \A l \in {"idle", "task", "build", "read env", "cache session", "lock", "sign in"} : l \notin Calling
  BY DEF Calling
<1>3. CASE Request(w)
  BY <1>1, <1>2, <1>3, RequestMoves DEF CallsNothing
<1>4. CASE BrokerRaises(w)
  BY <1>1, <1>2, <1>4, BrokerRaisesMoves DEF CallsNothing
<1>5. CASE TakeSession(w)
  BY <1>1, <1>2, <1>5, TakeSessionMoves DEF CallsNothing
<1>6. CASE CacheSession(w)
  BY <1>1, <1>2, <1>6, CacheSessionMoves DEF CallsNothing
<1>7. CASE LoggedIn(w)
  BY <1>1, <1>2, <1>7, LoggedInMoves DEF CallsNothing
<1>8. CASE LockLogin(w)
  <2>1. pc[w] = "lock" /\ clients' = clients
    BY <1>1, <1>8, LockLoginMoves
  <2>2. \E l, h : Moves(w, l, <<>>, h) /\ l \in {"idle", "task", "sign in", "read env"}
    <3>1. CASE \E l \in {"idle", "task"} : Moves(w, l, <<>>, IF l = "idle" THEN Empty ELSE hold[w])
      BY <3>1
    <3>2. CASE \/ Moves(w, "sign in", <<>>, [hold[w] EXCEPT !.settings = current])
               \/ Moves(w, "read env", <<>>, hold[w])
      BY <3>2
    <3> QED
      BY <1>1, <1>8, <3>1, <3>2, LockLoginMoves
  <2> QED
    BY <1>2, <2>1, <2>2 DEF CallsNothing
<1>9. CASE SignIn(w)
  BY <1>1, <1>2, <1>9, SignInMoves DEF CallsNothing
<1>10. CASE LoginFails(w)
  BY <1>1, <1>2, <1>10, LoginFailsMoves DEF CallsNothing
<1> QED
  BY <1>3, <1>4, <1>5, <1>6, <1>7, <1>8, <1>9, <1>10

\* So are the steps of admins, and of whoever reads .env.
LEMMA OthersCallNothing ==
    ASSUME TypesInv, SingletonsAssumption, NEW p \in Procs,
           \/ NewSettings(p) \/ EnvRaises(p)
           \/ p \in Admins /\ (Patch(p) \/ Reload(p) \/ Reread(p) \/ SetFields(p) \/ ResetSession(p))
    PROVE  CallsNothing(p)
<1>1. ThreadsInv
  BY DEF TypesInv
<1>2. p \in Admins => p \notin Workers
  BY DEF SingletonsAssumption
<1>3. CASE NewSettings(p)
  <2>1. pc[p] = "read env" /\ clients' = clients
    BY <1>1, <1>3, NewSettingsMoves
  <2>2. \E l, fs, h : Moves(p, l, fs, h) /\ l \in {"build", "sign in", "set", "clear"}
    <3>1. CASE Moves(p, "build", SetTop(frames[p], <<Len(settings'), 0>>), hold[p])
      BY <3>1
    <3>2. CASE \E l \in {"sign in", "set", "clear"} : Moves(p, l, <<>>, [hold[p] EXCEPT !.settings = Len(settings')])
      BY <3>2
    <3> QED
      BY <1>1, <1>3, <3>1, <3>2, NewSettingsMoves
  <2>3. \A l \in {"build", "sign in", "set", "clear", "read env"} : l \notin Calling
    BY DEF Calling
  <2> QED
    BY <2>1, <2>2, <2>3 DEF CallsNothing
<1>4. CASE EnvRaises(p)
  <2>1. pc[p] = "read env" /\ clients' = clients /\ Moves(p, "idle", <<>>, Empty)
    BY <1>1, <1>4, EnvRaisesMoves
  <2>2. "read env" \notin Calling /\ "idle" \notin Calling
    BY DEF Calling
  <2> QED
    BY <2>1, <2>2 DEF CallsNothing
<1>5. CASE p \in Admins /\ (Patch(p) \/ Reread(p))
  <2>1. clients' = clients /\ \E l : AskMoves(p, l)
    BY <1>1, <1>5, PatchMoves, RereadMoves
  <2>2. \E l, h : Moves(p, l, <<>>, h)
    BY <2>1 DEF AskMoves
  <2> QED
    BY <1>2, <1>5, <2>1, <2>2 DEF CallsNothing
<1>6. CASE p \in Admins /\ (Reload(p) \/ SetFields(p) \/ ResetSession(p))
  <2>1. clients' = clients /\ \E l, h : Moves(p, l, <<>>, h)
    BY <1>1, <1>6, ReloadMoves, SetFieldsMoves, ResetSessionMoves
  <2> QED
    BY <1>2, <1>6, <2>1 DEF CallsNothing
<1> QED
  BY <1>3, <1>4, <1>5, <1>6

\* What the calls depend on stays as it is.
LEMMA ClientSame ==
    ASSUME ClientInv, clients' = clients, \A w \in Workers : pc'[w] = pc[w] /\ hold'[w] = hold[w]
    PROVE  ClientInv'
<1>1. ASSUME NEW c \in DOMAIN clients'
      PROVE  ClientOK(c)'
  <2>1. ClientOK(c) /\ clients'[c] = clients[c]
    BY <1>1, ClientIs
  <2>2. \A w \in Workers : /\ Calls(w, c)' <=> Calls(w, c)
                           /\ Posts(w, c)' <=> Posts(w, c)
                           /\ Charges(w, c)' <=> Charges(w, c)
                           /\ hold'[w] = hold[w]
    BY DEF Calls, Posts, Charges
  <2> QED
    BY <2>1, <2>2 DEF ClientOK
<1> QED
  BY <1>1, ClientIsNext

\* So is the clearing of a cache.
LEMMA ClientClear ==
    ASSUME TypesInv, SingletonsAssumption, ClientInv, NEW a \in Admins, ClearCell(a)
    PROVE  ClientInv'
<1>1. ThreadsInv
  BY DEF TypesInv
<1>2. pc' = pc /\ clients' = clients /\ hold' = [hold EXCEPT ![a] = PutNext(hold[a], hold[a].next + 1)]
  BY <1>1, ClearMoves
<1>3. \A w \in Workers : w \in Procs /\ w # a
  BY DEF Procs, SingletonsAssumption
<1>4. \A w \in Workers : hold'[w] = hold[w]
  BY <1>1, <1>2, <1>3 DEF ThreadsInv
<1> QED
  BY <1>2, <1>4, ClientSame

\* There is no client at the start.
LEMMA ClientInit ==
    ASSUME SingletonsInit
    PROVE  ClientInv
<1>1. clients = <<>>
  BY DEF SingletonsInit
<1>2. DOMAIN clients = {}
  BY <1>1, NoPartsYet
<1> QED
  BY <1>2 DEF ClientInv

\* Every step keeps the clients' invariant.
LEMMA ClientStepAll ==
    ASSUME TypesInv, SingletonsAssumption, ClientInv, [SingletonsNext]_vars
    PROVE  ClientInv'
<1>1. ASSUME NEW w \in Workers, Work(w)
      PROVE  ClientInv'
  <2>1. w \in Procs
    BY DEF Procs
  <2>2. CASE Ask(w) \/ AskPart(w) \/ Store(w)
    BY <2>2, ClientBuilds
  <2>3. CASE \/ Request(w) \/ BrokerRaises(w) \/ TakeSession(w) \/ CacheSession(w) \/ LoggedIn(w) \/ LockLogin(w)
             \/ SignIn(w) \/ LoginFails(w)
    BY <2>1, <2>3, SessionCallsNothing, CallsNothingKeeps
  <2>4. CASE BeginCall(w) \/ ResetSpend(w) \/ Answered(w) \/ CallFails(w) \/ Charge(w)
    BY <2>4, ClientBeginCall, ClientResetSpend, ClientAnswered, ClientCallFails, ClientCharge
  <2> QED
    BY <1>1, <2>2, <2>3, <2>4 DEF Work
<1>2. ASSUME NEW a \in Admins, Administer(a)
      PROVE  ClientInv'
  <2>1. a \in Procs
    BY DEF Procs
  <2>2. CASE ClearCell(a)
    BY <2>2, ClientClear
  <2>3. CASE Patch(a) \/ Reload(a) \/ Reread(a) \/ SetFields(a) \/ ResetSession(a)
    BY <2>1, <2>3, OthersCallNothing, CallsNothingKeeps
  <2> QED
    BY <1>2, <2>2, <2>3 DEF Administer
<1>3. ASSUME NEW p \in Procs, NewSettings(p) \/ EnvRaises(p)
      PROVE  ClientInv'
  BY <1>3, OthersCallNothing, CallsNothingKeeps
<1>4. CASE UNCHANGED vars
  <2>1. clients' = clients /\ pc' = pc /\ hold' = hold
    BY <1>4 DEF vars, threads
  <2> QED
    BY <2>1, ClientSame
<1>5. SingletonsNext => \/ \E w \in Workers : Work(w)
                        \/ \E a \in Admins : Administer(a)
                        \/ \E p \in Procs : NewSettings(p) \/ EnvRaises(p)
                        \/ UNCHANGED vars
  BY DEF SingletonsNext, Rest
<1> QED
  BY <1>1, <1>2, <1>3, <1>4, <1>5

\* A client whose calls never overlapped, and were billed only when answered, has spent
\* what it was billed, less than the cap and one call (LLMClient.chat_json).
THEOREM LoneClientKept == SingletonsSpec => []LoneClientKeepsCap
<1>1. SingletonsInit => TypesInv /\ ClientInv
  BY TypesInit, ClientInit, SingletonsAssumption
<1>2. TypesInv /\ ClientInv /\ [SingletonsNext]_vars => (TypesInv /\ ClientInv)'
  BY TypesStep, ClientStepAll, SingletonsAssumption
<1>3. ClientInv => LoneClientKeepsCap
  BY DEF ClientInv, LoneClientKeepsCap
<1> QED
  BY <1>1, <1>2, <1>3, PTL DEF SingletonsSpec

----------------------------------------------------------------------------
(* The caches: what is not up to date is late, or still to be cleared.        *)

\* A reload that has emptied the cache of get_settings and not filled it.
Rereading(a) == pc[a] = "reread" \/ (pc[a] = "read env" /\ plan[a] = <<"reload">>)

\* Builder c is still to be cleared by a.
Pending(a, c) ==
    \/ Rereading(a)
    \/ pc[a] = "clear" /\ \E k \in DOMAIN Order : Order[k] = c /\ hold[a].next <= k

Fresh(c, o) == o.late \/ UpToDate(c, o)

Good(c, x) == x.late \/ (UpToDate(c, x) /\ \A part \in DOMAIN x.parts : Fresh(part, x.parts[part]))

CurrentInv ==
    ~ halfway =>
       /\ current = 0 => \E a \in Admins : Rereading(a)
       /\ \A c \in Cached :
             \/ \E a \in Admins : Pending(a, c)
             \/ /\ \A o \in cell[c] : Good(c, o)
                /\ \A w \in Workers : \A k \in DOMAIN frames[w] :
                      frames[w][k].of = c => Good(c, frames[w][k])

\* x, of builder c, was made from the settings m, or is late; x and its parts were.
FreshAt(m, c, x) == x.late \/ (c \in ReadsSettings \ {"rag"} => x.seen = m)
GoodAt(m, c, x) ==
    x.late \/ /\ c \in ReadsSettings \ {"rag"} => x.seen = m
              /\ \A part \in DOMAIN x.parts : FreshAt(m, part, x.parts[part])

\* The builds of c in a stack.
StackFresh(m, c, s) == \A k \in DOMAIN s : s[k].of = c => GoodAt(m, c, s[k])

InForce == <<current, settings[current]>>

\* What is good is good for the settings in force.
LEMMA GoodIs ==
    \A c, x : Good(c, x) <=> GoodAt(InForce, c, x)
  BY Zenon DEF Good, GoodAt, FreshAt, Fresh, UpToDate, InForce

\* What is good as a whole is good as a part.
LEMMA GoodIsFresh ==
    \A m, c, x : GoodAt(m, c, x) => FreshAt(m, c, x)
  BY DEF GoodAt, FreshAt

\* The memory is never told to be out of date.
LEMMA RagIsFresh ==
    \A m, x : FreshAt(m, "rag", x)
  BY DEF FreshAt

\* Without a build nothing is out of date.
LEMMA NoStackFresh ==
    \A m, c : StackFresh(m, c, <<>>)
  BY NoPartsYet DEF StackFresh

\* A frame that gets a fresh part stays good.
LEMMA PlusGood ==
    ASSUME NEW x \in Frames, NEW c \in Cached, NEW o \in Leaf, NEW m, NEW d,
           GoodAt(m, d, x), FreshAt(m, c, o)
    PROVE  GoodAt(m, d, Plus(x, c, o))
<1>1. PICK y : y = Plus(x, c, o)
  OBVIOUS
<1>2. /\ y.seen = x.seen /\ y.late = x.late /\ DOMAIN y.parts = DOMAIN x.parts \cup {c} /\ y.parts[c] = o
      /\ \A part \in DOMAIN x.parts : part # c => y.parts[part] = x.parts[part]
  BY <1>1, PlusIs
<1>3. GoodAt(m, d, y)
  <2>1. CASE x.late
    BY <1>2, <2>1 DEF GoodAt
  <2>2. CASE ~ x.late
    <3>1. \A part \in DOMAIN x.parts : FreshAt(m, part, x.parts[part])
      BY <2>2 DEF GoodAt
    <3>2. \A part \in DOMAIN y.parts : FreshAt(m, part, y.parts[part])
      BY <1>2, <3>1
    <3>3. d \in ReadsSettings \ {"rag"} => y.seen = m
      BY <1>2, <2>2 DEF GoodAt
    <3> QED
      BY <3>2, <3>3 DEF GoodAt
  <2> QED
    BY <2>1, <2>2
<1> QED
  BY <1>1, <1>3

\* So does the stack whose builder gets it.
LEMMA StackGive ==
    ASSUME NEW s \in Seq(Frames), Len(s) = 1, NEW c \in Cached, NEW o \in Leaf, NEW m, NEW d,
           StackFresh(m, d, s), s[1].of = d => FreshAt(m, c, o)
    PROVE  StackFresh(m, d, PutAt(s, Len(s), Plus(s[Len(s)], c, o)))
<1>1. PICK x, y : x = s[1] /\ y = Plus(x, c, o)
  OBVIOUS
<1>2. DOMAIN s = {1} /\ x \in Frames
  BY <1>1, SingleIs
<1>3. y.of = x.of
  BY <1>1, <1>2, PlusIs
<1>4. PICK t : t = PutAt(s, 1, y)
  OBVIOUS
<1>5. DOMAIN t = {1} /\ t[1] = y
  BY <1>2, <1>4 DEF PutAt
<1>6. x.of = d => GoodAt(m, d, y)
  BY <1>1, <1>2, PlusGood DEF StackFresh
<1>7. StackFresh(m, d, t)
  BY <1>3, <1>5, <1>6 DEF StackFresh
<1> QED
  BY <1>1, <1>4, <1>7

\* So does a stack whose new frame is good.
LEMMA StackAppend ==
    ASSUME NEW s \in Seq(Frames), NEW f \in Frames, NEW m, NEW d,
           StackFresh(m, d, s), f.of = d => GoodAt(m, d, f)
    PROVE  StackFresh(m, d, Append(s, f))
<1>1. PICK t : t = Append(s, f)
  OBVIOUS
<1>2. /\ t[Len(s) + 1] = f /\ \A i \in DOMAIN s : t[i] = s[i]
      /\ DOMAIN t = DOMAIN s \cup {Len(s) + 1}
  BY <1>1, AppendIs
<1>3. StackFresh(m, d, t)
  BY <1>2 DEF StackFresh
<1> QED
  BY <1>1, <1>3

\* So does what is left of a stack.
LEMMA StackBelow ==
    ASSUME NEW s \in Seq(Frames), s # <<>>, NEW m, NEW k, FramesGood(s, AtBuild, m, k), NEW x, NEW d,
           StackFresh(x, d, s)
    PROVE  StackFresh(x, d, SubSeq(s, 1, Len(s) - 1))
<1>1. PICK t : t = SubSeq(s, 1, Len(s) - 1)
  OBVIOUS
<1>2. t \in Seq(Frames) /\ (t # <<>> => Len(t) = 1 /\ t[1] = s[1] /\ 1 \in DOMAIN s)
  BY <1>1, BelowIs
<1>3. CASE t = <<>>
  BY <1>1, <1>3, NoStackFresh
<1>4. CASE t # <<>>
  <2>1. DOMAIN t = {1} /\ t[1] = s[1] /\ 1 \in DOMAIN s
    BY <1>2, <1>4, SingleIs
  <2>2. StackFresh(x, d, t)
    BY <2>1 DEF StackFresh
  <2> QED
    BY <1>1, <2>2
<1> QED
  BY <1>3, <1>4

\* A build that had not read its settings yet.
LEMMA StackTop ==
    ASSUME NEW s \in Seq(Frames), s # <<>>, NEW x \in Marks, NEW m, NEW d, StackFresh(m, d, s),
           s[Len(s)].seen # m
    PROVE  StackFresh(m, d, SetTop(s, x))
<1>1. PICK t : t = SetTop(s, x)
  OBVIOUS
<1>2. /\ DOMAIN t = DOMAIN s /\ t[Len(s)] = SetSeen(s[Len(s)], x)
      /\ \A i \in DOMAIN s : i # Len(s) => t[i] = s[i]
  BY <1>1, SetTopIs
<1>3. Len(s) \in DOMAIN s /\ s[Len(s)] \in Frames
  BY SequenceIs
<1>4. PICK f, g : f = s[Len(s)] /\ g = t[Len(s)]
  OBVIOUS
<1>5. g.of = f.of /\ g.parts = f.parts /\ g.late = f.late
  BY <1>2, <1>3, <1>4, SetSeenIs
<1>6. f.of = d => GoodAt(m, d, g)
  <2>1. f.of = d => GoodAt(m, d, f)
    BY <1>3, <1>4 DEF StackFresh
  <2>2. f.seen # m
    BY <1>4
  <2> QED
    BY <1>5, <2>1, <2>2 DEF GoodAt
<1>7. ASSUME NEW i \in DOMAIN t, t[i].of = d
      PROVE  GoodAt(m, d, t[i])
  <2>1. CASE i = Len(s)
    BY <1>4, <1>5, <1>6, <1>7, <2>1
  <2>2. CASE i # Len(s)
    BY <1>2, <1>7, <2>2 DEF StackFresh
  <2> QED
    BY <2>1, <2>2
<1>8. StackFresh(m, d, t)
  BY <1>7 DEF StackFresh
<1> QED
  BY <1>1, <1>8

\* A cache of c is cleared.
LEMMA StackLate ==
    ASSUME NEW s \in Seq(Frames), NEW t, NEW c, DOMAIN t = DOMAIN s,
           \A i \in DOMAIN s : t[i] = MarkLate(s[i], c), NEW m, NEW d, StackFresh(m, d, s) \/ d = c
    PROVE  StackFresh(m, d, t)
<1>1. ASSUME NEW i \in DOMAIN t, t[i].of = d
      PROVE  GoodAt(m, d, t[i])
  <2>1. PICK f \in Frames : f = s[i]
    OBVIOUS
  <2>2. PICK g : g = t[i]
    OBVIOUS
  <2>3. g.of = f.of /\ g.seen = f.seen /\ g.parts = f.parts /\ (g.late <=> f.late \/ f.of = c)
    BY <2>1, <2>2, MarkedLate
  <2>4. CASE d = c
    BY <1>1, <2>2, <2>3, <2>4 DEF GoodAt
  <2>5. CASE StackFresh(m, d, s)
    <3>1. GoodAt(m, d, f)
      BY <1>1, <2>1, <2>2, <2>3, <2>5 DEF StackFresh
    <3>2. GoodAt(m, d, g)
      BY <2>3, <3>1 DEF GoodAt
    <3> QED
      BY <2>2, <3>2
  <2> QED
    BY <2>4, <2>5
<1> QED
  BY <1>1 DEF StackFresh

\* What a builder makes of a good frame is good: the lot size is read from the same settings.
LEMMA ObjectGood ==
    ASSUME NEW f \in Frames, Seen(f), f.seen[1] <= Len(settings), StoresInv, GoodAt(InForce, f.of, f)
    PROVE  GoodAt(InForce, f.of, Object(f))
<1>1. PICK o : o = Object(f)
  OBVIOUS
<1>2. o.parts = f.parts /\ o.late = f.late /\ (f.of # "orchestrator" => o.seen = f.seen)
  BY <1>1, ObjectIs
<1>3. f.of = "orchestrator" => o.seen = <<f.seen[1], settings[f.seen[1]]>>
  BY <1>1 DEF Object
<1>4. f.of = "orchestrator" /\ f.seen = InForce => o.seen = InForce
  <2>1. PICK k : k = current
    OBVIOUS
  <2>2. InForce = <<k, settings[k]>>
    BY <2>1 DEF InForce
  <2>3. <<k, settings[k]>>[1] = k
    OBVIOUS
  <2> QED
    BY <1>3, <2>2, <2>3
<1>5. f.seen = InForce => o.seen = InForce
  BY <1>2, <1>4
<1>6. GoodAt(InForce, f.of, o)
  BY <1>2, <1>5 DEF GoodAt
<1> QED
  BY <1>1, <1>6

\* What has been built of c is right, or is still to be cleared.
Right(c) ==
    /\ \A o \in cell[c] : GoodAt(InForce, c, o)
    /\ \A w \in Workers : StackFresh(InForce, c, frames[w])
Covered(c) == (\E a \in Admins : Pending(a, c)) \/ Right(c)

\* The invariant of the caches, builder by builder.
LEMMA CurrentIs ==
    CurrentInv <=> (~ halfway => /\ current = 0 => \E a \in Admins : Rereading(a)
                                 /\ \A c \in Cached : Covered(c))
<1>1. \A c \in Cached :
         Covered(c) <=>
             \/ \E a \in Admins : Pending(a, c)
             \/ /\ \A o \in cell[c] : Good(c, o)
                /\ \A w \in Workers : \A k \in DOMAIN frames[w] :
                      frames[w][k].of = c => Good(c, frames[w][k])
  <2> TAKE c \in Cached
  <2>1. (\A o \in cell[c] : Good(c, o)) <=> \A o \in cell[c] : GoodAt(InForce, c, o)
    BY GoodIs
  <2>2. \A w \in Workers : StackFresh(InForce, c, frames[w]) <=>
           \A k \in DOMAIN frames[w] : frames[w][k].of = c => Good(c, frames[w][k])
    BY GoodIs DEF StackFresh
  <2> QED
    BY <2>1, <2>2, Zenon DEF Covered, Right
<1> QED
  BY <1>1, Zenon DEF CurrentInv

\* The same after a step.
LEMMA CurrentIsNext ==
    CurrentInv' <=> (~ halfway' => /\ current' = 0 => \E a \in Admins : Rereading(a)'
                                   /\ \A c \in Cached : Covered(c)')
<1>1. \A c \in Cached :
         Covered(c)' <=>
             \/ \E a \in Admins : Pending(a, c)'
             \/ /\ \A o \in cell'[c] : Good(c, o)'
                /\ \A w \in Workers : \A k \in DOMAIN frames'[w] :
                      frames'[w][k].of = c => Good(c, frames[w][k])'
  <2> TAKE c \in Cached
  <2>a. \A x : Good(c, x)' <=> GoodAt(InForce', c, x)
    BY Zenon DEF Good, GoodAt, FreshAt, Fresh, UpToDate, InForce
  <2>1. (\A o \in cell'[c] : Good(c, o)') <=> \A o \in cell'[c] : GoodAt(InForce', c, o)
    BY <2>a
  <2>2. \A w \in Workers : StackFresh(InForce, c, frames[w])' <=>
           \A k \in DOMAIN frames'[w] : frames'[w][k].of = c => Good(c, frames[w][k])'
    BY <2>a DEF StackFresh
  <2> QED
    BY <2>1, <2>2, Zenon DEF Covered, Right
<1> QED
  BY <1>1, Zenon DEF CurrentInv

\* Whoever is to clear a part is to clear the whole.
LEMMA PendingWhole ==
    ASSUME SingletonsAssumption, ThreadsInv, NEW a \in Admins, NEW d \in Cached, NEW j \in DOMAIN Builders[d],
           NEW c, c = Builders[d][j], c # "rag", Pending(a, c)
    PROVE  Pending(a, d)
<1>1. CASE Rereading(a)
  BY <1>1 DEF Pending
<1>2. CASE pc[a] = "clear" /\ \E k \in DOMAIN Order : Order[k] = c /\ hold[a].next <= k
  <2>1. PICK i \in DOMAIN Order : Order[i] = c /\ hold[a].next <= i
    BY <1>2
  <2>2. i \in 1 .. 6 /\ d \in Names
    BY OrderShape, BuilderNames
  <2>3. PICK k \in 1 .. 6 : Order[k] = d
    BY <2>2, OrderShape
  <2>4. i < k
    BY <2>1, <2>2, <2>3, PartsFirst
  <2>5. PICK n : n = hold[a].next
    OBVIOUS
  <2>6. n \in Nat
    <3>1. n \in 1 .. Len(Order) + 1
      BY <2>5 DEF ThreadsInv
    <3>2. Len(Order) = 6
      BY OrderShape
    <3> QED
      BY <3>1, <3>2
  <2>7. n <= k
    <3>1. n <= i
      BY <2>1, <2>5
    <3> QED
      BY <2>2, <2>4, <2>6, <3>1
  <2>8. k \in DOMAIN Order
    BY OrderShape
  <2> QED
    BY <1>2, <2>3, <2>5, <2>7, <2>8 DEF Pending
<1> QED
  BY <1>1, <1>2 DEF Pending

\* The step of a worker, that leaves the settings as they are.
LEMMA CurrentWork ==
    ASSUME TypesInv, SingletonsAssumption, CurrentInv, UNCHANGED <<settings, current, halfway>>,
           NEW w \in Workers, NEW l, NEW fs, NEW h, Moves(w, l, fs, h),
           ~ halfway => \A c \in Cached :
              \/ \E a \in Admins : Pending(a, c)
              \/ (\A o \in cell'[c] : GoodAt(InForce, c, o)) /\ StackFresh(InForce, c, fs)
    PROVE  CurrentInv'
<1>1. w \in Procs /\ w \notin Admins /\ \A a \in Admins : a \in Procs
  BY DEF Procs, SingletonsAssumption
<1>2. /\ frames'[w] = fs
      /\ \A q \in Procs : q # w => pc'[q] = pc[q] /\ frames'[q] = frames[q] /\ hold'[q] = hold[q]
  BY <1>1, MovesAt DEF TypesInv
<1>3. \A q \in Procs : q # w => plan'[q] = plan[q]
  <2>1. plan' = [plan EXCEPT ![w] = plan'[w]] /\ plan = [p \in Procs |-> plan[p]]
    BY DEF Moves, TypesInv, ThreadsInv
  <2> QED
    BY <2>1
<1>4. \A a \in Admins : pc'[a] = pc[a] /\ plan'[a] = plan[a] /\ hold'[a] = hold[a]
  BY <1>1, <1>2, <1>3
<1>5. \A a \in Admins : (Rereading(a)' <=> Rereading(a)) /\ \A c : Pending(a, c)' <=> Pending(a, c)
  BY <1>4 DEF Rereading, Pending
<1>6. InForce' = InForce
  BY DEF InForce
<1>7. ASSUME ~ halfway, NEW c \in Cached
      PROVE  Covered(c)'
  <2>1. CASE \E a \in Admins : Pending(a, c)
    BY <1>5, <2>1 DEF Covered
  <2>2. CASE (~ \E a \in Admins : Pending(a, c))
    <3>1. (\A o \in cell'[c] : GoodAt(InForce, c, o)) /\ StackFresh(InForce, c, fs)
      BY <1>7, <2>2
    <3>2. \A v \in Workers : StackFresh(InForce, c, frames[v])
      BY <1>7, <2>2, CurrentIs DEF Covered, Right
    <3>3. \A v \in Workers : StackFresh(InForce, c, frames'[v])
      BY <1>2, <3>1, <3>2 DEF Procs
    <3>4. Right(c)'
      BY <1>6, <3>1, <3>3 DEF Right
    <3> QED
      BY <3>4 DEF Covered
  <2> QED
    BY <2>1, <2>2
<1>8. ~ halfway /\ current = 0 => \E a \in Admins : Rereading(a)'
  BY <1>5, CurrentIs
<1> QED
  BY <1>7, <1>8, CurrentIsNext

\* A worker that leaves its builders, if it was in any.
LEMMA CurrentLeaves ==
    ASSUME TypesInv, SingletonsAssumption, CurrentInv, UNCHANGED <<settings, current, cell, halfway>>,
           NEW w \in Workers, NEW l, NEW h, Moves(w, l, <<>>, h)
    PROVE  CurrentInv'
<1>1. ASSUME ~ halfway, NEW c \in Cached
      PROVE  \/ \E a \in Admins : Pending(a, c)
             \/ (\A o \in cell'[c] : GoodAt(InForce, c, o)) /\ StackFresh(InForce, c, <<>>)
  BY <1>1, CurrentIs, NoStackFresh DEF Covered, Right
<1> QED
  BY <1>1, CurrentWork

\* Builder c's object comes to whoever asked for it.
LEMMA CurrentGive ==
    ASSUME TypesInv, SingletonsAssumption, CurrentInv, UNCHANGED <<settings, current, halfway>>,
           NEW w \in Workers, NEW below \in Seq(Frames), NEW c \in Cached, NEW o \in Products, NEW m, NEW k,
           Give(w, below, c, o), Asks(below, c), Filled(c, o, m, k),
           ~ halfway => (\E a \in Admins : Pending(a, c)) \/ FreshAt(InForce, c, o),
           ~ halfway => \A d \in Cached :
              \/ \E a \in Admins : Pending(a, d)
              \/ (\A q \in cell'[d] : GoodAt(InForce, d, q)) /\ StackFresh(InForce, d, below)
    PROVE  CurrentInv'
<1>1. ThreadsInv
  BY DEF TypesInv
<1>2. w \in Procs /\ Shapes
  BY <1>1, WorkerIs
<1>3. CASE \E l \in {"idle", "task"} :
                    Moves(w, l, <<>>, IF l = "idle" THEN Empty ELSE With(w, c, o))
  <2>1. PICK l, h : Moves(w, l, <<>>, h)
    BY <1>3
  <2> QED
    BY <2>1, NoStackFresh, CurrentWork
<1>4. CASE /\ below # <<>>
           /\ Moves(w, "build", [below EXCEPT ![Len(below)] = Plus(below[Len(below)], c, o)], hold[w])
  <2>1. /\ Len(below) = 1 /\ c \in Base /\ below[1].of \notin Base
        /\ \E j \in DOMAIN Builders[below[1].of] : c = Builders[below[1].of][j]
    BY <1>4 DEF Asks
  <2>2. o \in Leaf
    BY <2>1, BaseIsLeaf
  <2>3. PICK t : t = PutAt(below, Len(below), Plus(below[Len(below)], c, o))
    OBVIOUS
  <2>4. PICK l, h : Moves(w, l, t, h)
    BY <1>4, <2>3 DEF PutAt
  <2>5. ASSUME ~ halfway, NEW d \in Cached, ~ \E a \in Admins : Pending(a, d)
        PROVE  (\A q \in cell'[d] : GoodAt(InForce, d, q)) /\ StackFresh(InForce, d, t)
    <3>1. (\A q \in cell'[d] : GoodAt(InForce, d, q)) /\ StackFresh(InForce, d, below)
      BY <2>5
    <3>2. below[1].of = d => FreshAt(InForce, c, o)
      <4>1. SUFFICES ASSUME below[1].of = d PROVE FreshAt(InForce, c, o)
        OBVIOUS
      <4>2. CASE c = "rag"
        BY <4>2, RagIsFresh
      <4>3. CASE c # "rag"
        <5>1. PICK j \in DOMAIN Builders[d] : c = Builders[d][j]
          BY <2>1, <4>1
        <5>2. ~ \E a \in Admins : Pending(a, c)
          BY <1>1, <2>5, <4>3, <5>1, PendingWhole
        <5> QED
          BY <2>5, <5>2
      <4> QED
        BY <4>2, <4>3
    <3>3. StackFresh(InForce, d, t)
      BY <2>1, <2>2, <2>3, <3>1, <3>2, StackGive
    <3> QED
      BY <3>1, <3>3
  <2> QED
    BY <2>4, <2>5, CurrentWork
<1> QED
  BY <1>2, <1>3, <1>4, GiveMoves

\* A build that begins with the settings in force is good.
LEMMA BegunGood ==
    ASSUME NEW c, NEW f, NEW l, Begun(c, f, l), current # 0
    PROVE  GoodAt(InForce, c, f)
<1>1. c \in ReadsSettings => f.seen = InForce
  BY DEF Begun, InForce
<1>2. DOMAIN f.parts = {}
  BY DEF Begun
<1> QED
  BY <1>1, <1>2 DEF GoodAt

\* A call of a builder takes what is right, or begins what is.
LEMMA CurrentCall ==
    ASSUME TypesInv, SingletonsAssumption, CurrentInv, NEW w \in Workers, CallsBuilder(w)
    PROVE  CurrentInv'
<1>1. PICK c \in Cached : /\ Call(w, c) /\ Asks(frames[w], c)
                          /\ FramesGood(frames[w], AtBuild, Len(clients), Len(settings))
  BY DEF CallsBuilder
<1>2. UNCHANGED <<settings, current, cell, halfway>>
  BY DEF CallsBuilder, caches, counts
<1>3. StoresInv /\ ThreadsInv /\ CellsInv
  BY DEF TypesInv
<1>4. w \in Procs /\ Shapes /\ frames[w] \in Seq(Frames) /\ settings \in Seq(Nat) /\ current \in 0 .. Len(settings)
  BY <1>3, WorkerIs, Types
<1>5. PICK s \in Seq(Frames) : s = frames[w]
  BY <1>4
<1>6. ASSUME ~ halfway, NEW d \in Cached
      PROVE  \/ \E a \in Admins : Pending(a, d)
             \/ (\A q \in cell'[d] : GoodAt(InForce, d, q)) /\ StackFresh(InForce, d, s)
  BY <1>2, <1>5, <1>6, CurrentIs DEF Covered, Right
<1>7. CASE \E object \in cell[c] : Give(w, frames[w], c, object)
  <2>1. PICK o \in cell[c] : Give(w, s, c, o)
    BY <1>5, <1>7
  <2>2. o \in Products /\ Filled(c, o, Len(clients), Len(settings))
    BY <1>3, CellIs
  <2>3. ~ halfway => (\E a \in Admins : Pending(a, c)) \/ FreshAt(InForce, c, o)
    BY CurrentIs, GoodIsFresh DEF Covered, Right
  <2>4. Asks(s, c)
    BY <1>1, <1>5
  <2> QED
    BY <1>2, <1>6, <2>1, <2>2, <2>3, <2>4, CurrentGive
<1>8. CASE \E l \in {"build", "read env"}, f \in Frames :
                    Begun(c, f, l) /\ Moves(w, l, Append(frames[w], f), hold[w])
  <2>1. PICK l, f : f \in Frames /\ Begun(c, f, l) /\ Moves(w, l, Append(s, f), hold[w])
    BY <1>5, <1>8
  <2>2. PICK t, h : t = Append(s, f) /\ h = hold[w]
    OBVIOUS
  <2>3. Moves(w, l, t, h)
    BY <2>1, <2>2
  <2>4. f.of = c
    BY <2>1 DEF Begun
  <2>5. ASSUME ~ halfway, NEW d \in Cached, ~ \E a \in Admins : Pending(a, d)
        PROVE  (\A q \in cell'[d] : GoodAt(InForce, d, q)) /\ StackFresh(InForce, d, t)
    <3>1. current # 0
      BY <2>5, CurrentIs DEF Pending
    <3>2. GoodAt(InForce, c, f)
      BY <2>1, <3>1, BegunGood
    <3>3. (\A q \in cell'[d] : GoodAt(InForce, d, q)) /\ StackFresh(InForce, d, s)
      BY <1>6, <2>5
    <3>4. StackFresh(InForce, d, t)
      BY <2>1, <2>2, <2>4, <3>2, <3>3, StackAppend
    <3> QED
      BY <3>3, <3>4
  <2> QED
    BY <1>2, <2>3, <2>5, CurrentWork
<1> QED
  BY <1>1, <1>4, <1>7, <1>8, CallMoves

\* What a builder puts into its cache is right, or still to be cleared.
LEMMA CurrentStore ==
    ASSUME TypesInv, SingletonsAssumption, CurrentInv, NEW w \in Workers, Store(w)
    PROVE  CurrentInv'
<1>1. StoresInv /\ ThreadsInv /\ CellsInv
  BY DEF TypesInv
<1>2. pc[w] = "build" /\ UNCHANGED <<settings, current, halfway>>
  BY StoreIs DEF counts
<1>3. PICK s, f : s = frames[w] /\ f = Top(w)
  OBVIOUS
<1>4. PICK c, o, below : c = f.of /\ o = Object(f) /\ below = SubSeq(s, 1, Len(s) - 1)
  OBVIOUS
<1>5. cell' = (IF cell[c] = {} THEN [cell EXCEPT ![c] = {o}] ELSE cell) /\ Give(w, below, c, o)
  BY <1>3, <1>4, StoreIs
<1>6. s \in Seq(Frames) /\ s # <<>> /\ f = s[Len(s)] /\ FramesGood(s, AtBuild, Len(clients), Len(settings))
  BY <1>2, <1>3, TopOf
<1>7. f \in Frames /\ Filled(c, f, Len(clients), Len(settings)) /\ Seen(f) /\ Len(s) \in DOMAIN s
  BY <1>4, <1>6, LastOf
<1>8. c \in Cached
  BY <1>4, <1>7, PartsAreLeaves
<1>9. f.seen[1] <= Len(settings)
  BY <1>7 DEF Filled
<1>10. o \in Products /\ o.parts = f.parts /\ o.seen[1] = f.seen[1]
  BY <1>1, <1>4, <1>7, <1>9, ObjectIs
<1>11. Filled(c, o, Len(clients), Len(settings))
  BY <1>7, <1>10 DEF Filled
<1>12. below \in Seq(Frames) /\ Asks(below, c)
  BY <1>4, <1>6, BelowIs
<1>13. ~ halfway => (\E a \in Admins : Pending(a, c)) \/ GoodAt(InForce, c, o)
  <2> SUFFICES ASSUME ~ halfway, ~ \E a \in Admins : Pending(a, c)
               PROVE  GoodAt(InForce, c, o)
    OBVIOUS
  <2>1. StackFresh(InForce, c, s)
    BY <1>3, <1>8, CurrentIs DEF Covered, Right
  <2>2. GoodAt(InForce, c, f)
    BY <1>4, <1>6, <1>7, <2>1 DEF StackFresh
  <2> QED
    BY <1>1, <1>4, <1>7, <1>9, <2>2, ObjectGood
<1>14. cell \in [Cached -> SUBSET Products]
  BY <1>1 DEF CellsInv
<1>15. ASSUME ~ halfway, NEW d \in Cached, ~ \E a \in Admins : Pending(a, d)
       PROVE  (\A q \in cell'[d] : GoodAt(InForce, d, q)) /\ StackFresh(InForce, d, below)
  <2>1. (\A q \in cell[d] : GoodAt(InForce, d, q)) /\ StackFresh(InForce, d, s)
    BY <1>3, <1>15, CurrentIs DEF Covered, Right
  <2>2. StackFresh(InForce, d, below)
    BY <1>4, <1>6, <2>1, StackBelow
  <2>3. cell'[d] = cell[d] \/ (d = c /\ cell'[d] = {o})
    BY <1>5, <1>14
  <2> QED
    BY <1>13, <1>15, <2>1, <2>2, <2>3
<1>16. ~ halfway => (\E a \in Admins : Pending(a, c)) \/ FreshAt(InForce, c, o)
  BY <1>13, GoodIsFresh
<1> QED
  BY <1>2, <1>5, <1>8, <1>10, <1>11, <1>12, <1>15, <1>16, CurrentGive

\* A worker that does not build, or has its builds behind it, has no frame.
LEMMA PlainMoves ==
    ASSUME ThreadsInv, SingletonsAssumption, NEW w \in Workers,
           \/ Request(w) \/ BrokerRaises(w) \/ TakeSession(w) \/ CacheSession(w) \/ LoggedIn(w) \/ LockLogin(w)
           \/ SignIn(w) \/ LoginFails(w)
           \/ BeginCall(w) \/ ResetSpend(w) \/ Answered(w) \/ CallFails(w) \/ Charge(w)
    PROVE  \E l, h : Moves(w, l, <<>>, h)
<1>1. CASE Request(w) \/ BrokerRaises(w) \/ TakeSession(w) \/ CacheSession(w) \/ LoggedIn(w)
  BY <1>1, RequestMoves, BrokerRaisesMoves, TakeSessionMoves, CacheSessionMoves, LoggedInMoves
<1>2. CASE LockLogin(w) \/ SignIn(w) \/ LoginFails(w)
  BY <1>2, LockLoginMoves, SignInMoves, LoginFailsMoves
<1>3. CASE BeginCall(w) \/ ResetSpend(w)
  <2>1. (\E spend : CapMoves(w, spend)) \/ Moves(w, "new day", <<>>, hold[w])
    BY <1>3, BeginCallMoves, ResetSpendMoves
  <2> QED
    BY <2>1 DEF CapMoves
<1>4. CASE Answered(w) \/ CallFails(w) \/ Charge(w)
  BY <1>4, AnsweredMoves, CallFailsMoves, ChargeMoves
<1> QED
  BY <1>1, <1>2, <1>3, <1>4

\* Every step of a worker keeps the invariant of the caches.
LEMMA CurrentWorks ==
    ASSUME TypesInv, SingletonsAssumption, CurrentInv, NEW w \in Workers, Work(w)
    PROVE  CurrentInv'
<1>1. ThreadsInv
  BY DEF TypesInv
<1>2. CASE Ask(w) \/ AskPart(w)
  BY <1>2, AskCalls, AskPartCalls, CurrentCall
<1>3. CASE Store(w)
  BY <1>3, CurrentStore
<1>4. CASE \/ Request(w) \/ BrokerRaises(w) \/ TakeSession(w) \/ CacheSession(w) \/ LoggedIn(w) \/ LockLogin(w)
           \/ SignIn(w) \/ LoginFails(w)
           \/ BeginCall(w) \/ ResetSpend(w) \/ Answered(w) \/ CallFails(w) \/ Charge(w)
  <2>1. UNCHANGED <<settings, current, cell, halfway>>
    BY <1>4 DEF Request, BrokerRaises, TakeSession, CacheSession, LoggedIn, LockLogin, SignIn, LoginFails,
                BeginCall, ResetSpend, Answered, CallFails, Charge, caches, counts
  <2>2. \E l, h : Moves(w, l, <<>>, h)
    BY <1>1, <1>4, PlainMoves
  <2> QED
    BY <2>1, <2>2, CurrentLeaves
<1> QED
  BY <1>2, <1>3, <1>4 DEF Work

\* The other threads, when p moves.
LEMMA OthersAt ==
    ASSUME ThreadsInv, NEW p \in Procs, NEW l, NEW fs, NEW h, Moves(p, l, fs, h)
    PROVE  /\ pc'[p] = l /\ frames'[p] = fs /\ hold'[p] = h
           /\ \A q \in Procs : q # p => /\ pc'[q] = pc[q] /\ frames'[q] = frames[q] /\ hold'[q] = hold[q]
                                        /\ plan'[q] = plan[q]
           /\ \A b \in Admins : b # p => /\ Rereading(b)' <=> Rereading(b)
                                         /\ \A c : Pending(b, c)' <=> Pending(b, c)
<1>1. \A q \in Procs : q # p => plan'[q] = plan[q]
  <2>1. plan' = [plan EXCEPT ![p] = plan'[p]] /\ plan = [q \in Procs |-> plan[q]]
    BY DEF Moves, ThreadsInv
  <2> QED
    BY <2>1
<1>2. /\ pc'[p] = l /\ frames'[p] = fs /\ hold'[p] = h
      /\ \A q \in Procs : q # p => pc'[q] = pc[q] /\ frames'[q] = frames[q] /\ hold'[q] = hold[q]
  BY MovesAt
<1>3. \A b \in Admins : b # p => pc'[b] = pc[b] /\ plan'[b] = plan[b] /\ hold'[b] = hold[b]
  BY <1>1, <1>2 DEF Procs
<1>4. \A b \in Admins : b # p => /\ Rereading(b)' <=> Rereading(b)
                                 /\ \A c : Pending(b, c)' <=> Pending(b, c)
  BY <1>3 DEF Rereading, Pending
<1> QED
  BY <1>1, <1>2, <1>4

\* An admin has every cache to clear.
LEMMA CurrentSwept ==
    ASSUME SingletonsAssumption, NEW a \in Admins, \A c \in Cached : Pending(a, c)',
           current' # 0 \/ \E b \in Admins : Rereading(b)'
    PROVE  CurrentInv'
  BY CurrentIsNext DEF Covered

\* Whoever has just begun to clear has every cache to clear.
LEMMA PendingAllNext ==
    ASSUME SingletonsAssumption, NEW a, Rereading(a)' \/ (pc'[a] = "clear" /\ hold'[a].next = 1), NEW c \in Cached
    PROVE  Pending(a, c)'
<1>1. CASE Rereading(a)'
  BY <1>1 DEF Pending
<1>2. CASE pc'[a] = "clear" /\ hold'[a].next = 1
  <2>1. PICK k \in 1 .. 6 : Order[k] = c
    BY BuilderNames, OrderShape
  <2>2. k \in DOMAIN Order /\ 1 <= k
    BY OrderShape
  <2> QED
    BY <1>2, <2>1, <2>2 DEF Pending
<1> QED
  BY <1>1, <1>2

\* The settings in force stay, and what an admin has to clear.
LEMMA CurrentMoved ==
    ASSUME TypesInv, SingletonsAssumption, CurrentInv, current' = current, InForce' = InForce, cell' = cell,
           ~ halfway' => ~ halfway, NEW p \in Procs, NEW l, NEW fs, NEW h, Moves(p, l, fs, h),
           p \in Admins => \/ halfway'
                           \/ /\ Rereading(p) => Rereading(p)' \/ current # 0
                              /\ \A c \in Cached : Pending(p, c) => Pending(p, c)',
           ~ halfway /\ p \in Workers => \A c \in Cached : StackFresh(InForce, c, frames[p]) => StackFresh(InForce, c, fs)
    PROVE  CurrentInv'
<1>1. /\ frames'[p] = fs
      /\ \A q \in Procs : q # p => frames'[q] = frames[q]
      /\ \A b \in Admins : b # p => /\ Rereading(b)' <=> Rereading(b)
                                    /\ \A c : Pending(b, c)' <=> Pending(b, c)
  BY OthersAt DEF TypesInv
<1>2. ASSUME ~ halfway', NEW c \in Cached
      PROVE  Covered(c)'
  <2>1. CASE \E a \in Admins : Pending(a, c)
    BY <1>1, <1>2, <2>1 DEF Covered
  <2>2. CASE ~ \E a \in Admins : Pending(a, c)
    <3>1. Right(c)
      BY <1>2, <2>2, CurrentIs DEF Covered
    <3>2. \A v \in Workers : StackFresh(InForce, c, frames'[v])
      BY <1>1, <1>2, <3>1 DEF Right, Procs
    <3>3. Right(c)'
      BY <3>1, <3>2 DEF Right
    <3> QED
      BY <3>3 DEF Covered
  <2> QED
    BY <2>1, <2>2
<1>3. ~ halfway' /\ current' = 0 => \E a \in Admins : Rereading(a)'
  BY <1>1, CurrentIs
<1> QED
  BY <1>2, <1>3, CurrentIsNext

\* A PATCH that begins changes nothing yet.
LEMMA CurrentPatch ==
    ASSUME TypesInv, SingletonsAssumption, CurrentInv, NEW a \in Admins, Patch(a)
    PROVE  CurrentInv'
<1>1. ThreadsInv
  BY DEF TypesInv
<1>2. pc[a] = "idle" /\ AskMoves(a, "set") /\ UNCHANGED <<settings, current, cell, halfway>>
  BY <1>1, PatchMoves DEF caches
<1>3. PICK l, h : Moves(a, l, <<>>, h)
  BY <1>2 DEF AskMoves
<1>4. ~ Rereading(a) /\ \A c : ~ Pending(a, c)
  BY <1>2 DEF Rereading, Pending
<1>5. InForce' = InForce
  BY <1>2 DEF InForce
<1>6. a \in Procs /\ a \notin Workers
  BY DEF Procs, SingletonsAssumption
<1> QED
  BY <1>2, <1>3, <1>4, <1>5, <1>6, CurrentMoved

\* A reload that begins has every cache to clear.
LEMMA CurrentReload ==
    ASSUME TypesInv, SingletonsAssumption, CurrentInv, NEW a \in Admins, Reload(a)
    PROVE  CurrentInv'
<1>1. ThreadsInv
  BY DEF TypesInv
<1>2. Moves(a, "reread", <<>>, hold[a])
  BY <1>1, ReloadMoves
<1>3. a \in Procs
  BY DEF Procs
<1>4. pc'[a] = "reread"
  <2>1. PICK g : g = hold[a]
    OBVIOUS
  <2> QED
    BY <1>1, <1>2, <1>3, <2>1, OthersAt
<1>5. Rereading(a)'
  BY <1>4 DEF Rereading
<1> QED
  BY <1>5, PendingAllNext, CurrentSwept

\* A PATCH that has changed the settings has every cache to clear.
LEMMA CurrentSetFields ==
    ASSUME TypesInv, SingletonsAssumption, CurrentInv, NEW a \in Admins, SetFields(a)
    PROVE  CurrentInv'
<1>1. ThreadsInv
  BY DEF TypesInv
<1>2. PICK g : g = hold[a]
  OBVIOUS
<1>3. pc[a] = "set" /\ Moves(a, "clear", <<>>, g) /\ UNCHANGED <<current, halfway>>
  BY <1>1, <1>2, SetFieldsMoves
<1>4. a \in Procs /\ g.next = 1
  BY <1>1, <1>2, <1>3, AdminIs
<1>5. pc'[a] = "clear" /\ hold'[a] = g
  BY <1>1, <1>3, <1>4, OthersAt
<1>6. ~ Rereading(a)
  BY <1>3 DEF Rereading
<1>7. ~ halfway /\ current = 0 => \E b \in Admins : Rereading(b)'
  BY <1>1, <1>3, <1>4, <1>6, CurrentIs, OthersAt
<1>8. \A c \in Cached : Pending(a, c)'
  BY <1>4, <1>5, PendingAllNext
<1> QED
  BY <1>3, <1>7, <1>8, CurrentIsNext DEF Covered

\* Whoever ends has no cache left to clear.
LEMMA CurrentResetSession ==
    ASSUME TypesInv, SingletonsAssumption, CurrentInv, NEW a \in Admins, ResetSession(a)
    PROVE  CurrentInv'
<1>1. ThreadsInv
  BY DEF TypesInv
<1>2. /\ pc[a] = "clear" /\ hold[a].next > Len(Order) /\ Moves(a, "idle", <<>>, Empty)
      /\ UNCHANGED <<settings, current, cell, halfway>>
  BY <1>1, ResetSessionMoves
<1>3. ~ Rereading(a)
  BY <1>2 DEF Rereading
<1>4. \A k \in DOMAIN Order : ~ hold[a].next <= k
  <2>1. PICK n : n = hold[a].next
    OBVIOUS
  <2>2. n \in 1 .. Len(Order) + 1 /\ n > Len(Order)
    BY <1>1, <1>2, <2>1 DEF ThreadsInv
  <2>3. Len(Order) = 6 /\ DOMAIN Order = 1 .. 6
    BY OrderShape
  <2>4. \A k \in 1 .. 6 : ~ n <= k
    BY <2>2, <2>3
  <2> QED
    BY <2>1, <2>3, <2>4
<1>5. \A c : ~ Pending(a, c)
  BY <1>3, <1>4 DEF Pending
<1>6. InForce' = InForce
  BY <1>2 DEF InForce
<1>7. a \in Procs /\ a \notin Workers
  BY DEF Procs, SingletonsAssumption
<1> QED
  BY <1>2, <1>3, <1>5, <1>6, <1>7, CurrentMoved

\* A reload that raises clears nothing more; the property says so.
LEMMA CurrentEnvRaises ==
    ASSUME TypesInv, SingletonsAssumption, CurrentInv, NEW p \in Procs, EnvRaises(p)
    PROVE  CurrentInv'
<1>1. ThreadsInv
  BY DEF TypesInv
<1>2. /\ pc[p] = "read env" /\ Moves(p, "idle", <<>>, Empty) /\ UNCHANGED <<settings, current, cell>>
      /\ halfway' = (halfway \/ plan[p] = <<"reload">>)
  BY <1>1, EnvRaisesMoves DEF caches
<1>3. ~ halfway' => ~ halfway /\ ~ Rereading(p)
  BY <1>2 DEF Rereading
<1>4. ~ halfway' => \A c : ~ Pending(p, c)
  BY <1>2, <1>3 DEF Pending
<1>5. InForce' = InForce
  BY <1>2 DEF InForce
<1> QED
  BY <1>2, <1>3, <1>4, <1>5, NoStackFresh, CurrentMoved

\* Only a reload reads the settings again.
RereadsInv == \A a \in Admins : pc[a] = "reread" => plan[a] = <<"reload">>

\* A step that leads to no second reading keeps it.
LEMMA RereadsMoved ==
    ASSUME ThreadsInv, RereadsInv, NEW p \in Procs, NEW l, NEW fs, NEW h, Moves(p, l, fs, h),
           p \in Admins => l # "reread" \/ plan'[p] = <<"reload">>
    PROVE  RereadsInv'
<1>1. pc'[p] = l /\ \A q \in Procs : q # p => pc'[q] = pc[q] /\ plan'[q] = plan[q]
  BY OthersAt
<1>2. ASSUME NEW a \in Admins, pc'[a] = "reread"
      PROVE  plan'[a] = <<"reload">>
  BY <1>1, <1>2 DEF RereadsInv, Procs
<1> QED
  BY <1>2 DEF RereadsInv

\* Every step of a worker moves that worker only.
LEMMA WorkMoves ==
    ASSUME TypesInv, SingletonsAssumption, NEW w \in Workers, Work(w)
    PROVE  \E l, fs, h : Moves(w, l, fs, h)
<1>1. CASE Ask(w) \/ AskPart(w) \/ Store(w)
  BY <1>1, BuildSteps DEF Builds
<1>2. CASE \/ Request(w) \/ BrokerRaises(w) \/ TakeSession(w) \/ CacheSession(w) \/ LoggedIn(w) \/ LockLogin(w)
           \/ SignIn(w) \/ LoginFails(w)
           \/ BeginCall(w) \/ ResetSpend(w) \/ Answered(w) \/ CallFails(w) \/ Charge(w)
  BY <1>2, PlainMoves DEF TypesInv
<1> QED
  BY <1>1, <1>2 DEF Work

\* Nor does an admin's question for the settings.
LEMMA RereadsAsks ==
    ASSUME ThreadsInv, RereadsInv, NEW a \in Procs, NEW l, l # "reread", AskMoves(a, l)
    PROVE  RereadsInv'
<1>1. CASE \E h : Moves(a, l, <<>>, h)
  BY <1>1, RereadsMoved
<1>2. CASE \E h : Moves(a, "read env", <<>>, h)
  <2>1. PICK m, h : m = "read env" /\ Moves(a, m, <<>>, h)
    BY <1>2
  <2>2. m # "reread"
    BY <2>1
  <2> QED
    BY <2>1, <2>2, RereadsMoved
<1> QED
  BY <1>1, <1>2 DEF AskMoves

\* Every step keeps it.
LEMMA RereadsStep ==
    ASSUME TypesInv, SingletonsAssumption, RereadsInv, [SingletonsNext]_vars
    PROVE  RereadsInv'
<1>1. ThreadsInv /\ \A w \in Workers : w \in Procs /\ w \notin Admins
  BY DEF TypesInv, Procs, SingletonsAssumption
<1>2. ASSUME NEW w \in Workers, Work(w)
      PROVE  RereadsInv'
  <2>1. PICK l, fs, h : Moves(w, l, fs, h)
    BY <1>2, WorkMoves
  <2> QED
    BY <1>1, <2>1, RereadsMoved
<1>3. ASSUME NEW a \in Admins, Administer(a)
      PROVE  RereadsInv'
  <2>1. a \in Procs
    BY DEF Procs
  <2>2. CASE Patch(a)
    BY <1>1, <2>1, <2>2, PatchMoves, RereadsAsks
  <2>3. CASE Reread(a)
    BY <1>1, <2>1, <2>3, RereadMoves, RereadsAsks
  <2>4. CASE Reload(a)
    <3>1. PICK h : Moves(a, "reread", <<>>, h) /\ plan'[a] = <<"reload">>
      BY <1>1, <2>4, ReloadMoves
    <3> QED
      BY <1>1, <2>1, <3>1, RereadsMoved
  <2>5. CASE SetFields(a) \/ ResetSession(a)
    <3>1. PICK l, h : Moves(a, l, <<>>, h) /\ l # "reread"
      BY <1>1, <2>5, SetFieldsMoves, ResetSessionMoves
    <3> QED
      BY <1>1, <2>1, <3>1, RereadsMoved
  <2>6. CASE ClearCell(a)
    <3>1. pc' = pc /\ plan' = plan
      BY <1>1, <2>6, ClearMoves
    <3> QED
      BY <3>1 DEF RereadsInv
  <2> QED
    BY <1>3, <2>2, <2>3, <2>4, <2>5, <2>6 DEF Administer
<1>4. ASSUME NEW p \in Procs, NewSettings(p) \/ EnvRaises(p)
      PROVE  RereadsInv'
  <2>1. PICK l, fs, h : Moves(p, l, fs, h) /\ l # "reread"
    <3>1. CASE NewSettings(p)
      <4>1. \/ \E fs, h : Moves(p, "build", fs, h)
            \/ \E l \in {"sign in", "set", "clear"} : \E h : Moves(p, l, <<>>, h)
        BY <1>1, <3>1, NewSettingsMoves
      <4>2. PICK l, fs, h : (l = "build" \/ l \in {"sign in", "set", "clear"}) /\ Moves(p, l, fs, h)
        BY <4>1, Zenon
      <4>3. l # "reread"
        BY <4>2
      <4> QED
        BY <4>2, <4>3
    <3>2. CASE EnvRaises(p)
      <4>1. Moves(p, "idle", <<>>, Empty)
        BY <1>1, <3>2, EnvRaisesMoves
      <4>2. PICK l : l = "idle" /\ Moves(p, l, <<>>, Empty)
        BY <4>1
      <4>3. l # "reread"
        BY <4>2
      <4> QED
        BY <4>2, <4>3
    <3> QED
      BY <1>4, <3>1, <3>2
  <2> QED
    BY <1>1, <2>1, RereadsMoved
<1>5. CASE UNCHANGED vars
  BY <1>5 DEF RereadsInv, vars, threads
<1>6. SingletonsNext => \/ \E w \in Workers : Work(w)
                        \/ \E a \in Admins : Administer(a)
                        \/ \E p \in Procs : NewSettings(p) \/ EnvRaises(p)
                        \/ UNCHANGED vars
  BY DEF SingletonsNext, Rest
<1> QED
  BY <1>2, <1>3, <1>4, <1>5, <1>6

\* A reload that has read the settings has every cache to clear.
LEMMA CurrentReread ==
    ASSUME TypesInv, SingletonsAssumption, CurrentInv, RereadsInv, NEW a \in Admins, Reread(a)
    PROVE  CurrentInv'
<1>1. ThreadsInv /\ StoresInv
  BY DEF TypesInv
<1>2. pc[a] = "reread" /\ AskMoves(a, "clear") /\ plan' = plan /\ UNCHANGED <<settings, current, halfway>>
  BY <1>1, RereadMoves DEF caches
<1>3. PICK g, x : g = hold[a] /\ x = current
  OBVIOUS
<1>4. a \in Procs /\ g.next = 1 /\ Hands(g, Len(sessions), Len(clients), Len(settings))
  BY <1>1, <1>2, <1>3, AdminIs
<1>5. plan'[a] = <<"reload">>
  BY <1>2 DEF RereadsInv
<1>6. CASE current = 0 /\ Moves(a, "read env", <<>>, g)
  <2>1. pc'[a] = "read env"
    BY <1>1, <1>4, <1>6, OthersAt
  <2>2. Rereading(a)'
    BY <1>5, <2>1 DEF Rereading
  <2> QED
    BY <2>2, PendingAllNext, CurrentSwept
<1>7. CASE current # 0 /\ Moves(a, "clear", <<>>, PutSettings(g, x))
  <2>1. PICK h : h = PutSettings(g, x)
    OBVIOUS
  <2>2. x \in 0 .. Len(settings) /\ Len(settings) \in Nat /\ Len(sessions) \in Nat /\ Len(clients) \in Nat
    BY <1>1, <1>3, StoresAre
  <2>3. h.next = 1
    BY <1>4, <2>1, <2>2, SetSettings
  <2>4. Moves(a, "clear", <<>>, h)
    BY <1>7, <2>1
  <2>5. pc'[a] = "clear" /\ hold'[a] = h
    BY <1>1, <1>4, <2>4, OthersAt
  <2>6. \A c \in Cached : Pending(a, c)'
    BY <2>3, <2>5, PendingAllNext
  <2> QED
    BY <1>2, <1>7, <2>6, CurrentSwept
<1>8. \/ current # 0 /\ Moves(a, "clear", <<>>, PutSettings(g, x))
      \/ current = 0 /\ Moves(a, "read env", <<>>, g)
  BY <1>2, <1>3 DEF AskMoves, PutSettings
<1> QED
  BY <1>6, <1>7, <1>8

\* A stack that is not empty has a last frame.
LEMMA LastIn ==
    \A s \in Seq(Frames) : s # <<>> => Len(s) \in DOMAIN s
  BY SequenceIs

\* A worker's build that has read .env, while other settings are in force.
LEMMA EnvStack ==
    ASSUME TypesInv, SingletonsAssumption, current # 0, NEW w \in Workers, pc[w] = "read env", frames[w] # <<>>,
           NEW x \in Marks, NEW c, StackFresh(InForce, c, frames[w])
    PROVE  StackFresh(InForce, c, SetTop(frames[w], x))
<1>1. ThreadsInv /\ FramesInv
  BY DEF TypesInv
<1>2. PICK s \in Seq(Frames) : s = frames[w]
  BY <1>1, WorkerIs
<1>3. FramesGood(s, AtEnv, Len(clients), Len(settings))
  BY <1>1, <1>2 DEF FramesInv, AtEnv
<1>4. Len(s) \in DOMAIN s
  BY <1>2, LastIn
<1>5. s[Len(s)].seen = <<0, 0>>
  BY <1>3, <1>4 DEF FramesGood, AtEnv
<1>6. <<0, 0>> # InForce
  <2>1. PICK k, v : k = current /\ v = settings[current]
    OBVIOUS
  <2>2. <<0, 0>> # <<k, v>>
    BY <2>1
  <2> QED
    BY <2>1, <2>2 DEF InForce
<1> QED
  BY <1>2, <1>5, <1>6, StackTop

\* One settings object more.
LEMMA SettingsMade ==
    ASSUME TypesInv, SingletonsAssumption, NEW p \in Procs, NewSettings(p)
    PROVE  /\ Len(settings) \in Nat /\ Len(settings') \in Nat /\ Len(settings') = Len(settings) + 1
           /\ Len(settings') # 0 /\ Len(settings) <= Len(settings') /\ <<Len(settings'), 0>> \in Marks
           /\ current' = (IF current = 0 THEN Len(settings') ELSE current)
           /\ current # 0 => settings'[current] = settings[current]
           /\ UNCHANGED <<cell, session, sessions, halfway>>
<1>1. ThreadsInv /\ StoresInv
  BY DEF TypesInv
<1>2. settings' = Append(settings, 0)
  BY <1>1, NewSettingsMoves
<1>3. /\ current' = (IF current = 0 THEN Len(settings') ELSE current)
      /\ UNCHANGED <<cell, session, sessions, halfway>>
  BY <1>1, NewSettingsMoves
<1>4. settings \in Seq(Nat) /\ Len(settings) \in Nat /\ current \in 0 .. Len(settings)
  BY <1>1, StoresAre
<1>5. /\ Len(settings') \in Nat /\ Len(settings') = Len(settings) + 1
      /\ Len(settings') # 0 /\ Len(settings) <= Len(settings')
  BY <1>2, <1>4
<1>6. <<Len(settings'), 0>> \in Marks
  BY <1>5 DEF Marks
<1>7. current # 0 => settings'[current] = settings[current]
  BY <1>2, <1>4
<1> QED
  BY <1>3, <1>4, <1>5, <1>6, <1>7

\* The admin that has read .env for a reload.
LEMMA ReloadRead ==
    ASSUME TypesInv, SingletonsAssumption, NEW a \in Admins, NewSettings(a), Rereading(a)
    PROVE  pc'[a] = "clear" /\ hold'[a].next = 1
<1>1. ThreadsInv /\ StoresInv
  BY DEF TypesInv
<1>2. PICK g, x : g = hold[a] /\ x = Len(settings')
  OBVIOUS
<1>3. pc[a] = "read env"
  BY <1>1, AdminIs, NewSettingsMoves
<1>4. a \in Procs /\ a \notin Workers /\ frames[a] = <<>> /\ g.next = 1
      /\ Hands(g, Len(sessions), Len(clients), Len(settings))
  BY <1>1, <1>2, <1>3, AdminIs
<1>5. plan[a] = <<"reload">>
  BY <1>3 DEF Rereading
<1>6. plan[a] # <<"patch">>
  BY <1>5
<1>7. Moves(a, "clear", <<>>, PutSettings(g, x))
  BY <1>1, <1>2, <1>4, <1>6, NewSettingsMoves DEF PutSettings
<1>8. PICK h : h = PutSettings(g, x)
  OBVIOUS
<1>9. h.next = 1
  <2>1. Len(settings) \in Nat /\ Len(sessions) \in Nat /\ Len(clients) \in Nat
    BY <1>1, StoresAre
  <2>2. x \in Nat /\ Len(settings) <= x
    BY <1>2, <1>4, SettingsMade
  <2>3. PICK n, m : n = Len(sessions) /\ m = Len(clients)
    OBVIOUS
  <2>4. Hands(g, n, m, x)
    BY <1>4, <2>1, <2>2, <2>3, HandsGrow
  <2>5. x \in 0 .. x /\ n \in Nat /\ m \in Nat
    BY <2>1, <2>2, <2>3
  <2>6. PutSettings(g, x).next = g.next
    BY <2>2, <2>4, <2>5, SetSettings
  <2> QED
    BY <1>4, <1>8, <2>6
<1>10. Moves(a, "clear", <<>>, h)
  BY <1>7, <1>8
<1>11. pc'[a] = "clear" /\ hold'[a] = h
  BY <1>1, <1>4, <1>10, OthersAt
<1> QED
  BY <1>9, <1>11

\* New settings come into force only for a reload, who clears all caches.
LEMMA CurrentNewSettings ==
    ASSUME TypesInv, SingletonsAssumption, CurrentInv, NEW p \in Procs, NewSettings(p)
    PROVE  CurrentInv'
<1>1. ThreadsInv /\ StoresInv
  BY DEF TypesInv
<1>2. /\ current' = (IF current = 0 THEN Len(settings') ELSE current)
      /\ UNCHANGED <<cell, halfway>> /\ Len(settings') # 0 /\ <<Len(settings'), 0>> \in Marks
      /\ current # 0 => settings'[current] = settings[current]
  BY SettingsMade
<1>3. pc[p] = "read env"
  BY <1>1, NewSettingsMoves
<1>5. PICK x \in Marks : x = <<Len(settings'), 0>>
  BY <1>2
<1>6. PICK g, l, fs, h : /\ Moves(p, l, fs, h) /\ g = hold[p]
                         /\ fs = <<>> \/ (frames[p] # <<>> /\ fs = SetTop(frames[p], x))
  <2>1. CASE frames[p] # <<>> /\ Moves(p, "build", SetTop(frames[p], <<Len(settings'), 0>>), hold[p])
    <3>1. PICK l, fs, h : l = "build" /\ fs = SetTop(frames[p], x) /\ h = hold[p]
      OBVIOUS
    <3>2. Moves(p, l, fs, h)
      BY <1>5, <2>1, <3>1
    <3> QED
      BY <2>1, <3>1, <3>2
  <2>2. CASE \E l, h : Moves(p, l, <<>>, h)
    BY <2>2
  <2> QED
    BY <1>1, <2>1, <2>2, NewSettingsMoves
<1>7. CASE halfway
  BY <1>2, <1>7, CurrentIsNext
<1>8. CASE ~ halfway /\ current = 0
  <2>1. PICK a \in Admins : Rereading(a)
    BY <1>8, CurrentIs
  <2>2. Rereading(a)' \/ (pc'[a] = "clear" /\ hold'[a].next = 1)
    <3>1. CASE a = p
      BY <3>1, <2>1, ReloadRead
    <3>2. CASE a # p
      BY <1>1, <1>6, <2>1, <3>2, OthersAt
    <3> QED
      BY <3>1, <3>2
  <2>3. \A c \in Cached : Pending(a, c)'
    BY <2>2, PendingAllNext
  <2>4. current' # 0
    BY <1>2, <1>8
  <2> QED
    BY <2>3, <2>4, CurrentSwept
<1>9. CASE ~ halfway /\ current # 0
  <2>1. current' = current
    BY <1>2, <1>9
  <2>2. InForce' = InForce
    <3>1. settings'[current] = settings[current]
      BY <1>2, <1>9
    <3> QED
      BY <2>1, <3>1 DEF InForce
  <2>3. ASSUME p \in Admins, NEW c \in Cached, Pending(p, c)
        PROVE  Pending(p, c)'
    <3>1. Rereading(p)
      BY <1>3, <2>3 DEF Pending
    <3> QED
      BY <2>3, <3>1, ReloadRead, PendingAllNext
  <2>4. ASSUME p \in Workers, NEW c \in Cached, StackFresh(InForce, c, frames[p])
        PROVE  StackFresh(InForce, c, fs)
    <3>1. CASE fs = <<>>
      BY <3>1, NoStackFresh
    <3>2. CASE frames[p] # <<>> /\ fs = SetTop(frames[p], x)
      BY <1>2, <1>3, <1>5, <1>9, <2>4, <3>2, EnvStack
    <3> QED
      BY <1>6, <3>1, <3>2
  <2> QED
    BY <1>2, <1>6, <1>9, <2>1, <2>2, <2>3, <2>4, CurrentMoved
<1> QED
  BY <1>7, <1>8, <1>9

\* What a clearing is still to clear.
LEMMA ClearedNext ==
    ASSUME TypesInv, SingletonsAssumption, NEW a \in Admins, ClearCell(a), NEW c, c # Order[hold[a].next], Pending(a, c)
    PROVE  Pending(a, c)'
<1>1. ThreadsInv
  BY DEF TypesInv
<1>2. pc[a] = "clear" /\ pc' = pc /\ plan' = plan /\ hold' = [hold EXCEPT ![a] = PutNext(hold[a], hold[a].next + 1)]
  BY <1>1, ClearMoves
<1>3. ~ Rereading(a)
  BY <1>2 DEF Rereading
<1>4. PICK g, n : g = hold[a] /\ n = hold[a].next
  OBVIOUS
<1>5. a \in Procs /\ Hands(g, Len(sessions), Len(clients), Len(settings)) /\ n \in 1 .. Len(Order) + 1
  BY <1>1, <1>4, AdminIs
<1>6. PICK k \in DOMAIN Order : Order[k] = c /\ n <= k
  BY <1>3, <1>4 DEF Pending
<1>7. hold'[a].next = n + 1
  <2>1. hold'[a] = PutNext(g, n + 1)
    BY <1>1, <1>2, <1>4, <1>5 DEF ThreadsInv
  <2>2. "next" \in DOMAIN g
    BY <1>5 DEF Hands
  <2>3. \A y : PutNext(g, y).next = y
    BY <2>2 DEF PutNext
  <2> QED
    BY <2>1, <2>3
<1>8. n + 1 <= k
  <2>1. n # k
    BY <1>4, <1>6
  <2>2. n \in Nat /\ k \in Nat
    BY <1>5, <1>6, OrderShape
  <2> QED
    BY <1>6, <2>1, <2>2
<1> QED
  BY <1>2, <1>6, <1>7, <1>8 DEF Pending

\* A cache that is cleared is right: its builds are late from then on.
LEMMA CurrentClear ==
    ASSUME TypesInv, SingletonsAssumption, CurrentInv, NEW a \in Admins, ClearCell(a)
    PROVE  CurrentInv'
<1>1. ThreadsInv
  BY DEF TypesInv
<1>2. PICK c : c = Order[hold[a].next]
  OBVIOUS
<1>3. /\ pc[a] = "clear" /\ pc' = pc /\ plan' = plan /\ UNCHANGED <<settings, current, halfway>>
      /\ hold' = [hold EXCEPT ![a] = PutNext(hold[a], hold[a].next + 1)]
      /\ cell' = [d \in Cached |-> IF d = c THEN {} ELSE cell[d]]
      /\ \A p \in Procs : /\ DOMAIN frames'[p] = DOMAIN frames[p]
                          /\ \A i \in DOMAIN frames[p] : frames'[p][i] = MarkLate(frames[p][i], c)
  BY <1>1, <1>2, ClearMoves
<1>4. \A b \in Admins : /\ Rereading(b)' <=> Rereading(b)
                        /\ b # a => \A d : Pending(b, d)' <=> Pending(b, d)
  <2>1. \A b \in Admins : b # a => hold'[b] = hold[b]
    BY <1>1, <1>3 DEF ThreadsInv, Procs
  <2> QED
    BY <1>3, <2>1 DEF Rereading, Pending
<1>5. InForce' = InForce
  BY <1>3 DEF InForce
<1>6. ASSUME ~ halfway, NEW d \in Cached
      PROVE  Covered(d)'
  <2>1. CASE d # c /\ \E b \in Admins : Pending(b, d)
    BY <1>2, <1>4, <2>1, ClearedNext DEF Covered
  <2>2. CASE d = c \/ ~ \E b \in Admins : Pending(b, d)
    <3>1. d = c \/ Right(d)
      BY <1>6, <2>2, CurrentIs DEF Covered
    <3>2. \A o \in cell'[d] : GoodAt(InForce, d, o)
      BY <1>3, <3>1 DEF Right
    <3>3. ASSUME NEW w \in Workers
          PROVE  StackFresh(InForce, d, frames'[w])
      <4>1. PICK s, t : s = frames[w] /\ t = frames'[w]
        OBVIOUS
      <4>2. w \in Procs /\ s \in Seq(Frames)
        BY <1>1, <4>1, WorkerIs
      <4>3. DOMAIN t = DOMAIN s /\ \A i \in DOMAIN s : t[i] = MarkLate(s[i], c)
        BY <1>3, <4>1, <4>2
      <4>4. StackFresh(InForce, d, s) \/ d = c
        BY <3>1, <4>1 DEF Right
      <4> QED
        BY <4>1, <4>2, <4>3, <4>4, StackLate
    <3>4. Right(d)'
      BY <1>5, <3>2, <3>3 DEF Right
    <3> QED
      BY <3>4 DEF Covered
  <2> QED
    BY <2>1, <2>2
<1>7. ~ halfway /\ current = 0 => \E b \in Admins : Rereading(b)'
  BY <1>4, CurrentIs
<1> QED
  BY <1>3, <1>6, <1>7, CurrentIsNext

\* At the start every cache is empty.
LEMMA CurrentInit ==
    ASSUME SingletonsAssumption, SingletonsInit
    PROVE  CurrentInv
<1>1. /\ current = 1 /\ cell = [c \in Cached |-> {}] /\ frames = [p \in Procs |-> <<>>]
  BY DEF SingletonsInit
<1>2. \A c \in Cached : Right(c)
  <2>1. \A w \in Workers : frames[w] = <<>>
    BY <1>1 DEF Procs
  <2> QED
    BY <1>1, <2>1, NoStackFresh DEF Right
<1> QED
  BY <1>1, <1>2, CurrentIs DEF Covered

\* A step that changes nothing keeps the invariant of the caches.
LEMMA CurrentStays ==
    ASSUME CurrentInv, UNCHANGED vars
    PROVE  CurrentInv'
<1>1. /\ settings' = settings /\ current' = current /\ cell' = cell /\ halfway' = halfway
      /\ pc' = pc /\ plan' = plan /\ frames' = frames /\ hold' = hold
  BY DEF vars, caches, counts, threads
<1>2. \A a \in Admins : (Rereading(a)' <=> Rereading(a)) /\ \A c : Pending(a, c)' <=> Pending(a, c)
  BY <1>1 DEF Rereading, Pending
<1>3. \A c \in Cached : Covered(c) => Covered(c)'
  BY <1>1, <1>2 DEF Covered, Right, InForce
<1> QED
  BY <1>1, <1>2, <1>3, CurrentIs, CurrentIsNext

\* Every step keeps the invariant of the caches.
LEMMA CurrentStep ==
    ASSUME TypesInv, SingletonsAssumption, RereadsInv, CurrentInv, [SingletonsNext]_vars
    PROVE  CurrentInv'
<1>1. ASSUME NEW w \in Workers, Work(w)
      PROVE  CurrentInv'
  BY <1>1, CurrentWorks
<1>2. ASSUME NEW a \in Admins, Administer(a)
      PROVE  CurrentInv'
  BY <1>2, CurrentPatch, CurrentReload, CurrentReread, CurrentSetFields, CurrentClear, CurrentResetSession
     DEF Administer
<1>3. ASSUME NEW p \in Procs, NewSettings(p) \/ EnvRaises(p)
      PROVE  CurrentInv'
  BY <1>3, CurrentNewSettings, CurrentEnvRaises
<1>4. CASE UNCHANGED vars
  BY <1>4, CurrentStays
<1>5. SingletonsNext => \/ \E w \in Workers : Work(w)
                        \/ \E a \in Admins : Administer(a)
                        \/ \E p \in Procs : NewSettings(p) \/ EnvRaises(p)
                        \/ UNCHANGED vars
  BY DEF SingletonsNext, Rest
<1> QED
  BY <1>1, <1>2, <1>3, <1>4, <1>5

----------------------------------------------------------------------------
(* The session: signed in with the settings in force, or not at all.          *)

Reloading(a) == Rereading(a) \/ (pc[a] = "clear" /\ plan[a] = <<"reload">>)

\* No reload is under way, and none has raised.
Settled == ~ halfway /\ \A a \in Admins : ~ Reloading(a)

\* w has made a session, and nobody else has it yet.
Alone(w) ==
    pc[w] = "cache session" =>
       /\ sessions[hold[w].session].login = 0 /\ session # hold[w].session
       /\ \A v \in Workers \ {w} : hold[v].session # hold[w].session

\* Whoever signs in to the cached session does so with the settings in force.
SignsIn(w) ==
    Inside(w) /\ hold[w].session = session => pc[w] = "sign in" /\ hold[w].settings = current

SessionInv ==
    /\ \A w \in Workers : Alone(w)
    /\ Settled /\ session # 0 =>
          sessions[session].login \in {0, current} /\ \A w \in Workers : SignsIn(w)

\* No step but the end of a reload settles.
LEMMA SettledKept ==
    ASSUME ThreadsInv, ~ halfway' => ~ halfway, NEW p \in Procs, NEW l, NEW fs, NEW h, Moves(p, l, fs, h),
           p \in Admins => (Reloading(p) => Reloading(p)' \/ halfway')
    PROVE  Settled' => Settled
<1>1. \A q \in Procs : q # p => pc'[q] = pc[q] /\ plan'[q] = plan[q]
  BY OthersAt
<1>2. \A b \in Admins : b # p => (Reloading(b)' <=> Reloading(b))
  BY <1>1 DEF Reloading, Rereading, Procs
<1> QED
  BY <1>2 DEF Settled

\* When no reload is under way, settings are in force.
LEMMA SettledIs ==
    ASSUME CurrentInv, Settled
    PROVE  current # 0
  BY CurrentIs DEF Settled, Reloading

\* The session that a worker has made, and the cached one.
LEMMA SessionsAt ==
    ASSUME TypesInv, SingletonsAssumption, LockInv
    PROVE  /\ session # 0 => session \in DOMAIN sessions
           /\ \A w \in Workers : pc[w] = "cache session" => hold[w].session # 0 /\ hold[w].session \in DOMAIN sessions
<1>1. StoresInv /\ ThreadsInv
  BY DEF TypesInv
<1>2. DOMAIN sessions = 1 .. Len(sessions) /\ Len(sessions) \in Nat /\ session \in 0 .. Len(sessions)
  BY <1>1, StoresAre
<1>3. ASSUME NEW w \in Workers, hold[w].session # 0
      PROVE  hold[w].session \in DOMAIN sessions
  <2>1. Hands(hold[w], Len(sessions), Len(clients), Len(settings))
    BY <1>1, WorkerIs
  <2>2. hold[w].session \in 0 .. Len(sessions)
    BY <2>1 DEF Hands
  <2> QED
    BY <1>2, <1>3, <2>2
<1>4. \A w \in Workers : pc[w] = "cache session" => hold[w].session # 0
  BY DEF LockInv
<1>5. session # 0 => session \in DOMAIN sessions
  BY <1>2
<1> QED
  BY <1>3, <1>4, <1>5

\* A step that keeps the session that is cached, and makes none.
LEMMA SessionMoved ==
    ASSUME TypesInv, SingletonsAssumption, LockInv, SessionInv, session' = session,
           NEW p \in Procs, NEW l, NEW fs, NEW h, Moves(p, l, fs, h),
           \A j \in DOMAIN sessions :
              \/ sessions'[j].login = sessions[j].login
              \/ p \in Workers /\ j = hold[p].session /\ (Settled /\ j = session => sessions'[j].login \in {0, current}),
           Settled' => Settled /\ current' = current,
           p \in Workers => /\ l # "cache session" /\ h.session \in {0, hold[p].session, session}
                            /\ Settled /\ InsideAt(l, fs) /\ h.session = session => l = "sign in" /\ h.settings = current
    PROVE  SessionInv'
<1>1. /\ pc'[p] = l /\ frames'[p] = fs /\ hold'[p] = h
      /\ \A q \in Procs : q # p => pc'[q] = pc[q] /\ frames'[q] = frames[q] /\ hold'[q] = hold[q]
  BY MovesAt DEF TypesInv
<1>2. \A w \in Workers : w \in Procs
  BY DEF Procs
<1>3. ASSUME NEW w \in Workers, pc'[w] = "cache session"
      PROVE  /\ sessions'[hold'[w].session].login = 0 /\ session' # hold'[w].session
             /\ \A v \in Workers \ {w} : hold'[v].session # hold'[w].session
  <2>1. w # p
    BY <1>1, <1>3
  <2>2. pc[w] = "cache session" /\ hold'[w] = hold[w]
    BY <1>1, <1>2, <1>3, <2>1
  <2>3. PICK i : i = hold[w].session
    OBVIOUS
  <2>4. i # 0 /\ i \in DOMAIN sessions
    BY <2>2, <2>3, SessionsAt
  <2>5. /\ sessions[i].login = 0 /\ session # i /\ \A v \in Workers \ {w} : hold[v].session # i
    BY <2>2, <2>3 DEF SessionInv, Alone
  <2>6. sessions'[i].login = 0
    BY <2>1, <2>4, <2>5
  <2>7. ASSUME NEW v \in Workers \ {w}
        PROVE  hold'[v].session # i
    <3>1. CASE v # p
      BY <1>1, <1>2, <2>5, <3>1
    <3>2. CASE v = p
      BY <1>1, <2>4, <2>5, <2>7, <3>2
    <3> QED
      BY <3>1, <3>2
  <2> QED
    BY <2>2, <2>3, <2>5, <2>6, <2>7
<1>4. ASSUME Settled', session # 0
      PROVE  sessions'[session].login \in {0, current} /\ \A w \in Workers : SignsIn(w)'
  <2>1. Settled /\ current' = current
    BY <1>4
  <2>2. sessions[session].login \in {0, current} /\ \A w \in Workers : SignsIn(w)
    BY <1>4, <2>1 DEF SessionInv
  <2>3. session \in DOMAIN sessions
    BY <1>4, SessionsAt
  <2>4. sessions'[session].login \in {0, current}
    BY <2>1, <2>2, <2>3
  <2>5. ASSUME NEW w \in Workers
        PROVE  SignsIn(w)'
    <3>1. CASE w # p
      <4>1. pc'[w] = pc[w] /\ frames'[w] = frames[w] /\ hold'[w] = hold[w]
        BY <1>1, <1>2, <3>1
      <4>2. SignsIn(w)
        BY <2>2
      <4> QED
        BY <2>1, <4>1, <4>2 DEF SignsIn, Inside
    <3>2. CASE w = p
      <4>1. InsideAt(l, fs) /\ h.session = session => l = "sign in" /\ h.settings = current
        BY <2>1, <3>2
      <4> QED
        BY <1>1, <2>1, <3>2, <4>1 DEF SignsIn, Inside, InsideAt
    <3> QED
      BY <3>1, <3>2
  <2> QED
    BY <2>4, <2>5
<1>5. \A w \in Workers : Alone(w)'
  BY <1>3 DEF Alone
<1>6. Settled' => current' = current
  OBVIOUS
<1> QED
  BY <1>4, <1>5, <1>6 DEF SessionInv

\* A worker neither reloads nor ends a reload.
LEMMA SettledWork ==
    ASSUME TypesInv, SingletonsAssumption, halfway' = halfway,
           NEW w \in Workers, NEW l, NEW fs, NEW h, Moves(w, l, fs, h)
    PROVE  Settled' => Settled
<1>1. ThreadsInv /\ w \in Procs /\ w \notin Admins
  BY DEF TypesInv, Procs, SingletonsAssumption
<1> QED
  BY <1>1, SettledKept

\* A step of a worker to a place outside of every lock.
LEMMA SessionPlain ==
    ASSUME TypesInv, SingletonsAssumption, LockInv, SessionInv, UNCHANGED <<current, session, sessions, halfway>>,
           NEW w \in Workers, NEW l, NEW fs, NEW h, Moves(w, l, fs, h), l # "cache session", ~ InsideAt(l, fs),
           h.session \in {0, hold[w].session, session}
    PROVE  SessionInv'
<1>1. w \in Procs
  BY DEF Procs
<1>2. Settled' => Settled /\ current' = current
  BY SettledWork
<1> QED
  BY <1>1, <1>2, SessionMoved

\* What is put into a worker's hands leaves the session that is in them.
LEMMA HandsKept ==
    ASSUME TypesInv, SingletonsAssumption, NEW p \in Procs, NEW g, g = hold[p], NEW x
    PROVE  /\ PutSum(g, x).session = g.session
           /\ PutSettings(g, x).session = g.session /\ PutSettings(g, x).settings = x
           /\ PutSession(g, x).session = x
<1>1. ThreadsInv
  BY DEF TypesInv
<1>2. Hands(g, Len(sessions), Len(clients), Len(settings))
  BY <1>1 DEF ThreadsInv
<1>3. {"session", "sum", "settings"} \subseteq DOMAIN g
  BY <1>2 DEF Hands
<1> QED
  BY <1>3 DEF PutSum, PutSettings, PutSession

\* A step that ends outside of builders keeps the session's invariant.
LEMMA SessionEnds ==
    ASSUME TypesInv, SingletonsAssumption, LockInv, SessionInv, UNCHANGED <<current, session, sessions, halfway>>,
           NEW w \in Workers, NEW l, l \in {"idle", "task", "post", "new day", "charge", "lock"},
           NEW h, Moves(w, l, <<>>, h), h = Empty \/ h.session = hold[w].session
    PROVE  SessionInv'
<1>1. ~ InsideAt(l, <<>>) /\ l # "cache session"
  BY DEF InsideAt
<1>2. h.session \in {0, hold[w].session, session}
  BY EmptyHands
<1> QED
  BY <1>1, <1>2, SessionPlain

\* So does the look at the cap.
LEMMA SessionCap ==
    ASSUME TypesInv, SingletonsAssumption, LockInv, SessionInv, UNCHANGED <<current, session, sessions, halfway>>,
           NEW w \in Workers, NEW spend, CapMoves(w, spend)
    PROVE  SessionInv'
<1>1. CASE Moves(w, "idle", <<>>, Empty)
  BY <1>1, SessionEnds
<1>2. CASE Moves(w, "post", <<>>, hold[w])
  <2>1. PICK g : g = hold[w]
    OBVIOUS
  <2> QED
    BY <1>2, <2>1, SessionEnds
<1> QED
  BY <1>1, <1>2 DEF CapMoves

\* So do the steps of builders.
LEMMA SessionBuilds ==
    ASSUME TypesInv, SingletonsAssumption, LockInv, SessionInv, NEW w \in Workers, Ask(w) \/ AskPart(w) \/ Store(w)
    PROVE  SessionInv'
<1>1. Builds(w) /\ UNCHANGED <<current, session, sessions, halfway>>
  BY BuildSteps
<1>2. PICK l, fs, h : /\ Moves(w, l, fs, h) /\ l \in {"idle", "task", "build", "read env"} /\ ~ InsideAt(l, fs)
                      /\ h = Empty \/ h.session = hold[w].session
  BY <1>1 DEF Builds
<1>3. l # "cache session"
  BY <1>2
<1>4. h.session \in {0, hold[w].session, session}
  BY <1>2, EmptyHands
<1> QED
  BY <1>1, <1>2, <1>3, <1>4, SessionPlain

\* So do the steps of calls, and the first look at the login.
LEMMA SessionCalls ==
    ASSUME TypesInv, SingletonsAssumption, LockInv, SessionInv, NEW w \in Workers,
           \/ Request(w) \/ BrokerRaises(w) \/ LoggedIn(w)
           \/ BeginCall(w) \/ ResetSpend(w) \/ Answered(w) \/ CallFails(w) \/ Charge(w)
    PROVE  SessionInv'
<1>1. ThreadsInv
  BY DEF TypesInv
<1>2. PICK g : g = hold[w]
  OBVIOUS
<1>3. UNCHANGED <<current, session, sessions, halfway>>
  BY DEF Request, BrokerRaises, LoggedIn, BeginCall, ResetSpend, Answered, CallFails, Charge, caches, counts
<1>4. CASE Request(w)
  BY <1>1, <1>2, <1>3, <1>4, RequestMoves, SessionEnds
<1>5. CASE BrokerRaises(w) \/ CallFails(w) \/ Charge(w)
  BY <1>1, <1>3, <1>5, BrokerRaisesMoves, CallFailsMoves, ChargeMoves, SessionEnds
<1>6. CASE LoggedIn(w)
  <2>1. CASE Moves(w, "lock", <<>>, g)
    BY <1>2, <1>3, <2>1, SessionEnds
  <2>2. CASE \E l \in {"idle", "task"} : Moves(w, l, <<>>, IF l = "idle" THEN Empty ELSE g)
    <3>1. PICK l \in {"idle", "task"} : Moves(w, l, <<>>, IF l = "idle" THEN Empty ELSE g)
      BY <2>2
    <3>2. PICK h : h = IF l = "idle" THEN Empty ELSE g
      OBVIOUS
    <3> QED
      BY <1>2, <1>3, <3>1, <3>2, SessionEnds
  <2> QED
    BY <1>1, <1>2, <1>6, <2>1, <2>2, LoggedInMoves
<1>7. CASE BeginCall(w) \/ ResetSpend(w)
  <2>1. (\E spend : CapMoves(w, spend)) \/ Moves(w, "new day", <<>>, g)
    BY <1>1, <1>2, <1>7, BeginCallMoves, ResetSpendMoves
  <2>2. CASE \E spend : CapMoves(w, spend)
    BY <1>3, <2>2, SessionCap
  <2>3. CASE Moves(w, "new day", <<>>, g)
    BY <1>2, <1>3, <2>3, SessionEnds
  <2> QED
    BY <2>1, <2>2, <2>3
<1>8. CASE Answered(w)
  <2>1. PICK x : Moves(w, "charge", <<>>, PutSum(g, x))
    BY <1>1, <1>2, <1>8, AnsweredMoves DEF PutSum
  <2>2. PICK h : h = PutSum(g, x)
    OBVIOUS
  <2>3. h.session = g.session
    BY <1>2, <2>2, HandsKept DEF Procs
  <2> QED
    BY <1>2, <1>3, <2>1, <2>2, <2>3, SessionEnds
<1> QED
  BY <1>4, <1>5, <1>6, <1>7, <1>8

\* A lock that is taken or left changes no login.
LEMMA LoginKept ==
    ASSUME TypesInv, NEW i, NEW x \in Procs \cup {Free}, sessions' = [sessions EXCEPT ![i].lock = x]
    PROVE  \A j \in DOMAIN sessions : sessions'[j].login = sessions[j].login
<1>1. StoresInv
  BY DEF TypesInv
<1>2. PICK y : y = PutLock(sessions[i], x)
  OBVIOUS
<1>3. SessionTurns(i, y)
  BY <1>1, <1>2, LockTurns
<1>4. i \in DOMAIN sessions => y.login = sessions[i].login
  <2>1. sessions \in Seq(SessionT)
    BY <1>1, StoresAre
  <2>2. i \in DOMAIN sessions => sessions[i] \in SessionT
    BY <2>1
  <2> QED
    BY <1>2, <2>2, SessionSet
<1> QED
  BY <1>3, <1>4 DEF SessionTurns

\* A session more, that no one else has.
LEMMA SessionMade ==
    ASSUME TypesInv, SingletonsAssumption, LockInv, SessionInv, session = 0, session' = 0,
           sessions' = Append(sessions, NewSession),
           NEW w \in Workers, NEW l, NEW fs, NEW h, Moves(w, l, fs, h), h.session = Len(sessions) + 1
    PROVE  SessionInv'
<1>1. StoresInv /\ ThreadsInv
  BY DEF TypesInv
<1>2. sessions \in Seq(SessionT) /\ Len(sessions) \in Nat /\ DOMAIN sessions = 1 .. Len(sessions)
  BY <1>1, StoresAre
<1>3. PICK n : n = Len(sessions) + 1
  OBVIOUS
<1>4. n # 0 /\ n \notin DOMAIN sessions /\ n \notin 0 .. Len(sessions)
  BY <1>2, <1>3
<1>5. NewSession \in SessionT /\ NewSession.login = 0
  BY NewSessionIs
<1>6. sessions'[n] = NewSession /\ \A i \in DOMAIN sessions : sessions'[i] = sessions[i]
  BY <1>2, <1>3, <1>5
<1>7. /\ pc'[w] = l /\ hold'[w] = h /\ h.session = n
      /\ \A q \in Procs : q # w => pc'[q] = pc[q] /\ hold'[q] = hold[q]
  BY <1>1, <1>3, MovesAt DEF Procs
<1>8. ASSUME NEW v \in Workers
      PROVE  v \in Procs /\ hold[v].session # n
  <2>1. v \in Procs /\ Hands(hold[v], Len(sessions), Len(clients), Len(settings))
    BY <1>1, WorkerIs
  <2>2. hold[v].session \in 0 .. Len(sessions)
    BY <2>1 DEF Hands
  <2> QED
    BY <1>4, <2>1, <2>2
<1>9. ASSUME NEW v \in Workers, pc'[v] = "cache session"
      PROVE  /\ sessions'[hold'[v].session].login = 0 /\ session' # hold'[v].session
             /\ \A u \in Workers \ {v} : hold'[u].session # hold'[v].session
  <2>1. CASE v = w
    <3>1. hold'[v].session = n
      BY <1>7, <2>1
    <3>2. \A u \in Workers \ {v} : hold'[u].session # n
      BY <1>7, <1>8, <2>1
    <3> QED
      BY <1>4, <1>5, <1>6, <3>1, <3>2
  <2>2. CASE v # w
    <3>1. pc[v] = "cache session" /\ hold'[v] = hold[v]
      BY <1>7, <1>8, <1>9, <2>2
    <3>2. PICK i : i = hold[v].session
      OBVIOUS
    <3>3. i # 0 /\ i \in DOMAIN sessions /\ i # n
      BY <1>4, <3>1, <3>2, SessionsAt
    <3>4. sessions[i].login = 0 /\ \A u \in Workers \ {v} : hold[u].session # i
      BY <3>1, <3>2 DEF SessionInv, Alone
    <3>5. \A u \in Workers \ {v} : hold'[u].session # i
      BY <1>7, <1>8, <3>3, <3>4
    <3> QED
      BY <1>6, <3>1, <3>2, <3>3, <3>4, <3>5
  <2> QED
    BY <2>1, <2>2
<1>10. \A v \in Workers : Alone(v)'
  BY <1>9 DEF Alone
<1> QED
  BY <1>10 DEF SessionInv

\* There is one session more.
LEMMA AppendedOne ==
    ASSUME StoresInv, sessions' = Append(sessions, NewSession)
    PROVE  Len(sessions') = Len(sessions) + 1
<1>1. sessions \in Seq(SessionT) /\ NewSession \in SessionT
  BY StoresAre, NewSessionIs
<1> QED
  BY <1>1

\* A session is taken from its cache, or made by a worker alone.
LEMMA SessionTakeSession ==
    ASSUME TypesInv, SingletonsAssumption, LockInv, SessionInv, NEW w \in Workers, TakeSession(w)
    PROVE  SessionInv'
<1>1. ThreadsInv /\ w \in Procs
  BY DEF TypesInv, Procs
<1>2. PICK g : g = hold[w]
  OBVIOUS
<1>a. \A y : PutSession(g, y).session = y
  BY <1>1, <1>2, HandsKept
<1>b. PICK x : x = Len(sessions')
  OBVIOUS
<1>3. UNCHANGED <<current, session, halfway>>
  BY <1>1, TakeSessionMoves DEF caches
<1>4. CASE session # 0 /\ sessions' = sessions /\ Moves(w, "task", <<>>, [hold[w] EXCEPT !.session = session])
  <2>1. PICK h, l : h = PutSession(g, session) /\ l = "task"
    OBVIOUS
  <2>2. Moves(w, l, <<>>, h)
    BY <1>2, <1>4, <2>1 DEF PutSession
  <2>3. h.session = session
    BY <1>a, <2>1
  <2>4. l # "cache session" /\ ~ InsideAt(l, <<>>)
    BY <2>1 DEF InsideAt
  <2> QED
    BY <1>3, <1>4, <2>2, <2>3, <2>4, SessionPlain
<1>5. CASE /\ session = 0 /\ sessions' = Append(sessions, NewSession)
           /\ Moves(w, "cache session", <<>>, [hold[w] EXCEPT !.session = Len(sessions')])
  <2>1. PICK h, l : h = PutSession(g, x) /\ l = "cache session"
    OBVIOUS
  <2>2. Moves(w, l, <<>>, h)
    BY <1>2, <1>b, <1>5, <2>1 DEF PutSession
  <2>3. h.session = x
    BY <1>a, <2>1
  <2>4. x = Len(sessions) + 1
    BY <1>b, <1>5, AppendedOne DEF TypesInv
  <2> QED
    BY <1>3, <1>5, <2>2, <2>3, <2>4, SessionMade
<1> QED
  BY <1>1, <1>4, <1>5, TakeSessionMoves DEF NewSession

\* The session that comes into the cache is signed in by nobody yet.
LEMMA SessionCacheSession ==
    ASSUME TypesInv, SingletonsAssumption, LockInv, SessionInv, NEW w \in Workers, CacheSession(w)
    PROVE  SessionInv'
<1>1. ThreadsInv /\ w \in Procs
  BY DEF TypesInv, Procs
<1>2. PICK g, i, l : g = hold[w] /\ i = hold[w].session /\ l = "task"
  OBVIOUS
<1>3. /\ pc[w] = "cache session" /\ Moves(w, l, <<>>, g) /\ session' = (IF session = 0 THEN i ELSE session)
      /\ UNCHANGED <<current, sessions, halfway>>
  BY <1>1, <1>2, CacheSessionMoves
<1>4. l # "cache session" /\ ~ InsideAt(l, <<>>) /\ l # "sign in" /\ l # "read env"
  BY <1>2 DEF InsideAt
<1>5. CASE session # 0
  BY <1>2, <1>3, <1>4, <1>5, SessionPlain
<1>6. CASE session = 0
  <2>1. session' = i
    BY <1>3, <1>6
  <2>2. sessions[i].login = 0 /\ \A v \in Workers \ {w} : hold[v].session # i
    BY <1>2, <1>3 DEF SessionInv, Alone
  <2>3. /\ pc'[w] = l
        /\ \A v \in Workers \ {w} : pc'[v] = pc[v] /\ frames'[v] = frames[v] /\ hold'[v] = hold[v]
        /\ \A v \in Workers : hold'[v] = hold[v]
    BY <1>1, <1>2, <1>3, MovesAt DEF Procs
  <2>4. ASSUME NEW v \in Workers
        PROVE  Alone(v)'
    <3>1. CASE v = w
      BY <1>4, <2>3, <3>1 DEF Alone
    <3>2. CASE v # w
      <4>1. Alone(v)
        BY DEF SessionInv
      <4> QED
        BY <1>3, <2>1, <2>2, <2>3, <3>2, <4>1 DEF Alone
    <3> QED
      BY <3>1, <3>2
  <2>5. ASSUME NEW v \in Workers
        PROVE  SignsIn(v)'
    <3>1. CASE v = w
      BY <1>4, <2>3, <3>1 DEF SignsIn, Inside
    <3>2. CASE v # w
      BY <2>1, <2>2, <2>3, <3>2 DEF SignsIn
    <3> QED
      BY <3>1, <3>2
  <2>6. sessions'[session'].login = 0
    BY <1>3, <2>1, <2>2
  <2> QED
    BY <2>4, <2>5, <2>6 DEF SessionInv
<1> QED
  BY <1>5, <1>6

\* The worker w is to sign in with the settings in force, or is not inside.
SignsWell(w, l, fs, h) ==
    Settled /\ InsideAt(l, fs) /\ h.session = session => l = "sign in" /\ h.settings = current

\* A step on the login of the worker's own session.
LEMMA SessionLogin ==
    ASSUME TypesInv, SingletonsAssumption, LockInv, SessionInv, UNCHANGED <<current, session, halfway>>,
           NEW w \in Workers, NEW l, NEW fs, NEW h, Moves(w, l, fs, h), l # "cache session",
           h.session \in {0, hold[w].session}, SignsWell(w, l, fs, h),
           \A j \in DOMAIN sessions :
              \/ sessions'[j].login = sessions[j].login
              \/ j = hold[w].session /\ (Settled /\ j = session => sessions'[j].login \in {0, current})
    PROVE  SessionInv'
<1>1. w \in Procs
  BY DEF Procs
<1>2. Settled' => Settled /\ current' = current
  BY SettledWork
<1>3. h.session \in {0, hold[w].session, session}
  OBVIOUS
<1>4. Settled /\ InsideAt(l, fs) /\ h.session = session => l = "sign in" /\ h.settings = current
  BY DEF SignsWell
<1> QED
  BY <1>1, <1>2, <1>3, <1>4, SessionMoved

\* Whoever signs in to the cached session has the settings in force.
LEMMA SessionLockLogin ==
    ASSUME TypesInv, SingletonsAssumption, LockInv, CurrentInv, SessionInv, NEW w \in Workers, LockLogin(w)
    PROVE  SessionInv'
<1>1. ThreadsInv /\ w \in Procs
  BY DEF TypesInv, Procs
<1>2. PICK g, i : g = hold[w] /\ i = hold[w].session
  OBVIOUS
<1>3. UNCHANGED <<current, session, halfway>>
  BY <1>1, LockLoginMoves DEF caches
<1>4. CASE sessions' = sessions /\ \E l \in {"idle", "task"} : Moves(w, l, <<>>, IF l = "idle" THEN Empty ELSE g)
  <2>1. PICK l \in {"idle", "task"} : Moves(w, l, <<>>, IF l = "idle" THEN Empty ELSE g)
    BY <1>4
  <2>2. PICK h : h = IF l = "idle" THEN Empty ELSE g
    OBVIOUS
  <2> QED
    BY <1>2, <1>3, <1>4, <2>1, <2>2, SessionEnds
<1>5. CASE sessions' = [sessions EXCEPT ![i].lock = w] /\ current # 0 /\ Moves(w, "sign in", <<>>, PutSettings(g, current))
  <2>1. PICK l, h : l = "sign in" /\ h = PutSettings(g, current)
    OBVIOUS
  <2>2. Moves(w, l, <<>>, h)
    BY <1>5, <2>1
  <2>3. h.session = g.session /\ h.settings = current
    <3>1. \A y : PutSettings(g, y).session = g.session /\ PutSettings(g, y).settings = y
      BY <1>1, <1>2, HandsKept
    <3> QED
      BY <2>1, <3>1
  <2>4. \A j \in DOMAIN sessions : sessions'[j].login = sessions[j].login
    BY <1>1, <1>5, LoginKept
  <2>5. l # "cache session" /\ SignsWell(w, l, <<>>, h) /\ h.session \in {0, hold[w].session}
    BY <1>2, <2>1, <2>3 DEF SignsWell
  <2> QED
    BY <1>3, <2>2, <2>4, <2>5, SessionLogin
<1>6. CASE sessions' = [sessions EXCEPT ![i].lock = w] /\ current = 0 /\ Moves(w, "read env", <<>>, g)
  <2>1. PICK l : l = "read env"
    OBVIOUS
  <2>2. Moves(w, l, <<>>, g)
    BY <1>6, <2>1
  <2>3. ~ Settled
    BY <1>6, SettledIs
  <2>4. \A j \in DOMAIN sessions : sessions'[j].login = sessions[j].login
    BY <1>1, <1>6, LoginKept
  <2>5. l # "cache session" /\ SignsWell(w, l, <<>>, g) /\ g.session \in {0, hold[w].session}
    BY <1>2, <2>1, <2>3 DEF SignsWell
  <2> QED
    BY <1>3, <2>2, <2>4, <2>5, SessionLogin
<1> QED
  BY <1>1, <1>2, <1>4, <1>5, <1>6, LockLoginMoves DEF PutSettings

\* The cached session gets the credentials in force.
LEMMA SessionSignIn ==
    ASSUME TypesInv, SingletonsAssumption, LockInv, SessionInv, NEW w \in Workers, SignIn(w)
    PROVE  SessionInv'
<1>1. ThreadsInv /\ StoresInv /\ w \in Procs
  BY DEF TypesInv, Procs
<1>2. PICK g, i, x : g = hold[w] /\ i = hold[w].session /\ x = hold[w].settings
  OBVIOUS
<1>3. UNCHANGED <<current, session, halfway>> /\ pc[w] = "sign in"
  BY <1>1, SignInMoves DEF caches
<1>4. PICK l \in {"idle", "task"} : Moves(w, l, <<>>, IF l = "idle" THEN Empty ELSE PutSettings(g, 0))
  BY <1>1, <1>2, SignInMoves DEF PutSettings
<1>5. PICK h : h = IF l = "idle" THEN Empty ELSE PutSettings(g, 0)
  OBVIOUS
<1>6. Moves(w, l, <<>>, h)
  BY <1>4, <1>5
<1>7. h.session \in {0, hold[w].session}
  <2>1. PutSettings(g, 0).session = g.session
    BY <1>1, <1>2, HandsKept
  <2> QED
    BY <1>2, <1>5, <2>1, EmptyHands
<1>8. l # "cache session" /\ SignsWell(w, l, <<>>, h)
  BY DEF SignsWell, InsideAt
<1>9. x \in Nat
  <2>1. Hands(g, Len(sessions), Len(clients), Len(settings)) /\ Len(settings) \in Nat
    BY <1>1, <1>2, WorkerIs, StoresAre
  <2>2. x \in 0 .. Len(settings)
    BY <1>2, <2>1 DEF Hands
  <2> QED
    BY <2>1, <2>2
<1>10. SessionTurns(i, Signed(sessions[i], x))
  BY <1>1, <1>2, <1>9, SignInMoves, SignTurns
<1>11. Signed(sessions[i], x).login = x
  BY DEF Signed
<1>12. ASSUME Settled, i = session, i \in DOMAIN sessions
       PROVE  x = current
  <2>1. session # 0
    BY <1>1, <1>12, StoresAre
  <2>2. SignsIn(w)
    BY <1>12, <2>1 DEF SessionInv
  <2> QED
    BY <1>2, <1>3, <1>12, <2>2 DEF SignsIn, Inside
<1>13. ASSUME NEW j \in DOMAIN sessions
       PROVE  \/ sessions'[j].login = sessions[j].login
              \/ j = hold[w].session /\ (Settled /\ j = session => sessions'[j].login \in {0, current})
  BY <1>2, <1>10, <1>11, <1>12 DEF SessionTurns
<1> QED
  BY <1>3, <1>6, <1>7, <1>8, <1>13, SessionLogin

\* A sign-in that fails leaves the session without a login.
LEMMA SessionLoginFails ==
    ASSUME TypesInv, SingletonsAssumption, LockInv, SessionInv, NEW w \in Workers, LoginFails(w)
    PROVE  SessionInv'
<1>1. ThreadsInv
  BY DEF TypesInv
<1>2. PICK i, l : i = hold[w].session /\ l = "idle"
  OBVIOUS
<1>3. UNCHANGED <<current, session, halfway>> /\ Moves(w, l, <<>>, Empty)
  BY <1>1, <1>2, LoginFailsMoves DEF caches
<1>4. sessions' = [sessions EXCEPT ![i].lock = Free]
  BY <1>1, <1>2, LoginFailsMoves
<1>5. \A j \in DOMAIN sessions : sessions'[j].login = sessions[j].login
  BY <1>4, LoginKept
<1>6. l # "cache session" /\ SignsWell(w, l, <<>>, Empty) /\ Empty.session \in {0, hold[w].session}
  BY <1>2, EmptyHands DEF SignsWell, InsideAt
<1> QED
  BY <1>3, <1>5, <1>6, SessionLogin

\* Every step of a worker keeps the session's invariant.
LEMMA SessionWorks ==
    ASSUME TypesInv, SingletonsAssumption, LockInv, CurrentInv, SessionInv, NEW w \in Workers, Work(w)
    PROVE  SessionInv'
  BY SessionBuilds, SessionCalls, SessionTakeSession, SessionCacheSession, SessionLockLogin, SessionSignIn,
     SessionLoginFails DEF Work

\* A step of an admin that leaves the sessions as they are.
LEMMA SessionAdmin ==
    ASSUME TypesInv, SingletonsAssumption, LockInv, SessionInv, UNCHANGED <<session, sessions, halfway>>,
           NEW a \in Admins, NEW l, NEW fs, NEW h, Moves(a, l, fs, h),
           Reloading(a)' \/ (~ Reloading(a) /\ current' = current)
    PROVE  SessionInv'
<1>1. ThreadsInv /\ a \in Procs /\ a \notin Workers
  BY DEF TypesInv, Procs, SingletonsAssumption
<1>2. Settled' => Settled /\ current' = current
  <2>1. Settled' => Settled
    BY <1>1, SettledKept
  <2>2. Settled' => ~ Reloading(a)'
    BY DEF Settled
  <2> QED
    BY <2>1, <2>2
<1> QED
  BY <1>1, <1>2, SessionMoved

\* Whoever reloads goes from the cache of get_settings to all the others.
LEMMA SessionReads ==
    ASSUME TypesInv, SingletonsAssumption, RereadsInv, NEW a \in Admins, Reload(a) \/ Reread(a)
    PROVE  Reloading(a)'
<1>1. ThreadsInv /\ a \in Procs
  BY DEF TypesInv, Procs
<1>2. PICK g : g = hold[a]
  OBVIOUS
<1>3. CASE Reload(a)
  <2>1. Moves(a, "reread", <<>>, g)
    BY <1>1, <1>2, <1>3, ReloadMoves
  <2>2. pc'[a] = "reread"
    BY <1>1, <2>1, OthersAt
  <2> QED
    BY <2>2 DEF Reloading, Rereading
<1>4. CASE Reread(a)
  <2>1. pc[a] = "reread" /\ AskMoves(a, "clear") /\ plan' = plan
    BY <1>1, <1>4, RereadMoves
  <2>2. plan'[a] = <<"reload">>
    BY <2>1 DEF RereadsInv
  <2>3. (\E h : Moves(a, "clear", <<>>, h)) \/ \E h : Moves(a, "read env", <<>>, h)
    BY <2>1 DEF AskMoves
  <2>4. pc'[a] = "clear" \/ pc'[a] = "read env"
    BY <1>1, <2>3, OthersAt
  <2> QED
    BY <2>2, <2>4 DEF Reloading, Rereading
<1> QED
  BY <1>3, <1>4

\* So do the steps of admins that change settings.
LEMMA SessionChanges ==
    ASSUME TypesInv, SingletonsAssumption, LockInv, RereadsInv, SessionInv, NEW a \in Admins,
           Patch(a) \/ Reload(a) \/ Reread(a) \/ SetFields(a)
    PROVE  SessionInv'
<1>1. ThreadsInv
  BY DEF TypesInv
<1>2. UNCHANGED <<session, sessions, halfway>>
  BY <1>1, PatchMoves, ReloadMoves, RereadMoves, SetFieldsMoves DEF caches
<1>3. PICK l, fs, h : Moves(a, l, fs, h)
  BY <1>1, PatchMoves, ReloadMoves, RereadMoves, SetFieldsMoves DEF AskMoves
<1>4. Reloading(a)' \/ (~ Reloading(a) /\ current' = current)
  <2>1. CASE Reload(a) \/ Reread(a)
    BY <2>1, SessionReads
  <2>2. CASE Patch(a) \/ SetFields(a)
    <3>1. pc[a] \in {"idle", "set"} /\ current' = current
      BY <1>1, <2>2, PatchMoves, SetFieldsMoves DEF caches
    <3> QED
      BY <3>1 DEF Reloading, Rereading
  <2> QED
    BY <2>1, <2>2
<1> QED
  BY <1>2, <1>3, <1>4, SessionAdmin

\* So does the clearing of a cache.
LEMMA SessionClear ==
    ASSUME TypesInv, SingletonsAssumption, LockInv, SessionInv, NEW a \in Admins, ClearCell(a)
    PROVE  SessionInv'
<1>1. ThreadsInv
  BY DEF TypesInv
<1>2. /\ pc' = pc /\ plan' = plan /\ UNCHANGED <<current, session, sessions, halfway>>
      /\ hold' = [hold EXCEPT ![a] = PutNext(hold[a], hold[a].next + 1)]
      /\ frames' \in [Procs -> Seq(Frames)]
      /\ \A p \in Procs : DOMAIN frames'[p] = DOMAIN frames[p]
  BY <1>1, ClearMoves
<1>3. ASSUME NEW w \in Workers
      PROVE  hold'[w] = hold[w] /\ (frames'[w] = <<>> <=> frames[w] = <<>>)
  <2>1. w \in Procs /\ w \notin Admins /\ frames[w] \in Seq(Frames)
    BY <1>1, WorkerIs
  <2>2. hold'[w] = hold[w]
    BY <1>1, <1>2, <2>1 DEF ThreadsInv
  <2> QED
    BY <1>2, <2>1, <2>2, StackEmpty
<1>4. Settled' <=> Settled
  BY <1>2 DEF Settled, Reloading, Rereading
<1>5. \A w \in Workers : (Alone(w)' <=> Alone(w)) /\ (SignsIn(w)' <=> SignsIn(w))
  BY <1>2, <1>3 DEF Alone, SignsIn, Inside
<1> QED
  BY <1>2, <1>4, <1>5 DEF SessionInv

\* So does the end of a reload, that drops the session.
LEMMA SessionReset ==
    ASSUME TypesInv, SingletonsAssumption, LockInv, SessionInv, NEW a \in Admins, ResetSession(a)
    PROVE  SessionInv'
<1>1. ThreadsInv /\ a \in Procs /\ a \notin Workers
  BY DEF TypesInv, Procs, SingletonsAssumption
<1>2. PICK l : l = "idle"
  OBVIOUS
<1>3. /\ pc[a] = "clear" /\ Moves(a, l, <<>>, Empty)
      /\ session' = (IF plan[a] = <<"reload">> THEN 0 ELSE session)
      /\ UNCHANGED <<current, sessions, halfway>>
  BY <1>1, <1>2, ResetSessionMoves
<1>4. CASE plan[a] # <<"reload">>
  <2>1. ~ Reloading(a)
    BY <1>3, <1>4 DEF Reloading, Rereading
  <2> QED
    BY <1>3, <1>4, <2>1, SessionAdmin
<1>5. CASE session' = 0
  <2>1. \A w \in Workers : pc'[w] = pc[w] /\ hold'[w] = hold[w]
    BY <1>1, <1>3, MovesAt DEF Procs
  <2>2. \A w \in Workers : Alone(w)'
    <3>1. \A w \in Workers : pc[w] = "cache session" => hold[w].session # 0
      BY SessionsAt
    <3>2. \A w \in Workers : Alone(w)
      BY DEF SessionInv
    <3> QED
      BY <1>3, <1>5, <2>1, <3>1, <3>2 DEF Alone
  <2> QED
    BY <1>5, <2>2 DEF SessionInv
<1> QED
  BY <1>3, <1>4, <1>5

\* So does whoever cannot read .env.
LEMMA SessionEnvRaises ==
    ASSUME TypesInv, SingletonsAssumption, LockInv, SessionInv, NEW p \in Procs, EnvRaises(p)
    PROVE  SessionInv'
<1>1. ThreadsInv /\ StoresInv
  BY DEF TypesInv
<1>2. PICK l : l = "idle"
  OBVIOUS
<1>3. /\ pc[p] = "read env" /\ Moves(p, l, <<>>, Empty) /\ UNCHANGED <<current, session>>
      /\ halfway' = (halfway \/ plan[p] = <<"reload">>)
  BY <1>1, <1>2, EnvRaisesMoves DEF caches
<1>4. \A j \in DOMAIN sessions : sessions'[j].login = sessions[j].login
  <2>1. /\ sessions \in Seq(SessionT)
        /\ \A i \in DOMAIN sessions :
              sessions'[i] = IF sessions[i].lock = p THEN PutLock(sessions[i], Free) ELSE sessions[i]
    BY <1>1, EnvRaisesMoves, Unlocked, StoresAre
  <2>2. \A i \in DOMAIN sessions : sessions[i] \in SessionT
    BY <2>1
  <2>3. \A i \in DOMAIN sessions : PutLock(sessions[i], Free).login = sessions[i].login
    BY <2>2, SessionSet
  <2> QED
    BY <2>1, <2>3
<1>5. Settled' => Settled /\ current' = current
  <2>1. Reloading(p) => halfway'
    BY <1>3 DEF Reloading, Rereading
  <2>2. ~ halfway' => ~ halfway
    BY <1>3
  <2>3. Settled' => Settled
    BY <1>1, <1>3, <2>1, <2>2, SettledKept
  <2> QED
    BY <1>3, <2>3
<1>6. l # "cache session" /\ ~ InsideAt(l, <<>>) /\ Empty.session = 0
  BY <1>2, EmptyHands DEF InsideAt
<1> QED
  BY <1>3, <1>4, <1>5, <1>6, SessionMoved

\* So does whoever has read .env: other settings come into force only in a reload.
LEMMA SessionNewSettings ==
    ASSUME TypesInv, SingletonsAssumption, LockInv, CurrentInv, SessionInv, NEW p \in Procs, NewSettings(p)
    PROVE  SessionInv'
<1>1. ThreadsInv
  BY DEF TypesInv
<1>2. PICK g : g = hold[p]
  OBVIOUS
<1>3. \A y : PutSettings(g, y).session = g.session
  BY <1>2, HandsKept
<1>4. /\ current' = (IF current = 0 THEN Len(settings') ELSE current)
      /\ UNCHANGED <<session, sessions, halfway>>
  BY SettingsMade
<1>5. pc[p] = "read env" /\ plan' = plan
  BY <1>1, NewSettingsMoves
<1>6. PICK l, fs, h : /\ Moves(p, l, fs, h) /\ h.session = g.session
                      /\ l \in {"build", "sign in", "set", "clear"}
                      /\ p \in Workers /\ InsideAt(l, fs) => frames[p] = <<>>
  <2>1. CASE frames[p] # <<>> /\ Moves(p, "build", SetTop(frames[p], <<Len(settings'), 0>>), hold[p])
    <3>1. PICK l, fs : l = "build" /\ fs = SetTop(frames[p], <<Len(settings'), 0>>)
      OBVIOUS
    <3>2. Moves(p, l, fs, g)
      BY <1>2, <2>1, <3>1
    <3>3. ~ InsideAt(l, fs) /\ l \in {"build", "sign in", "set", "clear"}
      BY <3>1 DEF InsideAt
    <3> QED
      BY <3>2, <3>3
  <2>2. CASE /\ frames[p] = <<>>
             /\ \E l \in {"sign in", "set", "clear"} : Moves(p, l, <<>>, [hold[p] EXCEPT !.settings = Len(settings')])
    <3>1. PICK l \in {"sign in", "set", "clear"} : Moves(p, l, <<>>, PutSettings(g, Len(settings')))
      BY <1>2, <2>2 DEF PutSettings
    <3>2. PICK h : h = PutSettings(g, Len(settings'))
      OBVIOUS
    <3>3. Moves(p, l, <<>>, h) /\ h.session = g.session
      BY <1>3, <3>1, <3>2
    <3> QED
      BY <2>2, <3>1, <3>3
  <2> QED
    BY <1>1, <2>1, <2>2, NewSettingsMoves
<1>7. Settled' => Settled /\ current' = current
  <2>1. ASSUME p \in Admins, Reloading(p)
        PROVE  Reloading(p)'
    <3>1. Rereading(p) /\ plan[p] = <<"reload">>
      BY <1>5, <2>1 DEF Reloading, Rereading
    <3>2. pc'[p] = "clear"
      BY <2>1, <3>1, ReloadRead
    <3> QED
      BY <1>5, <3>1, <3>2 DEF Reloading
  <2>2. Settled' => Settled
    BY <1>1, <1>4, <1>6, <2>1, SettledKept
  <2> QED
    BY <1>4, <2>2, SettledIs
<1>8. ASSUME p \in Workers
      PROVE  /\ l # "cache session" /\ h.session \in {0, hold[p].session, session}
             /\ Settled /\ InsideAt(l, fs) /\ h.session = session => l = "sign in" /\ h.settings = current
  <2>1. l # "cache session" /\ h.session \in {0, hold[p].session, session}
    BY <1>2, <1>6
  <2>2. ASSUME Settled, InsideAt(l, fs), h.session = session
        PROVE  FALSE
    <3>1. Inside(p) /\ hold[p].session = session
      BY <1>2, <1>5, <1>6, <1>8, <2>2 DEF Inside
    <3>2. session # 0
      BY <1>8, <3>1 DEF LockInv
    <3>3. SignsIn(p)
      BY <1>8, <2>2, <3>2 DEF SessionInv
    <3> QED
      BY <1>5, <3>1, <3>3 DEF SignsIn
  <2> QED
    BY <2>1, <2>2
<1> QED
  BY <1>4, <1>6, <1>7, <1>8, SessionMoved

\* At the start there is no session.
LEMMA SessionInit ==
    ASSUME SingletonsInit
    PROVE  RereadsInv /\ SessionInv
<1>1. session = 0 /\ pc = [p \in Procs |-> "idle"]
  BY DEF SingletonsInit
<1>2. \A p \in Procs : pc[p] = "idle"
  BY <1>1
<1>3. \A w \in Workers : Alone(w)
  BY <1>2 DEF Alone, Procs
<1>4. RereadsInv
  BY <1>2 DEF RereadsInv, Procs
<1> QED
  BY <1>1, <1>3, <1>4 DEF SessionInv

\* Every step keeps the session's invariant.
LEMMA SessionStep ==
    ASSUME TypesInv, SingletonsAssumption, LockInv, RereadsInv, CurrentInv, SessionInv, [SingletonsNext]_vars
    PROVE  SessionInv'
<1>1. ASSUME NEW w \in Workers, Work(w)
      PROVE  SessionInv'
  BY <1>1, SessionWorks
<1>2. ASSUME NEW a \in Admins, Administer(a)
      PROVE  SessionInv'
  BY <1>2, SessionChanges, SessionClear, SessionReset DEF Administer
<1>3. ASSUME NEW p \in Procs, NewSettings(p) \/ EnvRaises(p)
      PROVE  SessionInv'
  BY <1>3, SessionNewSettings, SessionEnvRaises
<1>4. CASE UNCHANGED vars
  <2>1. /\ current' = current /\ session' = session /\ sessions' = sessions /\ halfway' = halfway
        /\ pc' = pc /\ plan' = plan /\ frames' = frames /\ hold' = hold
    BY <1>4 DEF vars, caches, counts, threads
  <2> QED
    BY <2>1 DEF SessionInv, Alone, SignsIn, Inside, Settled, Reloading, Rereading
<1>5. SingletonsNext => \/ \E w \in Workers : Work(w)
                        \/ \E a \in Admins : Administer(a)
                        \/ \E p \in Procs : NewSettings(p) \/ EnvRaises(p)
                        \/ UNCHANGED vars
  BY DEF SingletonsNext, Rest
<1> QED
  BY <1>1, <1>2, <1>3, <1>4, <1>5

\* With every admin idle, nothing is left to clear and no reload is under way.
LEMMA CachedWhenQuiet ==
    ASSUME CurrentInv, SessionInv
    PROVE  CachedIsCurrent
<1> SUFFICES ASSUME \A a \in Admins : pc[a] = "idle", ~ halfway
             PROVE  /\ \A c \in Cached : \A o \in cell[c] :
                          \/ o.late
                          \/ /\ UpToDate(c, o)
                             /\ \A p \in DOMAIN o.parts : o.parts[p].late \/ UpToDate(p, o.parts[p])
                    /\ session # 0 => sessions[session].login \in {0, current}
  BY DEF CachedIsCurrent
<1>1. \A a \in Admins : ~ Reloading(a) /\ \A c : ~ Pending(a, c)
  BY DEF Reloading, Rereading, Pending
<1>2. \A c \in Cached : \A o \in cell[c] : Good(c, o)
  BY <1>1, Zenon DEF CurrentInv
<1>3. session # 0 => sessions[session].login \in {0, current}
  BY <1>1 DEF SessionInv, Settled
<1> QED
  BY <1>2, <1>3 DEF Good, Fresh

\* When no PATCH and no reload is under way, what is cached was made from the settings in
\* force, with its parts, unless it is late, and the Angel session is signed in with them.
THEOREM CacheKept == SingletonsSpec => []CachedIsCurrent
<1> DEFINE CacheInv == TypesInv /\ LockInv /\ RereadsInv /\ CurrentInv /\ SessionInv
<1>1. SingletonsInit => CacheInv
  BY TypesInit, LockInit, CurrentInit, SessionInit, SingletonsAssumption
<1>2. CacheInv /\ [SingletonsNext]_vars => CacheInv'
  BY TypesStep, LockStep, RereadsStep, CurrentStep, SessionStep, SingletonsAssumption
<1>3. CacheInv => CachedIsCurrent
  BY CachedWhenQuiet
<1> QED
  BY <1>1, <1>2, <1>3, PTL DEF SingletonsSpec
====
