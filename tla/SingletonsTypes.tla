---- MODULE SingletonsTypes ----
(* Type correctness of Singletons, for any number of threads, builders, changes *)
(* and requests, as an inductive invariant in four parts; and how each step     *)
(* moves the threads, which the proofs about the rest cite.                     *)
EXTENDS Singletons, TLAPS, FiniteSetTheorems

----------------------------------------------------------------------------
(* The types: stores, threads, the stacks of the builders, the caches.        *)

Base == {"broker", "signal_service", "validation_service", "rag"}

Marks == Nat \X Nat

Leaf == [seen : Marks, late : BOOLEAN, client : Nat, parts : [{} -> {0}]]

PartMaps == UNION {[S -> Leaf] : S \in SUBSET Cached}

Products == [seen : Marks, late : BOOLEAN, client : Nat, parts : PartMaps]

Frames == [of : Cached, late : BOOLEAN, seen : Marks, parts : PartMaps]

WorkerPlaces == {"idle", "task", "build", "read env", "cache session", "lock", "sign in"} \cup Calling

AdminPlaces == {"idle", "reread", "read env", "set", "clear"}

\* What a thread has in its hands, with n sessions, m clients and k settings made.
Hands(h, n, m, k) ==
    /\ DOMAIN h = {"session", "client", "settings", "sum", "next"}
    /\ h.session \in 0 .. n /\ h.client \in 0 .. m /\ h.settings \in 0 .. k

StoresInv ==
    /\ settings \in Seq(Nat) /\ current \in 0 .. Len(settings)
    /\ sessions \in Seq([login : Nat, lock : Procs \cup {Free}, logins : Nat])
    /\ session \in 0 .. Len(sessions)
    /\ clients \in Seq([spend : Nat, bill : Nat, exact : BOOLEAN])
    /\ halfway \in BOOLEAN

ThreadsInv ==
    /\ pc \in [Procs -> WorkerPlaces \cup AdminPlaces]
    /\ plan = [p \in Procs |-> plan[p]]
    /\ hold = [p \in Procs |-> hold[p]] /\ frames \in [Procs -> Seq(Frames)]
    /\ \A p \in Procs : Hands(hold[p], Len(sessions), Len(clients), Len(settings))
    /\ \A w \in Workers : pc[w] = "charge" /\ hold[w].client # 0 => hold[w].sum \in Nat
    /\ \A w \in Workers : pc[w] \in WorkerPlaces
    /\ \A a \in Admins : pc[a] \in AdminPlaces
    /\ \A p \in Procs : pc[p] = "build" => frames[p] # <<>>
    /\ \A p \in Procs : pc[p] \notin {"build", "read env"} => frames[p] = <<>>
    /\ \A a \in Admins : frames[a] = <<>>
    /\ \A a \in Admins : hold[a].next \in 1 .. Len(Order) + 1 /\ (pc[a] # "clear" => hold[a].next = 1)

\* A builder is inside of at most one other, which asked for it.
Stacked(s) ==
    \/ s = <<>>
    \/ Len(s) = 1
    \/ /\ Len(s) = 2
       /\ s[2].of \in Base /\ s[1].of \notin Base
       /\ \E k \in DOMAIN Builders[s[1].of] : s[2].of = Builders[s[1].of][k]

\* What is in a frame, or in an object, of builder c.
Filled(c, x, m, k) ==
    /\ x.seen[1] <= k
    /\ \A part \in DOMAIN x.parts : \E j \in DOMAIN Builders[c] : part = Builders[c][j]
    /\ \A part \in DOMAIN x.parts : x.parts[part].client <= m

Seen(f) == f.of \in ReadsSettings => f.seen[1] # 0

FramesGood(s, place, m, k) ==
    /\ Stacked(s)
    /\ \A i \in DOMAIN s :
          /\ Filled(s[i].of, s[i], m, k)
          /\ IF place = "read env" /\ i = Len(s) THEN s[i].seen = <<0, 0>> ELSE Seen(s[i])

FramesInv == \A w \in Workers : FramesGood(frames[w], pc[w], Len(clients), Len(settings))

CellsInv ==
    /\ cell \in [Cached -> SUBSET Products]
    /\ \A c \in Cached : \A o \in cell[c] :
          /\ Filled(c, o, Len(clients), Len(settings)) /\ o.client <= Len(clients)
          /\ c = "orchestrator" => "validation_service" \in DOMAIN o.parts
    /\ \A c \in Cached : \A o, q \in cell[c] : o = q

Names == {"broker", "signal_service", "validation_service", "rag", "orchestrator", "execution_controller"}

\* What builders ask for asks for nothing itself.
LEMMA BuildersShape ==
    /\ DOMAIN Builders = Names
    /\ \A c \in Names : Builders[c] \in Seq(Base)
    /\ \A c \in Base : Builders[c] = <<>>
    /\ Builders["orchestrator"][3] = "validation_service" /\ Len(Builders["orchestrator"]) = 4
<1>1. DOMAIN Builders = Names
  BY DEF Builders, Names
<1>2. /\ Builders["broker"] = <<>> /\ Builders["signal_service"] = <<>>
      /\ Builders["validation_service"] = <<>> /\ Builders["rag"] = <<>>
      /\ Builders["execution_controller"] = <<"broker">>
      /\ Builders["orchestrator"] = <<"broker", "signal_service", "validation_service", "rag">>
  BY DEF Builders
<1>3. \A c \in Base : Builders[c] = <<>>
  BY <1>2 DEF Base
<1>4. \A c \in Names : Builders[c] \in Seq(Base)
  <2>1. <<>> \in Seq(Base)
    OBVIOUS
  <2>2. <<"broker">> \in Seq(Base)
    BY DEF Base
  <2>3. <<"broker", "signal_service", "validation_service", "rag">> \in Seq(Base)
    BY DEF Base
  <2>4. TAKE c \in Names
  <2>5. Builders[c] \in {<<>>, <<"broker">>, <<"broker", "signal_service", "validation_service", "rag">>}
    BY <1>2 DEF Names
  <2> QED
    BY <2>1, <2>2, <2>3, <2>5
<1> QED
  BY <1>1, <1>2, <1>3, <1>4

\* Every cache is cleared, and each in one place.
LEMMA OrderShape ==
    /\ Len(Order) = 6 /\ DOMAIN Order = 1 .. 6
    /\ \A c \in Names : \E k \in 1 .. 6 : Order[k] = c
    /\ \A k, j \in 1 .. 6 : Order[k] = Order[j] => k = j
<1>1. /\ Order[1] = "broker" /\ Order[2] = "signal_service" /\ Order[3] = "validation_service"
      /\ Order[4] = "orchestrator" /\ Order[5] = "rag" /\ Order[6] = "execution_controller"
      /\ Len(Order) = 6 /\ DOMAIN Order = 1 .. 6
  BY DEF Order
<1>2. \A c \in Names : \E k \in 1 .. 6 : Order[k] = c
  BY <1>1 DEF Names
<1>3. \A k, j \in 1 .. 6 : Order[k] = Order[j] => k = j
  BY <1>1
<1> QED
  BY <1>1, <1>2, <1>3

\* A part is cleared before the whole, but for the memory.
LEMMA PartsFirst ==
    ASSUME NEW d \in Names, NEW k \in DOMAIN Builders[d], Builders[d][k] # "rag",
           NEW i \in 1 .. 6, NEW j \in 1 .. 6, Order[i] = Builders[d][k], Order[j] = d
    PROVE  i < j
<1>1. /\ Order[1] = "broker" /\ Order[2] = "signal_service" /\ Order[3] = "validation_service"
      /\ Order[4] = "orchestrator" /\ Order[5] = "rag" /\ Order[6] = "execution_controller"
  BY DEF Order
<1>2. /\ Builders["broker"] = <<>> /\ Builders["signal_service"] = <<>>
      /\ Builders["validation_service"] = <<>> /\ Builders["rag"] = <<>>
      /\ Builders["execution_controller"] = <<"broker">>
      /\ Builders["orchestrator"] = <<"broker", "signal_service", "validation_service", "rag">>
  BY DEF Builders
<1>3. d \in {"execution_controller", "orchestrator"}
  BY <1>2 DEF Names
<1>4. CASE d = "execution_controller"
  BY <1>1, <1>2, <1>4
<1>5. CASE d = "orchestrator"
  <2>1. k \in 1 .. 4
    BY <1>2, <1>5
  <2>2. Builders[d][k] \in {"broker", "signal_service", "validation_service"}
    BY <1>2, <1>5, <2>1
  <2>3. i \in {1, 2, 3}
    BY <1>1, <2>2
  <2>4. j = 4
    BY <1>1, <1>5
  <2> QED
    BY <2>3, <2>4
<1> QED
  BY <1>3, <1>4, <1>5

\* What a call may cost is bounded by the dearest.
LEMMA MaxCostIs ==
    ASSUME SingletonsAssumption, NEW c \in Costs
    PROVE  MaxCost \in Nat /\ c \in Nat /\ 1 <= c /\ c <= MaxCost
<1>1. \E m \in Costs : \A d \in Costs : d <= m
  BY DEF SingletonsAssumption
<1>2. MaxCost \in Costs /\ \A d \in Costs : d <= MaxCost
  BY <1>1 DEF MaxCost
<1> QED
  BY <1>2 DEF SingletonsAssumption

----------------------------------------------------------------------------
(* How a thread moves.                                                        *)

\* The thread p takes a step; the others stay where they are.
Moves(p, l, fs, h) ==
    /\ pc' = [pc EXCEPT ![p] = l]
    /\ frames' = [frames EXCEPT ![p] = fs]
    /\ hold' = [hold EXCEPT ![p] = h]
    /\ plan' = [plan EXCEPT ![p] = plan'[p]]

Shapes ==
    /\ pc = [p \in Procs |-> pc[p]] /\ plan = [p \in Procs |-> plan[p]]
    /\ hold = [p \in Procs |-> hold[p]] /\ frames \in [Procs -> Seq(Frames)]

\* What a thread has in its hands once it has builder c's object.
With(w, c, object) ==
    IF c # "orchestrator" THEN hold[w]
    ELSE [hold[w] EXCEPT !.client = object.parts["validation_service"].client]

\* The frame x with the object of c among its parts.
Plus(x, c, object) ==
    [x EXCEPT !.parts = [part \in DOMAIN x.parts \cup {c} |->
                            IF part = c THEN object ELSE x.parts[part]]]

\* A build begins without parts.
LEMMA NoPartsYet ==
    /\ DOMAIN <<>> = {}
    /\ <<>> \in PartMaps
    /\ <<>> \in [{} -> {0}]
<1>1. DOMAIN <<>> = {}
  OBVIOUS
<1>2. <<>> \in [{} -> Leaf]
  BY <1>1
<1>3. <<>> \in [{} -> {0}]
  BY <1>1
<1>4. {} \in SUBSET Cached
  OBVIOUS
<1> QED
  BY <1>1, <1>2, <1>3, <1>4 DEF PartMaps

\* The frame of a build that begins, with and without its settings.
LEMMA FreshFrame ==
    ASSUME NEW c \in Cached, NEW x \in Marks
    PROVE  /\ Frame(c) \in Frames /\ [Frame(c) EXCEPT !.seen = x] \in Frames
           /\ Frame(c).of = c /\ ~ Frame(c).late /\ Frame(c).seen = <<0, 0>> /\ DOMAIN Frame(c).parts = {}
           /\ [Frame(c) EXCEPT !.seen = x].of = c /\ ~ [Frame(c) EXCEPT !.seen = x].late
           /\ [Frame(c) EXCEPT !.seen = x].seen = x /\ DOMAIN [Frame(c) EXCEPT !.seen = x].parts = {}
<1>1. <<0, 0>> \in Marks
  BY DEF Marks
<1>2. Frame(c) \in Frames
  <2> HIDE DEF PartMaps, Marks
  <2> QED
    BY <1>1, NoPartsYet DEF Frame, Frames
<1>3. Frame(c).of = c /\ ~ Frame(c).late /\ Frame(c).seen = <<0, 0>> /\ DOMAIN Frame(c).parts = {}
  BY NoPartsYet DEF Frame
<1>4. ASSUME NEW f \in Frames
      PROVE  /\ [f EXCEPT !.seen = x] \in Frames
             /\ [f EXCEPT !.seen = x].of = f.of /\ [f EXCEPT !.seen = x].late = f.late
             /\ [f EXCEPT !.seen = x].seen = x /\ [f EXCEPT !.seen = x].parts = f.parts
  <2> HIDE DEF PartMaps, Marks
  <2> QED
    BY DEF Frames
<1>5. /\ [Frame(c) EXCEPT !.seen = x] \in Frames
      /\ [Frame(c) EXCEPT !.seen = x].of = Frame(c).of /\ [Frame(c) EXCEPT !.seen = x].late = Frame(c).late
      /\ [Frame(c) EXCEPT !.seen = x].seen = x /\ [Frame(c) EXCEPT !.seen = x].parts = Frame(c).parts
  BY <1>2, <1>4
<1> QED
  BY <1>2, <1>3, <1>5

\* A sequence is a function on its indices.
LEMMA SequenceIs ==
    ASSUME NEW S, NEW t \in Seq(S)
    PROVE  DOMAIN t = 1 .. Len(t) /\ t = [k \in 1 .. Len(t) |-> t[k]]
  OBVIOUS

SetSeen(f, x) == [f EXCEPT !.seen = x]
SetTop(s, x) == [s EXCEPT ![Len(s)].seen = x]

\* To note the settings in the last frame is to append the frame with them.
LEMMA SetLast ==
    ASSUME NEW s \in Seq(Frames), NEW f \in Frames, NEW x
    PROVE  SetTop(Append(s, f), x) = Append(s, SetSeen(f, x)) /\ Append(s, f) # <<>>
<1> DEFINE t == Append(s, f)
           g == [f EXCEPT !.seen = x]
<1>1. Len(t) = Len(s) + 1 /\ Len(s) \in Nat /\ t \in Seq(Frames) /\ t[Len(s) + 1] = f
      /\ \A k \in 1 .. Len(s) : t[k] = s[k]
  OBVIOUS
<1>a. DOMAIN t = 1 .. Len(s) + 1 /\ t = [k \in DOMAIN t |-> t[k]]
  <2> HIDE DEF t
  <2> QED
    BY <1>1, SequenceIs
<1>b. \A k \in 1 .. Len(s) + 1 : t[k] = IF k = Len(s) + 1 THEN f ELSE s[k]
  BY <1>1
<1>2. t = [k \in 1 .. Len(s) + 1 |-> IF k = Len(s) + 1 THEN f ELSE s[k]]
  <2> HIDE DEF t
  <2> QED
    BY <1>a, <1>b
<1>3. Append(s, g) = [k \in 1 .. Len(s) + 1 |-> IF k = Len(s) + 1 THEN g ELSE s[k]]
  OBVIOUS
<1>4. [t EXCEPT ![Len(t)].seen = x] = [k \in 1 .. Len(s) + 1 |-> IF k = Len(s) + 1 THEN g ELSE s[k]]
  BY <1>1, <1>2
<1>5. t # <<>>
  BY <1>1
<1> QED
  BY <1>3, <1>4, <1>5 DEF SetTop, SetSeen

\* A request that ends leaves everything behind.
LEMMA FinishMoves ==
    ASSUME NEW p \in Procs, Finish(p), Shapes
    PROVE  Moves(p, "idle", <<>>, Empty)
  BY DEF Finish, Goto, Moves, Shapes

\* After a step of its plan a request ends, or goes on to the next one.
LEMMA DoneMoves ==
    ASSUME NEW p \in Procs, NEW h, Done(p, h), Shapes
    PROVE  \E l \in {"idle", "task"} : Moves(p, l, <<>>, IF l = "idle" THEN Empty ELSE h)
<1>1. CASE Finish(p)
  BY <1>1, FinishMoves
<1>2. CASE ~ Finish(p)
  BY <1>2 DEF Done, Goto, Moves, Shapes
<1> QED
  BY <1>1, <1>2

\* The value of a builder goes to the request, or into the frame below.
LEMMA GiveMoves ==
    ASSUME NEW w \in Procs, NEW below, NEW c, NEW object, Give(w, below, c, object), Shapes
    PROVE  \/ /\ below = <<>>
              /\ \E l \in {"idle", "task"} :
                    Moves(w, l, <<>>, IF l = "idle" THEN Empty ELSE With(w, c, object))
           \/ /\ below # <<>>
              /\ Moves(w, "build", [below EXCEPT ![Len(below)] = Plus(below[Len(below)], c, object)], hold[w])
<1>1. CASE below = <<>>
  <2>1. Done(w, With(w, c, object))
    BY <1>1 DEF Give, With
  <2> QED
    BY <1>1, <2>1, DoneMoves
<1>2. CASE below # <<>>
  BY <1>2 DEF Give, Goto, Moves, Shapes, Plus
<1> QED
  BY <1>1, <1>2

\* The frame f of a build of c that a thread begins, which goes to l.
Begun(c, f, l) ==
    /\ f.of = c /\ ~ f.late /\ DOMAIN f.parts = {}
    /\ \/ l = "build" /\ c \in ReadsSettings /\ current # 0 /\ f.seen = <<current, settings[current]>>
       \/ l = "build" /\ c \notin ReadsSettings /\ f.seen = <<0, 0>>
       \/ l = "read env" /\ c \in ReadsSettings /\ current = 0 /\ f.seen = <<0, 0>>

\* A call finds the cached object, or begins a build.
LEMMA CallMoves ==
    ASSUME NEW w \in Procs, NEW c \in Cached, Call(w, c), Shapes,
           settings \in Seq(Nat), current \in 0 .. Len(settings)
    PROVE  \/ \E object \in cell[c] : Give(w, frames[w], c, object)
           \/ /\ cell[c] = {}
              /\ \E l \in {"build", "read env"}, f \in Frames :
                    Begun(c, f, l) /\ Moves(w, l, Append(frames[w], f), hold[w])
<1>1. CASE cell[c] # {}
  BY <1>1 DEF Call
<1>2. CASE cell[c] = {}
  <2> DEFINE s == Append(frames[w], Frame(c))
  <2>1. <<0, 0>> \in Marks /\ (current # 0 => <<current, settings[current]>> \in Marks)
    BY DEF Marks
  <2>2. frames[w] \in Seq(Frames)
    BY DEF Shapes
  <2>3. Frame(c) \in Frames
    BY <2>1, FreshFrame
  <2>4. Frame(c).of = c /\ ~ Frame(c).late /\ Frame(c).seen = <<0, 0>> /\ DOMAIN Frame(c).parts = {}
    BY <2>1, FreshFrame
  <2>5. s # <<>>
    BY <2>2, <2>3, SetLast
  <2>6. plan' = plan
    BY <1>2 DEF Call
  <2>7. CASE c \notin ReadsSettings
    <3>1. frames' = [frames EXCEPT ![w] = s] /\ Goto(w, "build") /\ hold' = hold
      BY <1>2, <2>7 DEF Call
    <3>2. Moves(w, "build", s, hold[w])
      BY <2>6, <3>1 DEF Moves, Goto, Shapes
    <3>3. Begun(c, Frame(c), "build")
      BY <2>4, <2>7 DEF Begun
    <3> QED
      BY <1>2, <2>3, <3>2, <3>3
  <2>8. CASE c \in ReadsSettings /\ current = 0
    <3>1. GetSettings(w, s, "build")
      BY <1>2, <2>8 DEF Call
    <3>2. frames' = [frames EXCEPT ![w] = s] /\ Goto(w, "read env") /\ hold' = hold
      BY <2>8, <3>1 DEF GetSettings
    <3>3. Moves(w, "read env", s, hold[w])
      BY <2>6, <3>2 DEF Moves, Goto, Shapes
    <3>4. Begun(c, Frame(c), "read env")
      BY <2>4, <2>8 DEF Begun
    <3> QED
      BY <1>2, <2>3, <3>3, <3>4
  <2>9. CASE c \in ReadsSettings /\ current # 0
    <3> DEFINE x == <<current, settings[current]>>
               f == SetSeen(Frame(c), x)
    <3>1. GetSettings(w, s, "build")
      BY <1>2, <2>9 DEF Call
    <3>2. WithSettings(w, current, settings[current], s, "build")
      BY <2>9, <3>1 DEF GetSettings
    <3>3. frames' = [frames EXCEPT ![w] = SetTop(s, x)] /\ Goto(w, "build") /\ hold' = hold
      BY <2>5, <3>2 DEF WithSettings, SetTop
    <3>4. SetTop(s, x) = Append(frames[w], f)
      BY <2>2, <2>3, SetLast
    <3>5. Moves(w, "build", Append(frames[w], f), hold[w])
      BY <2>6, <3>3, <3>4 DEF Moves, Goto, Shapes
    <3>6. f \in Frames /\ f.of = c /\ ~ f.late /\ f.seen = x /\ DOMAIN f.parts = {}
      <4>1. x \in Marks
        BY <2>1, <2>9
      <4> HIDE DEF x
      <4> QED
        BY <4>1, FreshFrame DEF SetSeen
    <3>7. Begun(c, f, "build")
      BY <2>9, <3>6 DEF Begun
    <3> QED
      BY <1>2, <3>5, <3>6, <3>7
  <2> QED
    BY <2>7, <2>8, <2>9
<1> QED
  BY <1>1, <1>2

\* Settings, sessions and clients are made, never forgotten.
Grows ==
    /\ Len(settings) \in Nat /\ Len(settings') \in Nat /\ Len(settings) <= Len(settings')
    /\ Len(sessions) \in Nat /\ Len(sessions') \in Nat /\ Len(sessions) <= Len(sessions')
    /\ Len(clients) \in Nat /\ Len(clients') \in Nat /\ Len(clients) <= Len(clients')

\* What a thread has in its hands still exists when more has been made.
LEMMA HandsGrow ==
    ASSUME NEW h, NEW n \in Nat, NEW m \in Nat, NEW k \in Nat,
           NEW n1 \in Nat, NEW m1 \in Nat, NEW k1 \in Nat, n <= n1, m <= m1, k <= k1, Hands(h, n, m, k)
    PROVE  Hands(h, n1, m1, k1)
  BY DEF Hands

\* So does what a frame or an object refers to.
LEMMA FilledGrow ==
    ASSUME NEW c, NEW x, x.seen \in Marks, \A part \in DOMAIN x.parts : x.parts[part].client \in Nat,
           NEW m \in Nat, NEW k \in Nat, NEW m1 \in Nat, NEW k1 \in Nat,
           m <= m1, k <= k1, Filled(c, x, m, k)
    PROVE  Filled(c, x, m1, k1)
  BY DEF Filled, Marks

\* The parts of frames and of objects, and what the types say of them.
LEMMA PartsAreLeaves ==
    /\ \A m \in PartMaps : \A part \in DOMAIN m : m[part] \in Leaf /\ m[part].client \in Nat /\ part \in Cached
    /\ \A m \in PartMaps : DOMAIN m = {} => m \in [{} -> {0}]
    /\ \A f \in Frames : f.parts \in PartMaps /\ f.seen \in Marks /\ f.of \in Cached /\ f.late \in BOOLEAN
    /\ \A o \in Products : o.parts \in PartMaps /\ o.seen \in Marks /\ o.client \in Nat /\ o.late \in BOOLEAN
<1>1. \A m \in PartMaps : \A part \in DOMAIN m : m[part] \in Leaf /\ part \in Cached
  BY DEF PartMaps
<1>2. \A o \in Leaf : o.client \in Nat
  <2> HIDE DEF Marks
  <2> QED
    BY DEF Leaf
<1>3. \A m \in PartMaps : DOMAIN m = {} => m \in [{} -> {0}]
  <2> TAKE m \in PartMaps
  <2>1. PICK S \in SUBSET Cached : m \in [S -> Leaf]
    BY DEF PartMaps
  <2>2. m = [x \in DOMAIN m |-> m[x]]
    BY <2>1
  <2> QED
    BY <2>2
<1>4. \A f \in Frames : f.parts \in PartMaps /\ f.seen \in Marks /\ f.of \in Cached /\ f.late \in BOOLEAN
  <2> HIDE DEF PartMaps, Marks
  <2> QED
    BY DEF Frames
<1>5. \A o \in Products : o.parts \in PartMaps /\ o.seen \in Marks /\ o.client \in Nat /\ o.late \in BOOLEAN
  <2> HIDE DEF PartMaps, Marks
  <2> QED
    BY DEF Products
<1> QED
  BY <1>1, <1>2, <1>3, <1>4, <1>5

\* A stack stays good when more has been made.
LEMMA FramesGrow ==
    ASSUME NEW s \in Seq(Frames), NEW l, NEW m \in Nat, NEW k \in Nat, NEW m1 \in Nat, NEW k1 \in Nat,
           m <= m1, k <= k1, FramesGood(s, l, m, k)
    PROVE  FramesGood(s, l, m1, k1)
<1>1. ASSUME NEW i \in DOMAIN s
      PROVE  Filled(s[i].of, s[i], m1, k1)
  <2>1. s[i] \in Frames
    OBVIOUS
  <2>2. s[i].seen \in Marks /\ \A part \in DOMAIN s[i].parts : s[i].parts[part].client \in Nat
    BY <2>1, PartsAreLeaves
  <2>3. Filled(s[i].of, s[i], m, k)
    BY DEF FramesGood
  <2> QED
    BY <2>2, <2>3, FilledGrow
<1> QED
  BY <1>1 DEF FramesGood

\* What the steps of the threads need of the types.
LEMMA Types ==
    ASSUME StoresInv, ThreadsInv
    PROVE  Shapes /\ settings \in Seq(Nat) /\ current \in 0 .. Len(settings)
  BY DEF StoresInv, ThreadsInv, Shapes

\* A step of one thread keeps the threads' types, if what it comes to is right.
LEMMA MoveKept ==
    ASSUME StoresInv, ThreadsInv, FramesInv, Grows, SingletonsAssumption,
           NEW p \in Procs, NEW l, NEW fs \in Seq(Frames), NEW h, Moves(p, l, fs, h),
           Hands(h, Len(sessions'), Len(clients'), Len(settings')),
           p \in Workers => /\ l \in WorkerPlaces /\ FramesGood(fs, l, Len(clients'), Len(settings'))
                            /\ l = "charge" /\ h.client # 0 => h.sum \in Nat,
           p \in Admins => /\ l \in AdminPlaces /\ fs = <<>> /\ h.next \in 1 .. Len(Order) + 1
                           /\ l # "clear" => h.next = 1,
           l = "build" => fs # <<>>,
           l \notin {"build", "read env"} => fs = <<>>
    PROVE  ThreadsInv' /\ FramesInv'
<1>1. /\ pc' = [pc EXCEPT ![p] = l] /\ frames' = [frames EXCEPT ![p] = fs]
      /\ hold' = [hold EXCEPT ![p] = h] /\ plan' = [plan EXCEPT ![p] = plan'[p]]
      /\ pc \in [Procs -> WorkerPlaces \cup AdminPlaces] /\ frames \in [Procs -> Seq(Frames)]
      /\ hold = [q \in Procs |-> hold[q]] /\ plan = [q \in Procs |-> plan[q]]
  BY DEF Moves, ThreadsInv
<1>2. /\ pc'[p] = l /\ frames'[p] = fs /\ hold'[p] = h
      /\ \A q \in Procs : q # p => pc'[q] = pc[q] /\ frames'[q] = frames[q] /\ hold'[q] = hold[q]
      /\ hold' = [q \in Procs |-> hold'[q]] /\ plan' = [q \in Procs |-> plan'[q]]
  <2>1. /\ pc'[p] = l /\ \A q \in Procs : q # p => pc'[q] = pc[q]
    BY <1>1
  <2>2. /\ frames'[p] = fs /\ \A q \in Procs : q # p => frames'[q] = frames[q]
    BY <1>1
  <2>3. /\ hold'[p] = h /\ (\A q \in Procs : q # p => hold'[q] = hold[q]) /\ hold' = [q \in Procs |-> hold'[q]]
    BY <1>1
  <2>4. plan' = [q \in Procs |-> plan'[q]]
    BY <1>1
  <2> QED
    BY <2>1, <2>2, <2>3, <2>4
<1>3. /\ Procs = Workers \cup Admins /\ Workers \cap Admins = {}
      /\ Len(settings) \in Nat /\ Len(sessions) \in Nat /\ Len(clients) \in Nat
      /\ Len(settings') \in Nat /\ Len(sessions') \in Nat /\ Len(clients') \in Nat
  BY DEF Procs, SingletonsAssumption, Grows
<1>4. pc' \in [Procs -> WorkerPlaces \cup AdminPlaces]
  BY <1>1, <1>3
<1>5. frames' \in [Procs -> Seq(Frames)]
  BY <1>1
<1>6. \A q \in Procs : Hands(hold'[q], Len(sessions'), Len(clients'), Len(settings'))
  <2> TAKE q \in Procs
  <2>1. CASE q = p
    BY <1>2, <2>1
  <2>2. CASE q # p
    <3>1. Hands(hold[q], Len(sessions), Len(clients), Len(settings))
      BY DEF ThreadsInv
    <3> QED
      BY <1>2, <1>3, <2>2, <3>1, HandsGrow DEF Grows
  <2> QED
    BY <2>1, <2>2
<1>7. \A w \in Workers : pc'[w] = "charge" /\ hold'[w].client # 0 => hold'[w].sum \in Nat
  BY <1>2, <1>3 DEF ThreadsInv
<1>8. /\ \A w \in Workers : pc'[w] \in WorkerPlaces
      /\ \A a \in Admins : pc'[a] \in AdminPlaces
  BY <1>2, <1>3 DEF ThreadsInv
<1>9. /\ \A q \in Procs : pc'[q] = "build" => frames'[q] # <<>>
      /\ \A q \in Procs : pc'[q] \notin {"build", "read env"} => frames'[q] = <<>>
      /\ \A a \in Admins : frames'[a] = <<>>
  <2>1. /\ \A q \in Procs : pc[q] = "build" => frames[q] # <<>>
        /\ \A q \in Procs : pc[q] \notin {"build", "read env"} => frames[q] = <<>>
        /\ \A a \in Admins : frames[a] = <<>>
    BY DEF ThreadsInv
  <2> QED
    BY <1>2, <1>3, <2>1
<1>10. \A a \in Admins : hold'[a].next \in 1 .. Len(Order) + 1 /\ (pc'[a] # "clear" => hold'[a].next = 1)
  BY <1>2, <1>3 DEF ThreadsInv
<1>11. FramesInv'
  <2> SUFFICES ASSUME NEW w \in Workers
               PROVE  FramesGood(frames'[w], pc'[w], Len(clients'), Len(settings'))
    BY DEF FramesInv
  <2>1. CASE w = p
    BY <1>2, <2>1
  <2>2. CASE w # p
    <3>1. FramesGood(frames[w], pc[w], Len(clients), Len(settings)) /\ frames[w] \in Seq(Frames)
      BY <1>3 DEF FramesInv, ThreadsInv
    <3> QED
      BY <1>2, <1>3, <2>2, <3>1, FramesGrow DEF Grows
  <2> QED
    BY <2>1, <2>2
<1> QED
  BY <1>2, <1>4, <1>5, <1>6, <1>7, <1>8, <1>9, <1>10, <1>11 DEF ThreadsInv

\* The same for a step that leaves no frame.
LEMMA PlainMoveKept ==
    ASSUME StoresInv, ThreadsInv, FramesInv, Grows, SingletonsAssumption,
           NEW p \in Procs, NEW l, NEW h, Moves(p, l, <<>>, h),
           Hands(h, Len(sessions'), Len(clients'), Len(settings')),
           p \in Workers => l \in WorkerPlaces /\ (l = "charge" /\ h.client # 0 => h.sum \in Nat),
           p \in Admins => /\ l \in AdminPlaces /\ h.next \in 1 .. Len(Order) + 1
                           /\ l # "clear" => h.next = 1,
           l # "build"
    PROVE  ThreadsInv' /\ FramesInv'
<1>1. <<>> \in Seq(Frames)
  OBVIOUS
<1>2. FramesGood(<<>>, l, Len(clients'), Len(settings'))
  BY DEF FramesGood, Stacked
<1> QED
  BY <1>1, <1>2, MoveKept

TypesInv == StoresInv /\ ThreadsInv /\ FramesInv /\ CellsInv

\* A thread that is idle has nothing in its hands.
LEMMA EmptyHands ==
    /\ Empty.session = 0 /\ Empty.client = 0 /\ Empty.settings = 0 /\ Empty.sum = 0 /\ Empty.next = 1
    /\ \A n, m, k \in Nat : Hands(Empty, n, m, k)
  BY DEF Empty, Hands

\* What the types say of a worker.
LEMMA WorkerIs ==
    ASSUME ThreadsInv, SingletonsAssumption, NEW w \in Workers
    PROVE  /\ w \in Procs /\ w \notin Admins /\ Shapes
           /\ pc[w] \in WorkerPlaces /\ frames[w] \in Seq(Frames)
           /\ pc[w] = "build" => frames[w] # <<>>
           /\ pc[w] \notin {"build", "read env"} => frames[w] = <<>>
           /\ Hands(hold[w], Len(sessions), Len(clients), Len(settings))
  BY DEF ThreadsInv, SingletonsAssumption, Procs, Shapes

\* What the types say of an admin.
LEMMA AdminIs ==
    ASSUME ThreadsInv, SingletonsAssumption, NEW a \in Admins
    PROVE  /\ a \in Procs /\ a \notin Workers /\ Shapes
           /\ pc[a] \in AdminPlaces /\ frames[a] = <<>>
           /\ Hands(hold[a], Len(sessions), Len(clients), Len(settings))
           /\ hold[a].next \in 1 .. Len(Order) + 1 /\ (pc[a] # "clear" => hold[a].next = 1)
  BY DEF ThreadsInv, SingletonsAssumption, Procs, Shapes

\* Nothing is made, or only a session, a client or a settings object at the end.
LEMMA GrowsWhen ==
    ASSUME StoresInv,
           \/ settings' = settings
           \/ \E x \in Nat : settings' = Append(settings, x)
           \/ settings' \in Seq(Nat) /\ Len(settings') = Len(settings),
           Len(sessions') \in Nat, Len(sessions) <= Len(sessions'),
           Len(clients') \in Nat, Len(clients) <= Len(clients')
    PROVE  Grows
<1>1. settings \in Seq(Nat) /\ sessions \in Seq([login : Nat, lock : Procs \cup {Free}, logins : Nat])
      /\ clients \in Seq([spend : Nat, bill : Nat, exact : BOOLEAN])
  BY DEF StoresInv
<1>2. Len(settings) \in Nat /\ Len(sessions) \in Nat /\ Len(clients) \in Nat
  BY <1>1
<1>3. Len(settings') \in Nat /\ Len(settings) <= Len(settings')
  BY <1>1, <1>2
<1> QED
  BY <1>2, <1>3 DEF Grows

\* The caches that a step leaves keep their types.
LEMMA CellsKept ==
    ASSUME CellsInv, Grows, cell' = cell
    PROVE  CellsInv'
<1>1. ASSUME NEW c \in Cached, NEW o \in cell[c]
      PROVE  Filled(c, o, Len(clients'), Len(settings')) /\ o.client <= Len(clients')
  <2>1. /\ o \in Products /\ Filled(c, o, Len(clients), Len(settings)) /\ o.client <= Len(clients)
    BY DEF CellsInv
  <2>2. o.seen \in Marks /\ o.client \in Nat /\ \A part \in DOMAIN o.parts : o.parts[part].client \in Nat
    BY <2>1, PartsAreLeaves
  <2> QED
    BY <2>1, <2>2, FilledGrow DEF Grows
<1> QED
  BY <1>1 DEF CellsInv

\* A step that leaves no frame and makes nothing but at the ends.
LEMMA PlainStepKept ==
    ASSUME TypesInv, StoresInv', Grows, SingletonsAssumption, cell' = cell,
           NEW p \in Procs, NEW l, NEW h, Moves(p, l, <<>>, h),
           Hands(h, Len(sessions'), Len(clients'), Len(settings')),
           p \in Workers => l \in WorkerPlaces /\ (l = "charge" /\ h.client # 0 => h.sum \in Nat),
           p \in Admins => /\ l \in AdminPlaces /\ h.next \in 1 .. Len(Order) + 1
                           /\ l # "clear" => h.next = 1,
           l # "build"
    PROVE  TypesInv'
<1>1. ThreadsInv' /\ FramesInv'
  BY PlainMoveKept DEF TypesInv
<1>2. CellsInv'
  BY CellsKept DEF TypesInv
<1> QED
  BY <1>1, <1>2 DEF TypesInv

\* Nothing is forgotten when nothing changes.
LEMMA GrowsNothing ==
    ASSUME StoresInv, UNCHANGED <<settings, sessions, clients>>
    PROVE  Grows
  BY DEF StoresInv, Grows

\* How the steps of the language model's client and of a request move.
LEMMA RequestMoves ==
    ASSUME ThreadsInv, SingletonsAssumption, NEW w \in Workers, Request(w)
    PROVE  /\ pc[w] = "idle" /\ Moves(w, "task", <<>>, hold[w])
           /\ UNCHANGED <<caches, sessions, clients, halfway>>
<1>1. w \in Procs /\ Shapes /\ (pc[w] = "idle" => frames[w] = <<>>)
  BY WorkerIs
<1> QED
  BY <1>1 DEF Request, Goto, Moves, Shapes

\* A broker that cannot log in ends the request.
LEMMA BrokerRaisesMoves ==
    ASSUME ThreadsInv, SingletonsAssumption, NEW w \in Workers, BrokerRaises(w)
    PROVE  /\ pc[w] = "build" /\ Moves(w, "idle", <<>>, Empty)
           /\ UNCHANGED <<caches, sessions, clients, halfway>>
<1>1. w \in Procs /\ Shapes
  BY WorkerIs
<1> QED
  BY <1>1, FinishMoves DEF BrokerRaises, counts

\* A worker takes the cached session, or makes one.
LEMMA TakeSessionMoves ==
    ASSUME ThreadsInv, SingletonsAssumption, NEW w \in Workers, TakeSession(w)
    PROVE  /\ pc[w] = "task" /\ hold[w].session = 0
           /\ \/ /\ session # 0 /\ sessions' = sessions
                 /\ Moves(w, "task", <<>>, [hold[w] EXCEPT !.session = session])
              \/ /\ session = 0 /\ sessions' = Append(sessions, [login |-> 0, lock |-> Free, logins |-> 0])
                 /\ Moves(w, "cache session", <<>>, [hold[w] EXCEPT !.session = Len(sessions')])
           /\ UNCHANGED <<caches, clients, halfway>>
<1>1. w \in Procs /\ Shapes /\ (pc[w] = "task" => frames[w] = <<>>)
  BY WorkerIs
<1>2. CASE session # 0
  BY <1>1, <1>2 DEF TakeSession, Does, Goto, Moves, Shapes, counts
<1>3. CASE session = 0
  BY <1>1, <1>3 DEF TakeSession, Does, Goto, Moves, Shapes, counts
<1> QED
  BY <1>2, <1>3

\* The session that is made is cached unless one was in the meantime.
LEMMA CacheSessionMoves ==
    ASSUME ThreadsInv, SingletonsAssumption, NEW w \in Workers, CacheSession(w)
    PROVE  /\ pc[w] = "cache session" /\ Moves(w, "task", <<>>, hold[w])
           /\ session' = IF session = 0 THEN hold[w].session ELSE session
           /\ UNCHANGED <<settings, current, cell, sessions, clients, halfway>>
<1>1. w \in Procs /\ Shapes /\ (pc[w] = "cache session" => frames[w] = <<>>)
  BY WorkerIs
<1> QED
  BY <1>1 DEF CacheSession, Goto, Moves, Shapes, counts

\* A session that is signed in needs no lock.
LEMMA LoggedInMoves ==
    ASSUME ThreadsInv, SingletonsAssumption, NEW w \in Workers, LoggedIn(w)
    PROVE  /\ pc[w] = "task" /\ hold[w].session # 0
           /\ \/ /\ sessions[hold[w].session].login # 0
                 /\ \E l \in {"idle", "task"} : Moves(w, l, <<>>, IF l = "idle" THEN Empty ELSE hold[w])
              \/ Moves(w, "lock", <<>>, hold[w])
           /\ UNCHANGED <<caches, sessions, clients, halfway>>
<1>1. w \in Procs /\ Shapes /\ (pc[w] = "task" => frames[w] = <<>>)
  BY WorkerIs
<1>2. pc[w] = "task" /\ hold[w].session # 0 /\ UNCHANGED <<caches, sessions, clients, halfway>>
  BY DEF LoggedIn, Does, counts
<1>3. CASE Mine(w).login # 0
  <2>1. Done(w, hold[w])
    BY <1>3 DEF LoggedIn
  <2>2. \E l \in {"idle", "task"} : Moves(w, l, <<>>, IF l = "idle" THEN Empty ELSE hold[w])
    BY <1>1, <2>1, DoneMoves
  <2> QED
    BY <1>2, <1>3, <2>2 DEF Mine
<1>4. CASE Mine(w).login = 0
  <2>1. Goto(w, "lock") /\ UNCHANGED <<plan, frames, hold>>
    BY <1>4 DEF LoggedIn
  <2>2. Moves(w, "lock", <<>>, hold[w])
    BY <1>1, <1>2, <2>1 DEF Goto, Moves, Shapes
  <2> QED
    BY <1>2, <2>2
<1> QED
  BY <1>3, <1>4

\* Under the lock a worker looks again, and asks for the settings.
LEMMA LockLoginMoves ==
    ASSUME ThreadsInv, SingletonsAssumption, NEW w \in Workers, LockLogin(w)
    PROVE  /\ pc[w] = "lock" /\ sessions[hold[w].session].lock = Free
           /\ UNCHANGED <<caches, clients, halfway>>
           /\ \/ /\ sessions[hold[w].session].login # 0 /\ sessions' = sessions
                 /\ \E l \in {"idle", "task"} : Moves(w, l, <<>>, IF l = "idle" THEN Empty ELSE hold[w])
              \/ /\ sessions[hold[w].session].login = 0
                 /\ sessions' = [sessions EXCEPT ![hold[w].session].lock = w]
                 /\ \/ current # 0 /\ Moves(w, "sign in", <<>>, [hold[w] EXCEPT !.settings = current])
                    \/ current = 0 /\ Moves(w, "read env", <<>>, hold[w])
<1>1. w \in Procs /\ Shapes /\ (pc[w] = "lock" => frames[w] = <<>>)
  BY WorkerIs
<1>2. pc[w] = "lock" /\ sessions[hold[w].session].lock = Free /\ UNCHANGED <<caches, clients, halfway>>
  BY DEF LockLogin, Mine, counts
<1>3. CASE Mine(w).login # 0
  <2>1. Done(w, hold[w]) /\ sessions' = sessions
    BY <1>3 DEF LockLogin
  <2>2. \E l \in {"idle", "task"} : Moves(w, l, <<>>, IF l = "idle" THEN Empty ELSE hold[w])
    BY <1>1, <2>1, DoneMoves
  <2> QED
    BY <1>2, <1>3, <2>1, <2>2 DEF Mine
<1>4. CASE Mine(w).login = 0
  <2>1. /\ sessions' = [sessions EXCEPT ![hold[w].session].lock = w]
        /\ GetSettings(w, <<>>, "sign in") /\ plan' = plan
    BY <1>4 DEF LockLogin
  <2>2. CASE current # 0
    <3>1. /\ hold' = [hold EXCEPT ![w].settings = current] /\ Goto(w, "sign in") /\ frames' = frames
      BY <2>1, <2>2 DEF GetSettings, WithSettings
    <3>2. Moves(w, "sign in", <<>>, [hold[w] EXCEPT !.settings = current])
      BY <1>1, <1>2, <2>1, <3>1 DEF Goto, Moves, Shapes
    <3> QED
      BY <1>2, <1>4, <2>1, <2>2, <3>2 DEF Mine
  <2>3. CASE current = 0
    <3>1. /\ frames' = [frames EXCEPT ![w] = <<>>] /\ Goto(w, "read env") /\ hold' = hold
      BY <2>1, <2>3 DEF GetSettings
    <3>2. Moves(w, "read env", <<>>, hold[w])
      BY <1>1, <1>2, <2>1, <3>1 DEF Goto, Moves, Shapes
    <3> QED
      BY <1>2, <1>4, <2>1, <2>3, <3>2 DEF Mine
  <2> QED
    BY <2>2, <2>3
<1> QED
  BY <1>3, <1>4

\* A sign-in notes whose credentials were used and leaves the lock.
LEMMA SignInMoves ==
    ASSUME ThreadsInv, SingletonsAssumption, NEW w \in Workers, SignIn(w)
    PROVE  /\ pc[w] = "sign in"
           /\ sessions' = [sessions EXCEPT ![hold[w].session] =
                              [login |-> hold[w].settings, lock |-> Free, logins |-> @.logins + 1]]
           /\ \E l \in {"idle", "task"} :
                 Moves(w, l, <<>>, IF l = "idle" THEN Empty ELSE [hold[w] EXCEPT !.settings = 0])
           /\ UNCHANGED <<caches, clients, halfway>>
<1>1. w \in Procs /\ Shapes
  BY WorkerIs
<1>2. Done(w, [hold[w] EXCEPT !.settings = 0])
  BY DEF SignIn
<1>3. \E l \in {"idle", "task"} :
         Moves(w, l, <<>>, IF l = "idle" THEN Empty ELSE [hold[w] EXCEPT !.settings = 0])
  BY <1>1, <1>2, DoneMoves
<1> QED
  BY <1>3 DEF SignIn, counts

\* A sign-in that fails leaves the lock and ends the request.
LEMMA LoginFailsMoves ==
    ASSUME ThreadsInv, SingletonsAssumption, NEW w \in Workers, LoginFails(w)
    PROVE  /\ pc[w] = "sign in" /\ Moves(w, "idle", <<>>, Empty)
           /\ sessions' = [sessions EXCEPT ![hold[w].session].lock = Free]
           /\ UNCHANGED <<caches, clients, halfway>>
<1>1. w \in Procs /\ Shapes
  BY WorkerIs
<1> QED
  BY <1>1, FinishMoves DEF LoginFails, counts

\* Over the cap the request ends.
CapMoves(w, spend) ==
    \/ Moves(w, "idle", <<>>, Empty)
    \/ ~ (spend >= Cap) /\ Moves(w, "post", <<>>, hold[w])

\* Under the cap the call is posted.
LEMMA UnderCapMoves ==
    ASSUME NEW w \in Procs, NEW spend, UnderCap(w, spend), Shapes, frames[w] = <<>>
    PROVE  CapMoves(w, spend)
<1>1. CASE spend >= Cap
  BY <1>1, FinishMoves DEF UnderCap, CapMoves
<1>2. CASE ~ (spend >= Cap)
  <2>1. Goto(w, "post") /\ UNCHANGED <<plan, frames, hold>>
    BY <1>2 DEF UnderCap
  <2> QED
    BY <1>2, <2>1 DEF Goto, Moves, Shapes, CapMoves
<1> QED
  BY <1>1, <1>2

\* A call begins, by the day's sum or on a new day.
LEMMA BeginCallMoves ==
    ASSUME ThreadsInv, SingletonsAssumption, NEW w \in Workers, BeginCall(w)
    PROVE  /\ pc[w] = "task"
           /\ clients' = [clients EXCEPT ![hold[w].client].exact = @ /\ ~ Mate(w, hold[w].client)]
           /\ CapMoves(w, clients[hold[w].client].spend) \/ Moves(w, "new day", <<>>, hold[w])
           /\ UNCHANGED <<caches, sessions, halfway>>
<1>1. w \in Procs /\ Shapes /\ (pc[w] = "task" => frames[w] = <<>>)
  BY WorkerIs
<1>2. /\ pc[w] = "task" /\ UNCHANGED <<caches, sessions, halfway>>
      /\ clients' = [clients EXCEPT ![hold[w].client].exact = @ /\ ~ Mate(w, hold[w].client)]
  BY DEF BeginCall, Does, counts
<1>3. \/ UnderCap(w, clients[hold[w].client].spend)
      \/ Goto(w, "new day") /\ UNCHANGED <<plan, frames, hold>>
  BY DEF BeginCall
<1>4. CASE UnderCap(w, clients[hold[w].client].spend)
  BY <1>1, <1>2, <1>4, UnderCapMoves
<1>5. CASE Goto(w, "new day") /\ UNCHANGED <<plan, frames, hold>>
  <2>1. Moves(w, "new day", <<>>, hold[w])
    BY <1>1, <1>2, <1>5 DEF Goto, Moves, Shapes
  <2> QED
    BY <1>2, <2>1
<1> QED
  BY <1>3, <1>4, <1>5

\* The first call of a day begins with nothing spent.
LEMMA ResetSpendMoves ==
    ASSUME ThreadsInv, SingletonsAssumption, NEW w \in Workers, ResetSpend(w)
    PROVE  /\ pc[w] = "new day"
           /\ clients' = [clients EXCEPT ![hold[w].client] = [@ EXCEPT !.spend = 0, !.bill = 0]]
           /\ CapMoves(w, 0)
           /\ UNCHANGED <<caches, sessions, halfway>>
<1>1. w \in Procs /\ Shapes /\ (pc[w] = "new day" => frames[w] = <<>>)
  BY WorkerIs
<1>2. UnderCap(w, 0) /\ pc[w] = "new day"
  BY DEF ResetSpend
<1>3. CapMoves(w, 0)
  BY <1>1, <1>2, UnderCapMoves
<1> QED
  BY <1>3 DEF ResetSpend, counts

\* An answer is billed, and its cost added to the sum that was read.
LEMMA AnsweredMoves ==
    ASSUME ThreadsInv, SingletonsAssumption, NEW w \in Workers, Answered(w)
    PROVE  /\ pc[w] = "post"
           /\ \E cost \in Costs :
                 /\ clients' = [clients EXCEPT ![hold[w].client].bill = @ + cost]
                 /\ Moves(w, "charge", <<>>, [hold[w] EXCEPT !.sum = clients[hold[w].client].spend + cost])
           /\ UNCHANGED <<caches, sessions, halfway>>
<1>1. w \in Procs /\ Shapes /\ (pc[w] = "post" => frames[w] = <<>>)
  BY WorkerIs
<1>2. PICK cost \in Costs :
         /\ clients' = [clients EXCEPT ![hold[w].client].bill = @ + cost]
         /\ hold' = [hold EXCEPT ![w].sum = clients[hold[w].client].spend + cost]
  BY DEF Answered
<1>3. pc[w] = "post" /\ Goto(w, "charge") /\ UNCHANGED <<caches, sessions, plan, frames, halfway>>
  BY DEF Answered, counts
<1>4. Moves(w, "charge", <<>>, [hold[w] EXCEPT !.sum = clients[hold[w].client].spend + cost])
  BY <1>1, <1>2, <1>3 DEF Goto, Moves, Shapes
<1> QED
  BY <1>2, <1>3, <1>4

\* A call without an answer ends the request.
LEMMA CallFailsMoves ==
    ASSUME ThreadsInv, SingletonsAssumption, NEW w \in Workers, CallFails(w)
    PROVE  /\ pc[w] = "post" /\ Moves(w, "idle", <<>>, Empty)
           /\ \E billed \in BOOLEAN :
                 clients' = [clients EXCEPT ![hold[w].client].exact = @ /\ ~ billed]
           /\ UNCHANGED <<caches, sessions, halfway>>
<1>1. w \in Procs /\ Shapes
  BY WorkerIs
<1>2. Moves(w, "idle", <<>>, Empty)
  BY <1>1, FinishMoves DEF CallFails
<1> QED
  BY <1>2 DEF CallFails, counts

\* The sum is written, and the request ends.
LEMMA ChargeMoves ==
    ASSUME ThreadsInv, SingletonsAssumption, NEW w \in Workers, Charge(w)
    PROVE  /\ pc[w] = "charge" /\ Moves(w, "idle", <<>>, Empty)
           /\ clients' = [clients EXCEPT ![hold[w].client].spend = hold[w].sum]
           /\ UNCHANGED <<caches, sessions, halfway>>
<1>1. w \in Procs /\ Shapes
  BY WorkerIs
<1> QED
  BY <1>1, FinishMoves DEF Charge, counts

\* An admin that asks for the settings, to go on at l.
AskMoves(a, l) ==
    \/ current # 0 /\ Moves(a, l, <<>>, [hold[a] EXCEPT !.settings = current])
    \/ current = 0 /\ Moves(a, "read env", <<>>, hold[a])

\* An admin gets the settings, or reads .env.
LEMMA AdminAsks ==
    ASSUME NEW a \in Procs, NEW l, GetSettings(a, <<>>, l), Shapes, frames[a] = <<>>,
           plan' = [plan EXCEPT ![a] = plan'[a]]
    PROVE  AskMoves(a, l)
<1>1. CASE current # 0
  <2>1. /\ hold' = [hold EXCEPT ![a].settings = current] /\ Goto(a, l) /\ frames' = frames
    BY <1>1 DEF GetSettings, WithSettings
  <2> QED
    BY <1>1, <2>1 DEF Goto, Moves, Shapes, AskMoves
<1>2. CASE current = 0
  <2>1. /\ frames' = [frames EXCEPT ![a] = <<>>] /\ Goto(a, "read env") /\ hold' = hold
    BY <1>2 DEF GetSettings
  <2> QED
    BY <1>2, <2>1 DEF Goto, Moves, Shapes, AskMoves
<1> QED
  BY <1>1, <1>2

\* A PATCH begins with the settings.
LEMMA PatchMoves ==
    ASSUME ThreadsInv, SingletonsAssumption, NEW a \in Admins, Patch(a)
    PROVE  /\ pc[a] = "idle" /\ AskMoves(a, "set") /\ plan'[a] = <<"patch">>
           /\ UNCHANGED <<caches, sessions, clients, halfway>>
<1>1. a \in Procs /\ Shapes /\ frames[a] = <<>>
  BY AdminIs
<1>2. plan' = [plan EXCEPT ![a] = <<"patch">>] /\ GetSettings(a, <<>>, "set")
  BY DEF Patch
<1>3. plan'[a] = <<"patch">> /\ plan' = [plan EXCEPT ![a] = plan'[a]]
  BY <1>1, <1>2 DEF Shapes
<1>4. AskMoves(a, "set")
  BY <1>1, <1>2, <1>3, AdminAsks
<1> QED
  BY <1>3, <1>4 DEF Patch

\* A reload begins with an empty cache of get_settings.
LEMMA ReloadMoves ==
    ASSUME ThreadsInv, SingletonsAssumption, NEW a \in Admins, Reload(a)
    PROVE  /\ pc[a] = "idle" /\ Moves(a, "reread", <<>>, hold[a]) /\ plan'[a] = <<"reload">>
           /\ current' = 0
           /\ UNCHANGED <<settings, cell, session, sessions, clients, halfway>>
<1>1. a \in Procs /\ Shapes /\ frames[a] = <<>>
  BY AdminIs
<1>2. plan' = [plan EXCEPT ![a] = <<"reload">>] /\ Goto(a, "reread") /\ UNCHANGED <<frames, hold>>
  BY DEF Reload
<1>3. plan'[a] = <<"reload">> /\ plan' = [plan EXCEPT ![a] = plan'[a]]
  BY <1>1, <1>2 DEF Shapes
<1>4. Moves(a, "reread", <<>>, hold[a])
  BY <1>1, <1>2, <1>3 DEF Moves, Goto, Shapes
<1> QED
  BY <1>3, <1>4 DEF Reload

\* A reload then asks for the settings.
LEMMA RereadMoves ==
    ASSUME ThreadsInv, SingletonsAssumption, NEW a \in Admins, Reread(a)
    PROVE  /\ pc[a] = "reread" /\ AskMoves(a, "clear") /\ plan' = plan
           /\ UNCHANGED <<caches, sessions, clients, halfway>>
<1>1. a \in Procs /\ Shapes /\ frames[a] = <<>>
  BY AdminIs
<1>2. plan' = plan /\ GetSettings(a, <<>>, "clear")
  BY DEF Reread
<1>3. plan' = [plan EXCEPT ![a] = plan'[a]]
  BY <1>1, <1>2 DEF Shapes
<1>4. AskMoves(a, "clear")
  BY <1>1, <1>2, <1>3, AdminAsks
<1> QED
  BY <1>2, <1>4 DEF Reread, counts

\* A PATCH changes the object that it has.
LEMMA SetFieldsMoves ==
    ASSUME ThreadsInv, SingletonsAssumption, NEW a \in Admins, SetFields(a)
    PROVE  /\ pc[a] = "set" /\ Moves(a, "clear", <<>>, hold[a]) /\ plan' = plan
           /\ settings' = [settings EXCEPT ![hold[a].settings] = @ + 1]
           /\ UNCHANGED <<current, cell, session, sessions, clients, halfway>>
<1>1. a \in Procs /\ Shapes /\ frames[a] = <<>>
  BY AdminIs
<1>2. Moves(a, "clear", <<>>, hold[a])
  BY <1>1 DEF Moves, Goto, Shapes, SetFields
<1> QED
  BY <1>2 DEF SetFields, counts

\* When every cache is cleared, a reload drops the session as well.
LEMMA ResetSessionMoves ==
    ASSUME ThreadsInv, SingletonsAssumption, NEW a \in Admins, ResetSession(a)
    PROVE  /\ pc[a] = "clear" /\ hold[a].next > Len(Order) /\ Moves(a, "idle", <<>>, Empty)
           /\ session' = IF plan[a] = <<"reload">> THEN 0 ELSE session
           /\ UNCHANGED <<settings, current, cell, sessions, clients, halfway>>
<1>1. a \in Procs /\ Shapes
  BY AdminIs
<1>2. Moves(a, "idle", <<>>, Empty)
  BY <1>1, FinishMoves DEF ResetSession
<1> QED
  BY <1>2 DEF ResetSession, counts

\* Whoever cannot read .env ends, and leaves the lock that it holds.
LEMMA EnvRaisesMoves ==
    ASSUME ThreadsInv, SingletonsAssumption, NEW p \in Procs, EnvRaises(p)
    PROVE  /\ pc[p] = "read env" /\ Moves(p, "idle", <<>>, Empty)
           /\ sessions' = [i \in DOMAIN sessions |->
                              IF sessions[i].lock = p THEN [sessions[i] EXCEPT !.lock = Free] ELSE sessions[i]]
           /\ halfway' = (halfway \/ plan[p] = <<"reload">>)
           /\ UNCHANGED <<caches, clients>>
<1>1. Shapes
  BY DEF ThreadsInv, Shapes
<1>2. Moves(p, "idle", <<>>, Empty)
  BY <1>1, FinishMoves DEF EnvRaises
<1> QED
  BY <1>2 DEF EnvRaises

\* Whoever reads .env has its settings, a new object.
LEMMA NewSettingsMoves ==
    ASSUME ThreadsInv, SingletonsAssumption, NEW p \in Procs, NewSettings(p)
    PROVE  /\ pc[p] = "read env" /\ plan' = plan
           /\ settings' = Append(settings, 0)
           /\ current' = IF current = 0 THEN Len(settings') ELSE current
           /\ UNCHANGED <<cell, session, sessions, clients, halfway>>
           /\ \/ /\ frames[p] # <<>>
                 /\ Moves(p, "build", SetTop(frames[p], <<Len(settings'), 0>>), hold[p])
              \/ /\ frames[p] = <<>>
                 /\ \E l \in {"sign in", "set", "clear"} :
                       /\ IF p \in Workers THEN l = "sign in" ELSE l = IF plan[p] = <<"patch">> THEN "set" ELSE "clear"
                       /\ Moves(p, l, <<>>, [hold[p] EXCEPT !.settings = Len(settings')])
<1>1. Shapes
  BY DEF ThreadsInv, Shapes
<1>2. /\ pc[p] = "read env" /\ plan' = plan
      /\ settings' = Append(settings, 0)
      /\ current' = IF current = 0 THEN Len(settings') ELSE current
      /\ UNCHANGED <<cell, session, sessions, clients, halfway>>
  BY DEF NewSettings, counts
<1> DEFINE l == IF p \in Workers THEN "sign in" ELSE IF plan[p] = <<"patch">> THEN "set" ELSE "clear"
<1>3. WithSettings(p, Len(settings'), 0, frames[p], l)
  BY DEF NewSettings
<1> HIDE DEF l
<1>4. CASE frames[p] # <<>>
  <2>1. /\ frames' = [frames EXCEPT ![p] = SetTop(frames[p], <<Len(settings'), 0>>)]
        /\ Goto(p, "build") /\ hold' = hold
    BY <1>3, <1>4 DEF WithSettings, SetTop
  <2>2. Moves(p, "build", SetTop(frames[p], <<Len(settings'), 0>>), hold[p])
    BY <1>1, <1>2, <2>1 DEF Moves, Goto, Shapes
  <2> QED
    BY <1>2, <1>4, <2>2
<1>5. CASE frames[p] = <<>>
  <2>1. /\ hold' = [hold EXCEPT ![p].settings = Len(settings')] /\ Goto(p, l) /\ frames' = frames
    BY <1>3, <1>5 DEF WithSettings
  <2>2. Moves(p, l, <<>>, [hold[p] EXCEPT !.settings = Len(settings')])
    BY <1>1, <1>2, <1>5, <2>1 DEF Moves, Goto, Shapes
  <2>3. /\ l \in {"sign in", "set", "clear"}
        /\ IF p \in Workers THEN l = "sign in" ELSE l = IF plan[p] = <<"patch">> THEN "set" ELSE "clear"
    BY DEF l
  <2> QED
    BY <1>2, <1>5, <2>2, <2>3
<1> QED
  BY <1>4, <1>5

----------------------------------------------------------------------------
(* What a step puts in place.                                                 *)

SessionT == [login : Nat, lock : Procs \cup {Free}, logins : Nat]
ClientT == [spend : Nat, bill : Nat, exact : BOOLEAN]

\* Hands with one thing exchanged.
PutSession(h, x) == [h EXCEPT !.session = x]
PutClient(h, x) == [h EXCEPT !.client = x]
PutSettings(h, x) == [h EXCEPT !.settings = x]
PutSum(h, x) == [h EXCEPT !.sum = x]
PutNext(h, x) == [h EXCEPT !.next = x]

\* Hands with another session.
LEMMA SetSession ==
    ASSUME NEW h, NEW n \in Nat, NEW m \in Nat, NEW k \in Nat, Hands(h, n, m, k), NEW x, x \in 0 .. n
    PROVE  /\ Hands(PutSession(h, x), n, m, k)
           /\ PutSession(h, x).session = x
           /\ PutSession(h, x).client = h.client
           /\ PutSession(h, x).settings = h.settings
           /\ PutSession(h, x).sum = h.sum
           /\ PutSession(h, x).next = h.next
  BY DEF Hands, PutSession

\* Hands with another client.
LEMMA SetClient ==
    ASSUME NEW h, NEW n \in Nat, NEW m \in Nat, NEW k \in Nat, Hands(h, n, m, k), NEW x, x \in 0 .. m
    PROVE  /\ Hands(PutClient(h, x), n, m, k)
           /\ PutClient(h, x).session = h.session
           /\ PutClient(h, x).client = x
           /\ PutClient(h, x).settings = h.settings
           /\ PutClient(h, x).sum = h.sum
           /\ PutClient(h, x).next = h.next
  BY DEF Hands, PutClient

\* Hands with other settings.
LEMMA SetSettings ==
    ASSUME NEW h, NEW n \in Nat, NEW m \in Nat, NEW k \in Nat, Hands(h, n, m, k), NEW x, x \in 0 .. k
    PROVE  /\ Hands(PutSettings(h, x), n, m, k)
           /\ PutSettings(h, x).session = h.session
           /\ PutSettings(h, x).client = h.client
           /\ PutSettings(h, x).settings = x
           /\ PutSettings(h, x).sum = h.sum
           /\ PutSettings(h, x).next = h.next
  BY DEF Hands, PutSettings

\* Hands with another sum.
LEMMA SetSum ==
    ASSUME NEW h, NEW n \in Nat, NEW m \in Nat, NEW k \in Nat, Hands(h, n, m, k), NEW x
    PROVE  /\ Hands(PutSum(h, x), n, m, k)
           /\ PutSum(h, x).session = h.session
           /\ PutSum(h, x).client = h.client
           /\ PutSum(h, x).settings = h.settings
           /\ PutSum(h, x).sum = x
           /\ PutSum(h, x).next = h.next
  BY DEF Hands, PutSum

\* Hands of an admin that has cleared one cache more.
LEMMA SetNext ==
    ASSUME NEW h, NEW n \in Nat, NEW m \in Nat, NEW k \in Nat, Hands(h, n, m, k), NEW x
    PROVE  /\ Hands(PutNext(h, x), n, m, k)
           /\ PutNext(h, x).session = h.session
           /\ PutNext(h, x).client = h.client
           /\ PutNext(h, x).settings = h.settings
           /\ PutNext(h, x).sum = h.sum
           /\ PutNext(h, x).next = x
  BY DEF Hands, PutNext

\* What the types say of the settings, the sessions and the clients.
LEMMA StoresAre ==
    ASSUME StoresInv
    PROVE  /\ settings \in Seq(Nat) /\ current \in 0 .. Len(settings)
           /\ sessions \in Seq(SessionT) /\ session \in 0 .. Len(sessions)
           /\ clients \in Seq(ClientT) /\ halfway \in BOOLEAN
           /\ Len(settings) \in Nat /\ Len(sessions) \in Nat /\ Len(clients) \in Nat
           /\ DOMAIN settings = 1 .. Len(settings) /\ DOMAIN sessions = 1 .. Len(sessions)
           /\ DOMAIN clients = 1 .. Len(clients)
<1>1. settings \in Seq(Nat) /\ sessions \in Seq(SessionT) /\ clients \in Seq(ClientT)
  BY DEF StoresInv, SessionT, ClientT
<1> QED
  BY <1>1 DEF StoresInv

\* A step that makes nothing and leaves no frame.
LEMMA QuietStep ==
    ASSUME TypesInv, SingletonsAssumption, UNCHANGED <<caches, sessions, clients>>, halfway' \in BOOLEAN,
           NEW p \in Procs, NEW l, NEW h, Moves(p, l, <<>>, h),
           Hands(h, Len(sessions), Len(clients), Len(settings)),
           p \in Workers => l \in WorkerPlaces /\ (l = "charge" /\ h.client # 0 => h.sum \in Nat),
           p \in Admins => /\ l \in AdminPlaces /\ h.next \in 1 .. Len(Order) + 1
                           /\ l # "clear" => h.next = 1,
           l # "build"
    PROVE  TypesInv'
<1>1. UNCHANGED <<settings, current, cell, session>>
  BY DEF caches
<1>2. StoresInv'
  BY <1>1 DEF TypesInv, StoresInv
<1>3. Grows
  BY <1>1, GrowsNothing DEF TypesInv
<1> QED
  BY <1>1, <1>2, <1>3, PlainStepKept

\* A step whose thread goes idle.
LEMMA QuietEnd ==
    ASSUME TypesInv, SingletonsAssumption, UNCHANGED <<caches, sessions, clients>>, halfway' \in BOOLEAN,
           NEW p \in Procs, Moves(p, "idle", <<>>, Empty)
    PROVE  TypesInv'
<1>1. Hands(Empty, Len(sessions), Len(clients), Len(settings)) /\ Empty.next = 1
  BY EmptyHands, StoresAre DEF TypesInv
<1>2. "idle" \in WorkerPlaces /\ "idle" \in AdminPlaces
  BY DEF WorkerPlaces, AdminPlaces
<1> QED
  BY <1>1, <1>2, QuietStep, OrderShape

\* A step that changes sessions only.
LEMMA SessionsStep ==
    ASSUME TypesInv, SingletonsAssumption, UNCHANGED <<settings, current, cell, clients>>, halfway' \in BOOLEAN,
           sessions' \in Seq(SessionT), Len(sessions) <= Len(sessions'), session' \in 0 .. Len(sessions'),
           NEW p \in Procs, NEW l, NEW h, Moves(p, l, <<>>, h),
           Hands(h, Len(sessions'), Len(clients), Len(settings)),
           p \in Workers => l \in WorkerPlaces /\ l # "charge",
           p \in Admins => /\ l \in AdminPlaces /\ h.next \in 1 .. Len(Order) + 1
                           /\ l # "clear" => h.next = 1,
           l # "build"
    PROVE  TypesInv'
<1>1. StoresInv'
  BY DEF TypesInv, StoresInv, SessionT
<1>2. Grows
  <2>1. Len(sessions') \in Nat
    OBVIOUS
  <2> QED
    BY <2>1, StoresAre DEF Grows, TypesInv
<1> QED
  BY <1>1, <1>2, PlainStepKept

\* A step that changes what clients spent.
LEMMA ClientsStep ==
    ASSUME TypesInv, SingletonsAssumption, UNCHANGED <<caches, sessions, halfway>>,
           clients' \in Seq(ClientT), Len(clients') = Len(clients),
           NEW w \in Workers, NEW l \in WorkerPlaces, NEW h, Moves(w, l, <<>>, h),
           Hands(h, Len(sessions), Len(clients), Len(settings)),
           l = "charge" /\ h.client # 0 => h.sum \in Nat,
           l # "build"
    PROVE  TypesInv'
<1>1. UNCHANGED <<settings, current, cell, session>>
  BY DEF caches
<1>2. StoresInv'
  BY <1>1 DEF TypesInv, StoresInv, ClientT
<1>3. Grows
  BY <1>1, StoresAre DEF Grows, TypesInv
<1>4. w \in Procs /\ w \notin Admins
  BY WorkerIs DEF TypesInv
<1> QED
  BY <1>1, <1>2, <1>3, <1>4, PlainStepKept

\* The look at the cap keeps the types.
LEMMA CapMovesKept ==
    ASSUME TypesInv, SingletonsAssumption, UNCHANGED <<caches, sessions, halfway>>,
           clients' \in Seq(ClientT), Len(clients') = Len(clients),
           NEW w \in Workers, NEW spend, CapMoves(w, spend)
    PROVE  TypesInv'
<1>1. /\ Hands(Empty, Len(sessions), Len(clients), Len(settings))
      /\ Hands(hold[w], Len(sessions), Len(clients), Len(settings))
  BY EmptyHands, StoresAre, WorkerIs DEF TypesInv
<1>2. "idle" \in WorkerPlaces /\ "post" \in WorkerPlaces
  BY DEF WorkerPlaces, Calling
<1>3. CASE Moves(w, "idle", <<>>, Empty)
  BY <1>1, <1>2, <1>3, ClientsStep
<1>4. CASE Moves(w, "post", <<>>, hold[w])
  <2>1. PICK h : h = hold[w]
    OBVIOUS
  <2>2. Moves(w, "post", <<>>, h) /\ Hands(h, Len(sessions), Len(clients), Len(settings))
    BY <1>1, <1>4, <2>1
  <2> QED
    BY <1>2, <2>2, ClientsStep
<1> QED
  BY <1>3, <1>4 DEF CapMoves

\* A function on the first n numbers is a sequence.
LEMMA FunctionIsSequence ==
    ASSUME NEW S, NEW n \in Nat, NEW t \in [1 .. n -> S]
    PROVE  t \in Seq(S) /\ Len(t) = n /\ DOMAIN t = 1 .. n
  OBVIOUS

\* One element of a sequence set.
LEMMA ElementSet ==
    ASSUME NEW S, NEW s \in Seq(S), NEW c, NEW y, c \in DOMAIN s => y \in S
    PROVE  /\ [s EXCEPT ![c] = y] \in Seq(S) /\ Len([s EXCEPT ![c] = y]) = Len(s)
           /\ DOMAIN [s EXCEPT ![c] = y] = DOMAIN s
           /\ c \in DOMAIN s => [s EXCEPT ![c] = y][c] = y
           /\ \A i \in DOMAIN s : i # c => [s EXCEPT ![c] = y][i] = s[i]
<1>1. Len(s) \in Nat /\ s \in [1 .. Len(s) -> S] /\ DOMAIN s = 1 .. Len(s)
  OBVIOUS
<1> DEFINE t == [s EXCEPT ![c] = y]
<1>2. t \in [1 .. Len(s) -> S]
  BY <1>1
<1>3. /\ DOMAIN t = DOMAIN s
      /\ c \in DOMAIN s => t[c] = y
      /\ \A i \in DOMAIN s : i # c => t[i] = s[i]
  BY <1>1
<1> HIDE DEF t
<1>4. t \in Seq(S) /\ Len(t) = Len(s)
  BY <1>1, <1>2, FunctionIsSequence
<1> QED
  BY <1>3, <1>4 DEF t

\* The new values of a client.
Inexact(r, x) == [r EXCEPT !.exact = @ /\ x]
Spent(r, x) == [r EXCEPT !.spend = x]
Billed(r, x) == [r EXCEPT !.bill = @ + x]
Renewed(r) == [r EXCEPT !.spend = 0, !.bill = 0]

\* The fields of a client that a step has changed.
LEMMA ClientSet ==
    ASSUME NEW r \in ClientT
    PROVE  /\ r.spend \in Nat /\ r.bill \in Nat /\ r.exact \in BOOLEAN
           /\ \A x : Inexact(r, x) \in ClientT \/ x \notin BOOLEAN
           /\ \A x \in BOOLEAN : /\ Inexact(r, x).spend = r.spend /\ Inexact(r, x).bill = r.bill
                                 /\ Inexact(r, x).exact <=> r.exact /\ x
           /\ \A x \in Nat : /\ Spent(r, x) \in ClientT /\ Spent(r, x).spend = x
                             /\ Spent(r, x).bill = r.bill /\ Spent(r, x).exact = r.exact
           /\ \A x \in Nat : /\ Billed(r, x) \in ClientT /\ Billed(r, x).spend = r.spend
                             /\ Billed(r, x).bill = r.bill + x /\ Billed(r, x).exact = r.exact
           /\ Renewed(r) \in ClientT /\ Renewed(r).spend = 0 /\ Renewed(r).bill = 0
           /\ Renewed(r).exact = r.exact
<1>1. r.spend \in Nat /\ r.bill \in Nat /\ r.exact \in BOOLEAN
  BY DEF ClientT
<1>2. \A x : Inexact(r, x) \in ClientT \/ x \notin BOOLEAN
  BY DEF ClientT, Inexact
<1>3. \A x \in BOOLEAN : /\ Inexact(r, x).spend = r.spend /\ Inexact(r, x).bill = r.bill
                         /\ Inexact(r, x).exact <=> r.exact /\ x
  BY DEF ClientT, Inexact
<1>4. \A x \in Nat : /\ Spent(r, x) \in ClientT /\ Spent(r, x).spend = x
                     /\ Spent(r, x).bill = r.bill /\ Spent(r, x).exact = r.exact
  BY DEF ClientT, Spent
<1>5. \A x \in Nat : /\ Billed(r, x) \in ClientT /\ Billed(r, x).spend = r.spend
                     /\ Billed(r, x).bill = r.bill + x /\ Billed(r, x).exact = r.exact
  BY DEF ClientT, Billed
<1>6. /\ Renewed(r) \in ClientT /\ Renewed(r).spend = 0 /\ Renewed(r).bill = 0
      /\ Renewed(r).exact = r.exact
  BY DEF ClientT, Renewed
<1> QED
  BY <1>1, <1>2, <1>3, <1>4, <1>5, <1>6

\* A client that a step changes.
ClientTurns(c, y) ==
    /\ clients' = [clients EXCEPT ![c] = y]
    /\ clients' \in Seq(ClientT) /\ Len(clients') = Len(clients) /\ DOMAIN clients' = DOMAIN clients
    /\ c \in DOMAIN clients => clients'[c] = y
    /\ \A i \in DOMAIN clients : i # c => clients'[i] = clients[i]

\* The clients, when one of them changes.
LEMMA ClientTurned ==
    ASSUME StoresInv, NEW c, NEW y, c \in DOMAIN clients => y \in ClientT,
           clients' = [clients EXCEPT ![c] = y]
    PROVE  ClientTurns(c, y)
<1>1. clients \in Seq(ClientT)
  BY StoresAre
<1> QED
  BY <1>1, ElementSet DEF ClientTurns

\* The client of a call that begins.
LEMMA BeginCallClients ==
    ASSUME StoresInv, NEW c, NEW x \in BOOLEAN, clients' = [clients EXCEPT ![c].exact = @ /\ x]
    PROVE  ClientTurns(c, Inexact(clients[c], x))
<1>1. clients' = [clients EXCEPT ![c] = Inexact(clients[c], x)]
  BY DEF Inexact
<1>2. ASSUME c \in DOMAIN clients PROVE Inexact(clients[c], x) \in ClientT
  <2>1. clients[c] \in ClientT
    BY <1>2, StoresAre
  <2> QED
    BY <2>1, ClientSet
<1> QED
  BY <1>1, <1>2, ClientTurned

\* The client on a new day.
LEMMA ResetClients ==
    ASSUME StoresInv, NEW c, clients' = [clients EXCEPT ![c] = [@ EXCEPT !.spend = 0, !.bill = 0]]
    PROVE  ClientTurns(c, Renewed(clients[c]))
<1>1. clients' = [clients EXCEPT ![c] = Renewed(clients[c])]
  BY DEF Renewed
<1>2. ASSUME c \in DOMAIN clients PROVE Renewed(clients[c]) \in ClientT
  <2>1. clients[c] \in ClientT
    BY <1>2, StoresAre
  <2> QED
    BY <2>1, ClientSet
<1> QED
  BY <1>1, <1>2, ClientTurned

\* The client of a call that is answered.
LEMMA BillClients ==
    ASSUME StoresInv, NEW c, NEW x \in Nat, clients' = [clients EXCEPT ![c].bill = @ + x]
    PROVE  ClientTurns(c, Billed(clients[c], x))
<1>1. clients' = [clients EXCEPT ![c] = Billed(clients[c], x)]
  BY DEF Billed
<1>2. ASSUME c \in DOMAIN clients PROVE Billed(clients[c], x) \in ClientT
  <2>1. clients[c] \in ClientT
    BY <1>2, StoresAre
  <2> QED
    BY <2>1, ClientSet
<1> QED
  BY <1>1, <1>2, ClientTurned

\* The client of a call that is charged.
LEMMA SpendClients ==
    ASSUME StoresInv, NEW c, NEW x, c \in DOMAIN clients => x \in Nat, clients' = [clients EXCEPT ![c].spend = x]
    PROVE  ClientTurns(c, Spent(clients[c], x))
<1>1. clients' = [clients EXCEPT ![c] = Spent(clients[c], x)]
  BY DEF Spent
<1>2. ASSUME c \in DOMAIN clients PROVE Spent(clients[c], x) \in ClientT
  <2>1. clients[c] \in ClientT
    BY <1>2, StoresAre
  <2> QED
    BY <1>2, <2>1, ClientSet
<1> QED
  BY <1>1, <1>2, ClientTurned

\* BeginCall keeps the types.
LEMMA TypesBeginCall ==
    ASSUME TypesInv, SingletonsAssumption, NEW w \in Workers, BeginCall(w)
    PROVE  TypesInv'
<1>1. StoresInv /\ ThreadsInv
  BY DEF TypesInv
<1>2. /\ clients' = [clients EXCEPT ![hold[w].client].exact = @ /\ ~ Mate(w, hold[w].client)]
      /\ CapMoves(w, clients[hold[w].client].spend) \/ Moves(w, "new day", <<>>, hold[w])
      /\ UNCHANGED <<caches, sessions, halfway>>
  BY <1>1, BeginCallMoves
<1>3. clients' \in Seq(ClientT) /\ Len(clients') = Len(clients)
  <2>1. PICK c, x : c = hold[w].client /\ x = ~ Mate(w, c)
    OBVIOUS
  <2>2. x \in BOOLEAN /\ clients' = [clients EXCEPT ![c].exact = @ /\ x]
    BY <1>2, <2>1
  <2> QED
    BY <1>1, <2>2, BeginCallClients DEF ClientTurns
<1>4. CASE CapMoves(w, clients[hold[w].client].spend)
  <2>1. PICK x : x = clients[hold[w].client].spend
    OBVIOUS
  <2>2. CapMoves(w, x)
    BY <1>4, <2>1
  <2> QED
    BY <1>2, <1>3, <2>2, CapMovesKept
<1>5. CASE Moves(w, "new day", <<>>, hold[w])
  <2>1. PICK h : h = hold[w]
    OBVIOUS
  <2>2. Moves(w, "new day", <<>>, h) /\ Hands(h, Len(sessions), Len(clients), Len(settings))
    BY <1>1, <1>5, <2>1, WorkerIs
  <2>3. "new day" \in WorkerPlaces
    BY DEF WorkerPlaces, Calling
  <2> QED
    BY <1>2, <1>3, <2>2, <2>3, ClientsStep
<1> QED
  BY <1>2, <1>4, <1>5

\* ResetSpend keeps the types.
LEMMA TypesResetSpend ==
    ASSUME TypesInv, SingletonsAssumption, NEW w \in Workers, ResetSpend(w)
    PROVE  TypesInv'
<1>1. StoresInv /\ ThreadsInv
  BY DEF TypesInv
<1>2. /\ clients' = [clients EXCEPT ![hold[w].client] = [@ EXCEPT !.spend = 0, !.bill = 0]]
      /\ CapMoves(w, 0) /\ UNCHANGED <<caches, sessions, halfway>>
  BY <1>1, ResetSpendMoves
<1>3. clients' \in Seq(ClientT) /\ Len(clients') = Len(clients)
  <2>1. PICK c : c = hold[w].client
    OBVIOUS
  <2> QED
    BY <1>1, <1>2, <2>1, ResetClients DEF ClientTurns
<1> QED
  BY <1>2, <1>3, CapMovesKept

\* Answered keeps the types.
LEMMA TypesAnswered ==
    ASSUME TypesInv, SingletonsAssumption, NEW w \in Workers, Answered(w)
    PROVE  TypesInv'
<1>1. StoresInv /\ ThreadsInv
  BY DEF TypesInv
<1>2. UNCHANGED <<caches, sessions, halfway>>
  BY <1>1, AnsweredMoves
<1>3. PICK cost \in Costs :
         /\ clients' = [clients EXCEPT ![hold[w].client].bill = @ + cost]
         /\ Moves(w, "charge", <<>>, [hold[w] EXCEPT !.sum = clients[hold[w].client].spend + cost])
  BY <1>1, AnsweredMoves
<1>4. cost \in Nat
  BY DEF SingletonsAssumption
<1>5. PICK c : c = hold[w].client
  OBVIOUS
<1>6. clients' \in Seq(ClientT) /\ Len(clients') = Len(clients)
  BY <1>1, <1>3, <1>4, <1>5, BillClients DEF ClientTurns
<1>7. PICK h, x : x = clients[c].spend + cost /\ h = [hold[w] EXCEPT !.sum = x]
  OBVIOUS
<1>8. Hands(hold[w], Len(sessions), Len(clients), Len(settings))
  BY <1>1, WorkerIs
<1>9. Hands(h, Len(sessions), Len(clients), Len(settings)) /\ h.sum = x /\ h.client = c
  <2>1. PICK g : g = hold[w]
    OBVIOUS
  <2> QED
    <3>1. PICK n, m, k : n = Len(sessions) /\ m = Len(clients) /\ k = Len(settings)
      OBVIOUS
    <3>2. n \in Nat /\ m \in Nat /\ k \in Nat /\ Hands(g, n, m, k)
      BY <1>1, <1>8, <2>1, <3>1, StoresAre
    <3>3. h = PutSum(g, x)
      BY <1>7, <2>1 DEF PutSum
    <3>4. Hands(h, n, m, k) /\ h.sum = x /\ h.client = g.client
      BY <3>2, <3>3, SetSum
    <3> QED
      BY <1>5, <2>1, <3>1, <3>4
<1>10. h.client # 0 => h.sum \in Nat
  <2> SUFFICES ASSUME c # 0 PROVE x \in Nat
    BY <1>9
  <2>1. c \in DOMAIN clients
    BY <1>1, <1>5, <1>8, StoresAre DEF Hands
  <2>2. clients[c] \in ClientT
    BY <1>1, <2>1, StoresAre
  <2>3. clients[c].spend \in Nat
    BY <2>2, ClientSet
  <2> QED
    BY <1>4, <1>7, <2>3
<1>11. "charge" \in WorkerPlaces
  BY DEF WorkerPlaces, Calling
<1>12. Moves(w, "charge", <<>>, h)
  BY <1>3, <1>5, <1>7
<1> QED
  BY <1>2, <1>6, <1>9, <1>10, <1>11, <1>12, ClientsStep

\* CallFails keeps the types.
LEMMA TypesCallFails ==
    ASSUME TypesInv, SingletonsAssumption, NEW w \in Workers, CallFails(w)
    PROVE  TypesInv'
<1>1. StoresInv /\ ThreadsInv
  BY DEF TypesInv
<1>2. Moves(w, "idle", <<>>, Empty) /\ UNCHANGED <<caches, sessions, halfway>>
  BY <1>1, CallFailsMoves
<1>3. PICK billed \in BOOLEAN : clients' = [clients EXCEPT ![hold[w].client].exact = @ /\ ~ billed]
  BY <1>1, CallFailsMoves
<1>4. clients' \in Seq(ClientT) /\ Len(clients') = Len(clients)
  <2>1. PICK c, x : c = hold[w].client /\ x = ~ billed
    OBVIOUS
  <2>2. x \in BOOLEAN /\ clients' = [clients EXCEPT ![c].exact = @ /\ x]
    BY <1>3, <2>1
  <2> QED
    BY <1>1, <2>2, BeginCallClients DEF ClientTurns
<1>5. CapMoves(w, 0)
  BY <1>2 DEF CapMoves
<1> QED
  BY <1>2, <1>4, <1>5, CapMovesKept

\* Charge keeps the types.
LEMMA TypesCharge ==
    ASSUME TypesInv, SingletonsAssumption, NEW w \in Workers, Charge(w)
    PROVE  TypesInv'
<1>1. StoresInv /\ ThreadsInv
  BY DEF TypesInv
<1>2. /\ pc[w] = "charge" /\ Moves(w, "idle", <<>>, Empty) /\ UNCHANGED <<caches, sessions, halfway>>
      /\ clients' = [clients EXCEPT ![hold[w].client].spend = hold[w].sum]
  BY <1>1, ChargeMoves
<1>3. clients' \in Seq(ClientT) /\ Len(clients') = Len(clients)
  <2>1. PICK c, x : c = hold[w].client /\ x = hold[w].sum
    OBVIOUS
  <2>2. c \in DOMAIN clients => c # 0
    BY <1>1, StoresAre
  <2>3. c # 0 => x \in Nat
    BY <1>1, <1>2, <2>1 DEF ThreadsInv
  <2> QED
    BY <1>1, <1>2, <2>1, <2>2, <2>3, SpendClients DEF ClientTurns
<1>4. CapMoves(w, 0)
  BY <1>2 DEF CapMoves
<1> QED
  BY <1>2, <1>3, <1>4, CapMovesKept

\* A session that a step changes.
SessionTurns(i, y) ==
    /\ sessions' = [sessions EXCEPT ![i] = y]
    /\ sessions' \in Seq(SessionT) /\ Len(sessions') = Len(sessions) /\ DOMAIN sessions' = DOMAIN sessions
    /\ i \in DOMAIN sessions => sessions'[i] = y
    /\ \A j \in DOMAIN sessions : j # i => sessions'[j] = sessions[j]

PutLock(r, x) == [r EXCEPT !.lock = x]
Signed(r, x) == [login |-> x, lock |-> Free, logins |-> r.logins + 1]

\* The fields of a session that a step has changed.
LEMMA SessionSet ==
    ASSUME NEW r \in SessionT
    PROVE  /\ r.login \in Nat /\ r.logins \in Nat /\ r.lock \in Procs \cup {Free}
           /\ \A x \in Procs \cup {Free} : /\ PutLock(r, x) \in SessionT /\ PutLock(r, x).lock = x
                                           /\ PutLock(r, x).login = r.login /\ PutLock(r, x).logins = r.logins
           /\ \A x \in Nat : /\ Signed(r, x) \in SessionT /\ Signed(r, x).lock = Free
                             /\ Signed(r, x).login = x /\ Signed(r, x).logins = r.logins + 1
<1>1. r.login \in Nat /\ r.logins \in Nat /\ r.lock \in Procs \cup {Free}
  BY DEF SessionT
<1>2. \A x \in Procs \cup {Free} : /\ PutLock(r, x) \in SessionT /\ PutLock(r, x).lock = x
                                   /\ PutLock(r, x).login = r.login /\ PutLock(r, x).logins = r.logins
  BY DEF SessionT, PutLock
<1>3. \A x \in Nat : /\ Signed(r, x) \in SessionT /\ Signed(r, x).lock = Free
                     /\ Signed(r, x).login = x /\ Signed(r, x).logins = r.logins + 1
  BY DEF SessionT, Signed
<1> QED
  BY <1>1, <1>2, <1>3

\* The sessions, when one of them changes.
LEMMA SessionTurned ==
    ASSUME StoresInv, NEW i, NEW y, i \in DOMAIN sessions => y \in SessionT,
           sessions' = [sessions EXCEPT ![i] = y]
    PROVE  SessionTurns(i, y)
<1>1. sessions \in Seq(SessionT)
  BY StoresAre
<1> QED
  BY <1>1, ElementSet DEF SessionTurns

\* The session whose lock is taken or left.
LEMMA LockTurns ==
    ASSUME StoresInv, NEW i, NEW x \in Procs \cup {Free}, sessions' = [sessions EXCEPT ![i].lock = x]
    PROVE  SessionTurns(i, PutLock(sessions[i], x))
<1>1. sessions' = [sessions EXCEPT ![i] = PutLock(sessions[i], x)]
  BY DEF PutLock
<1>2. ASSUME i \in DOMAIN sessions PROVE PutLock(sessions[i], x) \in SessionT
  <2>1. sessions[i] \in SessionT
    BY <1>2, StoresAre
  <2> QED
    BY <2>1, SessionSet
<1> QED
  BY <1>1, <1>2, SessionTurned

\* The session that is signed in.
LEMMA SignTurns ==
    ASSUME StoresInv, NEW i, NEW x \in Nat,
           sessions' = [sessions EXCEPT ![i] = [login |-> x, lock |-> Free, logins |-> @.logins + 1]]
    PROVE  SessionTurns(i, Signed(sessions[i], x))
<1>1. sessions' = [sessions EXCEPT ![i] = Signed(sessions[i], x)]
  BY DEF Signed
<1>2. ASSUME i \in DOMAIN sessions PROVE Signed(sessions[i], x) \in SessionT
  <2>1. sessions[i] \in SessionT
    BY <1>2, StoresAre
  <2> QED
    BY <2>1, SessionSet
<1> QED
  BY <1>1, <1>2, SessionTurned

\* Whoever raises leaves the lock that it holds.
LEMMA Unlocked ==
    ASSUME StoresInv, NEW p,
           sessions' = [i \in DOMAIN sessions |->
                           IF sessions[i].lock = p THEN [sessions[i] EXCEPT !.lock = Free] ELSE sessions[i]]
    PROVE  /\ sessions' \in Seq(SessionT) /\ Len(sessions') = Len(sessions) /\ DOMAIN sessions' = DOMAIN sessions
           /\ \A i \in DOMAIN sessions :
                 sessions'[i] = IF sessions[i].lock = p THEN PutLock(sessions[i], Free) ELSE sessions[i]
<1>1. /\ sessions \in Seq(SessionT) /\ Len(sessions) \in Nat /\ DOMAIN sessions = 1 .. Len(sessions)
  BY StoresAre
<1>2. \A i \in DOMAIN sessions :
         sessions'[i] = IF sessions[i].lock = p THEN PutLock(sessions[i], Free) ELSE sessions[i]
  BY DEF PutLock
<1>3. ASSUME NEW i \in DOMAIN sessions PROVE sessions'[i] \in SessionT
  <2>1. sessions[i] \in SessionT
    BY <1>1
  <2>2. PutLock(sessions[i], Free) \in SessionT
    BY <2>1, SessionSet
  <2> QED
    BY <1>2, <2>1, <2>2
<1>4. sessions' \in [1 .. Len(sessions) -> SessionT]
  <2>1. DOMAIN sessions' = 1 .. Len(sessions) /\ sessions' = [i \in DOMAIN sessions |-> sessions'[i]]
    BY <1>1
  <2> QED
    BY <1>1, <1>3, <2>1
<1>5. sessions' \in Seq(SessionT) /\ Len(sessions') = Len(sessions) /\ DOMAIN sessions' = 1 .. Len(sessions)
  <2>1. PICK t : t = sessions'
    OBVIOUS
  <2> QED
    BY <1>1, <1>4, <2>1, FunctionIsSequence
<1> QED
  BY <1>1, <1>2, <1>5

\* Request keeps the types.
LEMMA TypesRequest ==
    ASSUME TypesInv, SingletonsAssumption, NEW w \in Workers, Request(w)
    PROVE  TypesInv'
<1>1. StoresInv /\ ThreadsInv
  BY DEF TypesInv
<1>2. w \in Procs /\ w \notin Admins /\ Hands(hold[w], Len(sessions), Len(clients), Len(settings))
  BY <1>1, WorkerIs
<1>3. PICK h : h = hold[w]
  OBVIOUS
<1>4. Moves(w, "task", <<>>, h) /\ UNCHANGED <<caches, sessions, clients, halfway>>
  BY <1>1, <1>3, RequestMoves
<1>5. halfway' \in BOOLEAN
  BY <1>1, <1>4, StoresAre
<1>6. "task" \in WorkerPlaces
  BY DEF WorkerPlaces
<1> QED
  BY <1>2, <1>3, <1>4, <1>5, <1>6, QuietStep

\* BrokerRaises keeps the types.
LEMMA TypesBrokerRaises ==
    ASSUME TypesInv, SingletonsAssumption, NEW w \in Workers, BrokerRaises(w)
    PROVE  TypesInv'
<1>1. StoresInv /\ ThreadsInv
  BY DEF TypesInv
<1>2. w \in Procs
  BY <1>1, WorkerIs
<1>3. Moves(w, "idle", <<>>, Empty) /\ UNCHANGED <<caches, sessions, clients, halfway>>
  BY <1>1, BrokerRaisesMoves
<1>4. halfway' \in BOOLEAN
  BY <1>1, <1>3, StoresAre
<1> QED
  BY <1>2, <1>3, <1>4, QuietEnd

\* TakeSession keeps the types.
LEMMA TypesTakeSession ==
    ASSUME TypesInv, SingletonsAssumption, NEW w \in Workers, TakeSession(w)
    PROVE  TypesInv'
<1>1. StoresInv /\ ThreadsInv
  BY DEF TypesInv
<1>2. w \in Procs /\ w \notin Admins /\ Hands(hold[w], Len(sessions), Len(clients), Len(settings))
  BY <1>1, WorkerIs
<1>3. UNCHANGED <<settings, current, cell, session, clients, halfway>>
  BY <1>1, TakeSessionMoves DEF caches
<1>4. halfway' \in BOOLEAN /\ Len(sessions) \in Nat /\ Len(clients) \in Nat /\ Len(settings) \in Nat
      /\ session \in 0 .. Len(sessions) /\ sessions \in Seq(SessionT)
  BY <1>1, <1>3, StoresAre
<1>5. "task" \in WorkerPlaces /\ "cache session" \in WorkerPlaces
  BY DEF WorkerPlaces
<1>6. PICK g : g = hold[w]
  OBVIOUS
<1>7. PICK n, m, k : n = Len(sessions) /\ m = Len(clients) /\ k = Len(settings)
  OBVIOUS
<1>8. n \in Nat /\ m \in Nat /\ k \in Nat /\ Hands(g, n, m, k)
  BY <1>2, <1>4, <1>6, <1>7
<1>9. CASE session # 0 /\ sessions' = sessions /\ Moves(w, "task", <<>>, [hold[w] EXCEPT !.session = session])
  <2>1. PICK x : x = session
    OBVIOUS
  <2>2. Hands(PutSession(g, x), n, m, k)
    BY <1>4, <1>7, <1>8, <2>1, SetSession
  <2>3. Moves(w, "task", <<>>, PutSession(g, x))
    BY <1>6, <1>9, <2>1 DEF PutSession
  <2>4. /\ sessions' \in Seq(SessionT) /\ Len(sessions) <= Len(sessions')
        /\ session' \in 0 .. Len(sessions') /\ Len(sessions') = n
    BY <1>3, <1>4, <1>7, <1>9
  <2>5. PICK h : h = PutSession(g, x)
    OBVIOUS
  <2>6. Moves(w, "task", <<>>, h) /\ Hands(h, Len(sessions'), Len(clients), Len(settings))
    BY <1>7, <2>2, <2>3, <2>4, <2>5
  <2> QED
    BY <1>2, <1>3, <1>4, <1>5, <2>4, <2>6, SessionsStep
<1>10. CASE /\ session = 0 /\ sessions' = Append(sessions, [login |-> 0, lock |-> Free, logins |-> 0])
            /\ Moves(w, "cache session", <<>>, [hold[w] EXCEPT !.session = Len(sessions')])
  <2>1. [login |-> 0, lock |-> Free, logins |-> 0] \in SessionT
    BY DEF SessionT
  <2>2. sessions' \in Seq(SessionT) /\ Len(sessions') = n + 1
    <3>1. PICK e : e = [login |-> 0, lock |-> Free, logins |-> 0]
      OBVIOUS
    <3>2. e \in SessionT /\ sessions' = Append(sessions, e)
      BY <1>10, <2>1, <3>1
    <3> QED
      BY <1>4, <1>7, <3>2
  <2>3. PICK x : x = Len(sessions')
    OBVIOUS
  <2>4. Hands(g, x, m, k) /\ x \in Nat
    BY <1>8, <2>2, <2>3, HandsGrow
  <2>5. Hands(PutSession(g, x), x, m, k)
    BY <1>8, <2>4, SetSession
  <2>6. Moves(w, "cache session", <<>>, PutSession(g, x))
    BY <1>6, <1>10, <2>3 DEF PutSession
  <2>7. Len(sessions) <= Len(sessions') /\ session' \in 0 .. Len(sessions')
    BY <1>3, <1>4, <1>7, <2>2
  <2> QED
    BY <1>2, <1>3, <1>4, <1>5, <1>7, <2>2, <2>3, <2>5, <2>6, <2>7, SessionsStep
<1> QED
  BY <1>1, <1>9, <1>10, TakeSessionMoves

\* CacheSession keeps the types.
LEMMA TypesCacheSession ==
    ASSUME TypesInv, SingletonsAssumption, NEW w \in Workers, CacheSession(w)
    PROVE  TypesInv'
<1>1. StoresInv /\ ThreadsInv
  BY DEF TypesInv
<1>2. w \in Procs /\ w \notin Admins /\ Hands(hold[w], Len(sessions), Len(clients), Len(settings))
  BY <1>1, WorkerIs
<1>3. PICK h : h = hold[w]
  OBVIOUS
<1>4. /\ Moves(w, "task", <<>>, h) /\ UNCHANGED <<settings, current, cell, sessions, clients, halfway>>
      /\ session' = IF session = 0 THEN hold[w].session ELSE session
  BY <1>1, <1>3, CacheSessionMoves
<1>5. halfway' \in BOOLEAN /\ session' \in 0 .. Len(sessions) /\ sessions' \in Seq(SessionT) /\ Len(sessions) \in Nat
  BY <1>1, <1>2, <1>4, StoresAre DEF Hands
<1>6. "task" \in WorkerPlaces
  BY DEF WorkerPlaces
<1> QED
  BY <1>2, <1>3, <1>4, <1>5, <1>6, SessionsStep

\* LoggedIn keeps the types.
LEMMA TypesLoggedIn ==
    ASSUME TypesInv, SingletonsAssumption, NEW w \in Workers, LoggedIn(w)
    PROVE  TypesInv'
<1>1. StoresInv /\ ThreadsInv
  BY DEF TypesInv
<1>2. w \in Procs /\ w \notin Admins /\ Hands(hold[w], Len(sessions), Len(clients), Len(settings))
  BY <1>1, WorkerIs
<1>3. UNCHANGED <<caches, sessions, clients, halfway>>
  BY <1>1, LoggedInMoves
<1>4. PICK h : h = hold[w]
  OBVIOUS
<1>5. Moves(w, "idle", <<>>, Empty) \/ \E l \in {"task", "lock"} : Moves(w, l, <<>>, h)
  BY <1>1, <1>4, LoggedInMoves
<1>6. halfway' \in BOOLEAN
  BY <1>1, <1>3, StoresAre
<1>7. "task" \in WorkerPlaces /\ "lock" \in WorkerPlaces
  BY DEF WorkerPlaces
<1>8. CASE Moves(w, "idle", <<>>, Empty)
  BY <1>2, <1>3, <1>6, <1>8, QuietEnd
<1>9. CASE \E l \in {"task", "lock"} : Moves(w, l, <<>>, h)
  BY <1>2, <1>3, <1>4, <1>6, <1>7, <1>9, QuietStep
<1> QED
  BY <1>5, <1>8, <1>9

\* LockLogin keeps the types.
LEMMA TypesLockLogin ==
    ASSUME TypesInv, SingletonsAssumption, NEW w \in Workers, LockLogin(w)
    PROVE  TypesInv'
<1>1. StoresInv /\ ThreadsInv
  BY DEF TypesInv
<1>2. w \in Procs /\ w \notin Admins /\ Hands(hold[w], Len(sessions), Len(clients), Len(settings))
  BY <1>1, WorkerIs
<1>3. UNCHANGED <<settings, current, cell, session, clients, halfway>> /\ UNCHANGED <<caches, clients, halfway>>
  BY <1>1, LockLoginMoves DEF caches
<1>4. PICK g : g = hold[w]
  OBVIOUS
<1>5. halfway' \in BOOLEAN /\ Len(sessions) \in Nat /\ Len(clients) \in Nat /\ Len(settings) \in Nat
      /\ session \in 0 .. Len(sessions) /\ current \in 0 .. Len(settings)
  BY <1>1, <1>3, StoresAre
<1>6. "task" \in WorkerPlaces /\ "sign in" \in WorkerPlaces /\ "read env" \in WorkerPlaces
  BY DEF WorkerPlaces
<1>7. CASE /\ sessions' = sessions
           /\ \E l \in {"idle", "task"} : Moves(w, l, <<>>, IF l = "idle" THEN Empty ELSE hold[w])
  <2>1. CASE Moves(w, "idle", <<>>, Empty)
    BY <1>2, <1>3, <1>5, <1>7, <2>1, QuietEnd
  <2>2. CASE Moves(w, "task", <<>>, g)
    BY <1>2, <1>3, <1>4, <1>5, <1>6, <1>7, <2>2, QuietStep
  <2> QED
    BY <1>4, <1>7, <2>1, <2>2
<1>8. CASE /\ sessions' = [sessions EXCEPT ![hold[w].session].lock = w]
           /\ \/ current # 0 /\ Moves(w, "sign in", <<>>, [hold[w] EXCEPT !.settings = current])
              \/ current = 0 /\ Moves(w, "read env", <<>>, hold[w])
  <2>1. sessions' \in Seq(SessionT) /\ Len(sessions') = Len(sessions)
    <3>1. PICK i : i = hold[w].session
      OBVIOUS
    <3> QED
      BY <1>1, <1>2, <1>8, <3>1, LockTurns DEF SessionTurns
  <2>4. Len(sessions) <= Len(sessions') /\ session' \in 0 .. Len(sessions') /\ halfway' \in BOOLEAN
    BY <1>3, <1>5, <2>1
  <2>2. CASE Moves(w, "sign in", <<>>, [hold[w] EXCEPT !.settings = current])
    <3>1. PICK x : x = current
      OBVIOUS
    <3>2. PICK n, m, k : n = Len(sessions) /\ m = Len(clients) /\ k = Len(settings)
      OBVIOUS
    <3>3. n \in Nat /\ m \in Nat /\ k \in Nat /\ Hands(g, n, m, k) /\ x \in 0 .. k
      BY <1>2, <1>4, <1>5, <3>1, <3>2
    <3>4. Hands(PutSettings(g, x), n, m, k)
      BY <3>3, SetSettings
    <3>5. Moves(w, "sign in", <<>>, PutSettings(g, x))
      BY <1>4, <2>2, <3>1 DEF PutSettings
    <3>6. PICK h : h = PutSettings(g, x)
      OBVIOUS
    <3>7. Moves(w, "sign in", <<>>, h) /\ Hands(h, Len(sessions'), Len(clients), Len(settings))
      BY <2>1, <3>2, <3>4, <3>5, <3>6
    <3> QED
      BY <1>2, <1>3, <1>6, <2>1, <2>4, <3>7, SessionsStep
  <2>3. CASE Moves(w, "read env", <<>>, hold[w])
    <3>1. Moves(w, "read env", <<>>, g) /\ Hands(g, Len(sessions'), Len(clients), Len(settings))
      BY <1>2, <1>4, <2>1, <2>3
    <3> QED
      BY <1>2, <1>3, <1>6, <2>1, <2>4, <3>1, SessionsStep
  <2> QED
    BY <1>8, <2>2, <2>3
<1> QED
  BY <1>1, <1>7, <1>8, LockLoginMoves

\* SignIn keeps the types.
LEMMA TypesSignIn ==
    ASSUME TypesInv, SingletonsAssumption, NEW w \in Workers, SignIn(w)
    PROVE  TypesInv'
<1>1. StoresInv /\ ThreadsInv
  BY DEF TypesInv
<1>2. w \in Procs /\ w \notin Admins /\ Hands(hold[w], Len(sessions), Len(clients), Len(settings))
  BY <1>1, WorkerIs
<1>3. /\ UNCHANGED <<settings, current, cell, session, clients, halfway>>
      /\ sessions' = [sessions EXCEPT ![hold[w].session] =
                              [login |-> hold[w].settings, lock |-> Free, logins |-> @.logins + 1]]
  BY <1>1, SignInMoves DEF caches
<1>4. PICK g : g = hold[w]
  OBVIOUS
<1>5. halfway' \in BOOLEAN /\ Len(sessions) \in Nat /\ Len(clients) \in Nat /\ Len(settings) \in Nat
      /\ session \in 0 .. Len(sessions)
  BY <1>1, <1>3, StoresAre
<1>6. sessions' \in Seq(SessionT) /\ Len(sessions') = Len(sessions)
  <2>1. PICK i, x : i = hold[w].session /\ x = hold[w].settings
    OBVIOUS
  <2>2. x \in Nat /\ sessions' = [sessions EXCEPT ![i] = [login |-> x, lock |-> Free, logins |-> @.logins + 1]]
    BY <1>2, <1>3, <1>5, <2>1 DEF Hands
  <2> QED
    BY <1>1, <2>2, SignTurns DEF SessionTurns
<1>7. "idle" \in WorkerPlaces /\ "task" \in WorkerPlaces
  BY DEF WorkerPlaces
<1>8. PICK n, m, k : n = Len(sessions) /\ m = Len(clients) /\ k = Len(settings)
  OBVIOUS
<1>9. n \in Nat /\ m \in Nat /\ k \in Nat /\ Hands(g, n, m, k)
  BY <1>2, <1>4, <1>5, <1>8
<1>10. Hands(PutSettings(g, 0), n, m, k) /\ Hands(Empty, n, m, k)
  <2>1. 0 \in 0 .. k
    BY <1>9
  <2> QED
    BY <1>9, <2>1, SetSettings, EmptyHands
<1>11. Moves(w, "idle", <<>>, Empty) \/ Moves(w, "task", <<>>, PutSettings(g, 0))
  BY <1>1, <1>4, SignInMoves DEF PutSettings
<1>12. CASE Moves(w, "idle", <<>>, Empty)
  BY <1>2, <1>3, <1>5, <1>6, <1>7, <1>8, <1>10, <1>12, SessionsStep
<1>13. CASE Moves(w, "task", <<>>, PutSettings(g, 0))
  BY <1>2, <1>3, <1>5, <1>6, <1>7, <1>8, <1>10, <1>13, SessionsStep
<1> QED
  BY <1>11, <1>12, <1>13

\* LoginFails keeps the types.
LEMMA TypesLoginFails ==
    ASSUME TypesInv, SingletonsAssumption, NEW w \in Workers, LoginFails(w)
    PROVE  TypesInv'
<1>1. StoresInv /\ ThreadsInv
  BY DEF TypesInv
<1>2. w \in Procs /\ w \notin Admins
  BY <1>1, WorkerIs
<1>3. /\ UNCHANGED <<settings, current, cell, session, clients, halfway>> /\ Moves(w, "idle", <<>>, Empty)
      /\ sessions' = [sessions EXCEPT ![hold[w].session].lock = Free]
  BY <1>1, LoginFailsMoves DEF caches
<1>4. halfway' \in BOOLEAN /\ Len(sessions) \in Nat /\ Len(clients) \in Nat /\ Len(settings) \in Nat
      /\ session \in 0 .. Len(sessions)
  BY <1>1, <1>3, StoresAre
<1>5. sessions' \in Seq(SessionT) /\ Len(sessions') = Len(sessions)
  <2>1. PICK i : i = hold[w].session
    OBVIOUS
  <2> QED
    BY <1>1, <1>3, <2>1, LockTurns DEF SessionTurns
<1>6. "idle" \in WorkerPlaces /\ Hands(Empty, Len(sessions'), Len(clients), Len(settings))
  BY <1>4, <1>5, EmptyHands DEF WorkerPlaces
<1> QED
  BY <1>2, <1>3, <1>4, <1>5, <1>6, SessionsStep

\* EnvRaises keeps the types.
LEMMA TypesEnvRaises ==
    ASSUME TypesInv, SingletonsAssumption, NEW p \in Procs, EnvRaises(p)
    PROVE  TypesInv'
<1>1. StoresInv /\ ThreadsInv
  BY DEF TypesInv
<1>2. /\ UNCHANGED <<settings, current, cell, session, clients>> /\ Moves(p, "idle", <<>>, Empty)
      /\ sessions' = [i \in DOMAIN sessions |->
                              IF sessions[i].lock = p THEN [sessions[i] EXCEPT !.lock = Free] ELSE sessions[i]]
  BY <1>1, EnvRaisesMoves DEF caches
<1>3. halfway' \in BOOLEAN
  BY <1>1, EnvRaisesMoves, StoresAre
<1>4. Len(sessions) \in Nat /\ Len(clients) \in Nat /\ Len(settings) \in Nat /\ session \in 0 .. Len(sessions)
  BY <1>1, <1>2, StoresAre
<1>5. sessions' \in Seq(SessionT) /\ Len(sessions') = Len(sessions)
  BY <1>1, <1>2, Unlocked
<1>6. "idle" \in WorkerPlaces /\ "idle" \in AdminPlaces /\ Hands(Empty, Len(sessions'), Len(clients), Len(settings))
  BY <1>4, <1>5, EmptyHands DEF WorkerPlaces, AdminPlaces
<1>7. Empty.next \in 1 .. Len(Order) + 1 /\ Empty.next = 1
  BY EmptyHands, OrderShape
<1> QED
  BY <1>2, <1>3, <1>4, <1>5, <1>6, <1>7, SessionsStep

\* A step that changes the settings and leaves no frame.
LEMMA SettingsStep ==
    ASSUME TypesInv, SingletonsAssumption, UNCHANGED <<cell, session, sessions, clients, halfway>>,
           settings' \in Seq(Nat), Len(settings) <= Len(settings'), current' \in 0 .. Len(settings'),
           NEW p \in Procs, NEW l, NEW h, Moves(p, l, <<>>, h),
           Hands(h, Len(sessions), Len(clients), Len(settings')),
           p \in Workers => l \in WorkerPlaces /\ l # "charge",
           p \in Admins => /\ l \in AdminPlaces /\ h.next \in 1 .. Len(Order) + 1
                           /\ l # "clear" => h.next = 1,
           l # "build"
    PROVE  TypesInv'
<1>1. StoresInv'
  BY DEF TypesInv, StoresInv
<1>2. Grows
  <2>1. Len(settings') \in Nat
    OBVIOUS
  <2> QED
    BY <2>1, StoresAre DEF Grows, TypesInv
<1> QED
  BY <1>1, <1>2, PlainStepKept

\* An admin that asks for the settings keeps the types.
LEMMA AskMovesKept ==
    ASSUME TypesInv, SingletonsAssumption, UNCHANGED <<caches, sessions, clients, halfway>>,
           NEW a \in Admins, NEW l \in AdminPlaces, AskMoves(a, l), hold[a].next = 1
    PROVE  TypesInv'
<1>1. StoresInv /\ ThreadsInv
  BY DEF TypesInv
<1>2. a \in Procs /\ a \notin Workers /\ Hands(hold[a], Len(sessions), Len(clients), Len(settings))
  BY <1>1, AdminIs
<1>3. halfway' \in BOOLEAN /\ Len(sessions) \in Nat /\ Len(clients) \in Nat /\ Len(settings) \in Nat
      /\ current \in 0 .. Len(settings)
  BY <1>1, StoresAre
<1>4. PICK g : g = hold[a]
  OBVIOUS
<1>5. 1 \in 1 .. Len(Order) + 1 /\ "read env" \in AdminPlaces /\ l # "build"
  <2>1. l \in AdminPlaces
    OBVIOUS
  <2>2. l # "build"
    BY <2>1 DEF AdminPlaces
  <2>3. "read env" \in AdminPlaces
    BY DEF AdminPlaces
  <2>4. 1 \in 1 .. Len(Order) + 1
    BY OrderShape
  <2> QED
    BY <2>2, <2>3, <2>4
<1>6. CASE Moves(a, l, <<>>, [hold[a] EXCEPT !.settings = current])
  <2>1. PICK x : x = current
    OBVIOUS
  <2>2. PICK n, m, k : n = Len(sessions) /\ m = Len(clients) /\ k = Len(settings)
    OBVIOUS
  <2>3. n \in Nat /\ m \in Nat /\ k \in Nat /\ Hands(g, n, m, k) /\ x \in 0 .. k
    BY <1>2, <1>3, <1>4, <2>1, <2>2
  <2>4. Hands(PutSettings(g, x), n, m, k) /\ PutSettings(g, x).next = g.next
    BY <2>3, SetSettings
  <2>5. PICK h : h = PutSettings(g, x)
    OBVIOUS
  <2>6. Moves(a, l, <<>>, h)
    BY <1>4, <1>6, <2>1, <2>5 DEF PutSettings
  <2>7. Hands(h, Len(sessions), Len(clients), Len(settings)) /\ h.next = 1
    BY <1>4, <2>2, <2>4, <2>5
  <2> QED
    BY <1>2, <1>3, <1>5, <2>6, <2>7, QuietStep
<1>7. CASE Moves(a, "read env", <<>>, hold[a])
  <2>1. Moves(a, "read env", <<>>, g) /\ Hands(g, Len(sessions), Len(clients), Len(settings)) /\ g.next = 1
    BY <1>2, <1>4, <1>7
  <2> QED
    BY <1>2, <1>3, <1>5, <2>1, QuietStep
<1> QED
  BY <1>6, <1>7 DEF AskMoves

\* Patch keeps the types.
LEMMA TypesPatch ==
    ASSUME TypesInv, SingletonsAssumption, NEW a \in Admins, Patch(a)
    PROVE  TypesInv'
<1>1. ThreadsInv
  BY DEF TypesInv
<1>2. /\ pc[a] = "idle" /\ AskMoves(a, "set")
      /\ UNCHANGED <<caches, sessions, clients, halfway>>
  BY <1>1, PatchMoves
<1>3. hold[a].next = 1 /\ "set" \in AdminPlaces
  BY <1>1, <1>2, AdminIs DEF AdminPlaces
<1> QED
  BY <1>2, <1>3, AskMovesKept

\* Reread keeps the types.
LEMMA TypesReread ==
    ASSUME TypesInv, SingletonsAssumption, NEW a \in Admins, Reread(a)
    PROVE  TypesInv'
<1>1. ThreadsInv
  BY DEF TypesInv
<1>2. /\ pc[a] = "reread" /\ AskMoves(a, "clear")
      /\ UNCHANGED <<caches, sessions, clients, halfway>>
  BY <1>1, RereadMoves
<1>3. hold[a].next = 1 /\ "clear" \in AdminPlaces
  BY <1>1, <1>2, AdminIs DEF AdminPlaces
<1> QED
  BY <1>2, <1>3, AskMovesKept

\* Reload keeps the types.
LEMMA TypesReload ==
    ASSUME TypesInv, SingletonsAssumption, NEW a \in Admins, Reload(a)
    PROVE  TypesInv'
<1>1. StoresInv /\ ThreadsInv
  BY DEF TypesInv
<1>2. PICK h : h = hold[a]
  OBVIOUS
<1>3. /\ pc[a] = "idle" /\ Moves(a, "reread", <<>>, h) /\ current' = 0
      /\ settings' = settings /\ UNCHANGED <<cell, session, sessions, clients, halfway>>
  BY <1>1, <1>2, ReloadMoves
<1>4. a \in Procs /\ a \notin Workers /\ Hands(h, Len(sessions), Len(clients), Len(settings)) /\ h.next = 1
  BY <1>1, <1>2, <1>3, AdminIs
<1>5. 1 \in 1 .. Len(Order) + 1 /\ "reread" \in AdminPlaces
  BY OrderShape DEF AdminPlaces
<1>6. /\ settings' \in Seq(Nat) /\ Len(settings) <= Len(settings') /\ current' \in 0 .. Len(settings')
      /\ Len(settings') = Len(settings)
  BY <1>1, <1>3, StoresAre
<1> QED
  BY <1>3, <1>4, <1>5, <1>6, SettingsStep

\* SetFields keeps the types.
LEMMA TypesSetFields ==
    ASSUME TypesInv, SingletonsAssumption, NEW a \in Admins, SetFields(a)
    PROVE  TypesInv'
<1>1. StoresInv /\ ThreadsInv
  BY DEF TypesInv
<1>2. PICK h : h = hold[a]
  OBVIOUS
<1>3. /\ pc[a] = "set" /\ Moves(a, "clear", <<>>, h) /\ current' = current
      /\ settings' = [settings EXCEPT ![hold[a].settings] = @ + 1]
      /\ UNCHANGED <<cell, session, sessions, clients, halfway>>
  BY <1>1, <1>2, SetFieldsMoves
<1>4. a \in Procs /\ a \notin Workers /\ Hands(h, Len(sessions), Len(clients), Len(settings)) /\ h.next = 1
  BY <1>1, <1>2, <1>3, AdminIs
<1>5. 1 \in 1 .. Len(Order) + 1 /\ "clear" \in AdminPlaces
  BY OrderShape DEF AdminPlaces
<1>6. settings' \in Seq(Nat) /\ Len(settings') = Len(settings)
  <2>1. PICK i, y : i = hold[a].settings /\ y = settings[i] + 1
    OBVIOUS
  <2>2. settings' = [settings EXCEPT ![i] = y]
    BY <1>3, <2>1
  <2>3. settings \in Seq(Nat)
    BY <1>1, StoresAre
  <2>4. i \in DOMAIN settings => y \in Nat
    BY <2>1, <2>3
  <2> QED
    BY <2>2, <2>3, <2>4, ElementSet
<1>7. Len(settings) <= Len(settings') /\ current' \in 0 .. Len(settings')
  BY <1>1, <1>3, <1>6, StoresAre
<1> QED
  BY <1>3, <1>4, <1>5, <1>6, <1>7, SettingsStep

\* ResetSession keeps the types.
LEMMA TypesResetSession ==
    ASSUME TypesInv, SingletonsAssumption, NEW a \in Admins, ResetSession(a)
    PROVE  TypesInv'
<1>1. StoresInv /\ ThreadsInv
  BY DEF TypesInv
<1>2. /\ Moves(a, "idle", <<>>, Empty)
      /\ session' = IF plan[a] = <<"reload">> THEN 0 ELSE session
      /\ UNCHANGED <<settings, current, cell, sessions, clients, halfway>>
  BY <1>1, ResetSessionMoves
<1>3. a \in Procs /\ a \notin Workers
  BY <1>1, AdminIs
<1>4. /\ Hands(Empty, Len(sessions), Len(clients), Len(settings)) /\ Empty.next = 1 /\ Empty.next \in 1 .. Len(Order) + 1
      /\ "idle" \in AdminPlaces
  BY <1>1, EmptyHands, StoresAre, OrderShape DEF AdminPlaces
<1>5. /\ sessions' \in Seq(SessionT) /\ Len(sessions') = Len(sessions) /\ Len(sessions) <= Len(sessions')
      /\ session' \in 0 .. Len(sessions') /\ halfway' \in BOOLEAN
  BY <1>1, <1>2, StoresAre
<1> QED
  BY <1>2, <1>3, <1>4, <1>5, SessionsStep

MarkLate(f, c) == [f EXCEPT !.late = @ \/ f.of = c]

\* A frame of the builder that is cleared is late; the rest of it stays.
LEMMA MarkedLate ==
    ASSUME NEW f \in Frames, NEW c
    PROVE  /\ MarkLate(f, c) \in Frames /\ MarkLate(f, c).of = f.of /\ MarkLate(f, c).seen = f.seen
           /\ MarkLate(f, c).parts = f.parts /\ (MarkLate(f, c).late <=> f.late \/ f.of = c)
<1> HIDE DEF Marks, PartMaps
<1> QED
  BY DEF MarkLate, Frames

\* What the clearing of a cache does.
LEMMA ClearMoves ==
    ASSUME ThreadsInv, SingletonsAssumption, NEW a \in Admins, ClearCell(a)
    PROVE  /\ pc[a] = "clear" /\ hold[a].next <= Len(Order) /\ pc' = pc /\ plan' = plan
           /\ hold' = [hold EXCEPT ![a] = PutNext(hold[a], hold[a].next + 1)]
           /\ cell' = [d \in Cached |-> IF d = Order[hold[a].next] THEN {} ELSE cell[d]]
           /\ frames' \in [Procs -> Seq(Frames)]
           /\ \A p \in Procs : /\ Len(frames'[p]) = Len(frames[p]) /\ DOMAIN frames'[p] = DOMAIN frames[p]
                               /\ \A i \in DOMAIN frames[p] : frames'[p][i] = MarkLate(frames[p][i], Order[hold[a].next])
           /\ UNCHANGED <<settings, current, session, sessions, clients, halfway>>
<1>1. /\ pc[a] = "clear" /\ hold[a].next <= Len(Order) /\ pc' = pc /\ plan' = plan
      /\ cell' = [d \in Cached |-> IF d = Order[hold[a].next] THEN {} ELSE cell[d]]
      /\ UNCHANGED <<settings, current, session, sessions, clients, halfway>>
  BY DEF ClearCell, counts
<1>2. hold' = [hold EXCEPT ![a] = PutNext(hold[a], hold[a].next + 1)]
  BY DEF ClearCell, PutNext
<1>3. PICK c : c = Order[hold[a].next]
  OBVIOUS
<1>4. frames' = [p \in Procs |-> [i \in DOMAIN frames[p] |-> MarkLate(frames[p][i], c)]]
  BY <1>3 DEF ClearCell, MarkLate
<1>5. frames \in [Procs -> Seq(Frames)]
  BY DEF ThreadsInv
<1>6. ASSUME NEW p \in Procs
      PROVE  /\ frames'[p] \in Seq(Frames)
             /\ Len(frames'[p]) = Len(frames[p]) /\ DOMAIN frames'[p] = DOMAIN frames[p]
             /\ \A i \in DOMAIN frames[p] : frames'[p][i] = MarkLate(frames[p][i], c)
  <2>1. PICK s, t : s = frames[p] /\ t = frames'[p]
    OBVIOUS
  <2>2. s \in Seq(Frames)
    BY <1>5, <2>1
  <2>3. t = [i \in DOMAIN s |-> MarkLate(s[i], c)]
    BY <1>4, <2>1
  <2>4. Len(s) \in Nat /\ DOMAIN s = 1 .. Len(s) /\ \A i \in DOMAIN s : s[i] \in Frames
    BY <2>2
  <2>5. \A i \in DOMAIN s : MarkLate(s[i], c) \in Frames
    BY <2>4, MarkedLate
  <2>6. t \in [1 .. Len(s) -> Frames]
    BY <2>3, <2>4, <2>5
  <2>7. t \in Seq(Frames) /\ Len(t) = Len(s) /\ DOMAIN t = 1 .. Len(s)
    BY <2>4, <2>6, FunctionIsSequence
  <2>8. \A i \in DOMAIN s : t[i] = MarkLate(s[i], c)
    BY <2>3
  <2> QED
    BY <2>1, <2>4, <2>7, <2>8
<1>7. frames' \in [Procs -> Seq(Frames)]
  <2>1. frames' = [p \in Procs |-> frames'[p]]
    BY <1>4
  <2> QED
    BY <1>6, <2>1
<1> QED
  BY <1>1, <1>2, <1>3, <1>6, <1>7

\* ClearCell keeps the types.
LEMMA TypesClearCell ==
    ASSUME TypesInv, SingletonsAssumption, NEW a \in Admins, ClearCell(a)
    PROVE  TypesInv'
<1>1. StoresInv /\ ThreadsInv /\ FramesInv /\ CellsInv
  BY DEF TypesInv
<1>2. /\ pc[a] = "clear" /\ hold[a].next <= Len(Order) /\ pc' = pc /\ plan' = plan
      /\ hold' = [hold EXCEPT ![a] = PutNext(hold[a], hold[a].next + 1)]
      /\ cell' = [d \in Cached |-> IF d = Order[hold[a].next] THEN {} ELSE cell[d]]
      /\ frames' \in [Procs -> Seq(Frames)]
      /\ UNCHANGED <<settings, current, session, sessions, clients, halfway>>
  BY <1>1, ClearMoves
<1>3. \A p \in Procs : /\ Len(frames'[p]) = Len(frames[p]) /\ DOMAIN frames'[p] = DOMAIN frames[p]
                       /\ \A i \in DOMAIN frames[p] : frames'[p][i] = MarkLate(frames[p][i], Order[hold[a].next])
  BY <1>1, ClearMoves
<1>4. StoresInv'
  BY <1>1, <1>2 DEF StoresInv
<1>5. /\ a \in Procs /\ a \notin Workers /\ Hands(hold[a], Len(sessions), Len(clients), Len(settings))
      /\ hold[a].next \in 1 .. Len(Order) + 1
  BY <1>1, AdminIs
<1>6. Len(sessions) \in Nat /\ Len(clients) \in Nat /\ Len(settings) \in Nat
  BY <1>1, StoresAre
<1>7. PICK h : h = PutNext(hold[a], hold[a].next + 1)
  OBVIOUS
<1>8. Hands(h, Len(sessions), Len(clients), Len(settings)) /\ h.next = hold[a].next + 1 /\ h.client = hold[a].client
  <2>1. PICK g, x : g = hold[a] /\ x = g.next + 1
    OBVIOUS
  <2>2. PICK n, m, k : n = Len(sessions) /\ m = Len(clients) /\ k = Len(settings)
    OBVIOUS
  <2>3. n \in Nat /\ m \in Nat /\ k \in Nat /\ Hands(g, n, m, k)
    BY <1>5, <1>6, <2>1, <2>2
  <2>4. Hands(PutNext(g, x), n, m, k) /\ PutNext(g, x).next = x /\ PutNext(g, x).client = g.client
    BY <2>3, SetNext
  <2> QED
    BY <1>7, <2>1, <2>2, <2>4
<1>9. /\ hold' = [p \in Procs |-> hold'[p]] /\ hold'[a] = h /\ \A p \in Procs : p # a => hold'[p] = hold[p]
  <2>1. hold = [p \in Procs |-> hold[p]] /\ hold' = [hold EXCEPT ![a] = h]
    BY <1>1, <1>2, <1>7 DEF ThreadsInv
  <2> QED
    BY <1>5, <2>1
<1>10. \A p \in Procs : frames'[p] = <<>> <=> frames[p] = <<>>
  <2> TAKE p \in Procs
  <2>1. frames[p] \in Seq(Frames) /\ frames'[p] \in Seq(Frames) /\ Len(frames'[p]) = Len(frames[p])
    BY <1>1, <1>2, <1>3 DEF ThreadsInv
  <2> QED
    BY <2>1
<1>11. ThreadsInv'
  <2>1. /\ pc' \in [Procs -> WorkerPlaces \cup AdminPlaces] /\ plan' = [p \in Procs |-> plan'[p]]
    BY <1>1, <1>2 DEF ThreadsInv
  <2>2. \A p \in Procs : Hands(hold'[p], Len(sessions'), Len(clients'), Len(settings'))
    BY <1>1, <1>2, <1>8, <1>9 DEF ThreadsInv
  <2>3. \A w \in Workers : pc'[w] = "charge" /\ hold'[w].client # 0 => hold'[w].sum \in Nat
    <3>1. \A w \in Workers : hold'[w] = hold[w]
      BY <1>5, <1>9 DEF Procs
    <3> QED
      BY <1>1, <1>2, <3>1 DEF ThreadsInv
  <2>4. /\ \A w \in Workers : pc'[w] \in WorkerPlaces
        /\ \A b \in Admins : pc'[b] \in AdminPlaces
    BY <1>1, <1>2 DEF ThreadsInv
  <2>5. /\ \A p \in Procs : pc'[p] = "build" => frames'[p] # <<>>
        /\ \A p \in Procs : pc'[p] \notin {"build", "read env"} => frames'[p] = <<>>
        /\ \A b \in Admins : frames'[b] = <<>>
    BY <1>1, <1>2, <1>10 DEF ThreadsInv, Procs
  <2>6. \A b \in Admins : hold'[b].next \in 1 .. Len(Order) + 1 /\ (pc'[b] # "clear" => hold'[b].next = 1)
    <3> TAKE b \in Admins
    <3>1. CASE b = a
      BY <1>2, <1>5, <1>8, <1>9, <3>1, OrderShape
    <3>2. CASE b # a
      BY <1>1, <1>2, <1>9, <3>2 DEF ThreadsInv, Procs
    <3> QED
      BY <3>1, <3>2
  <2> QED
    BY <1>2, <1>9, <2>1, <2>2, <2>3, <2>4, <2>5, <2>6 DEF ThreadsInv
<1>12. FramesInv'
  <2> SUFFICES ASSUME NEW w \in Workers
               PROVE  FramesGood(frames'[w], pc'[w], Len(clients'), Len(settings'))
    BY DEF FramesInv
  <2>1. PICK s, t, c : s = frames[w] /\ t = frames'[w] /\ c = Order[hold[a].next]
    OBVIOUS
  <2>2. s \in Seq(Frames) /\ w \in Procs
    BY <1>1, <2>1, WorkerIs
  <2>3. t \in Seq(Frames) /\ Len(t) = Len(s) /\ DOMAIN t = DOMAIN s /\ \A i \in DOMAIN s : t[i] = MarkLate(s[i], c)
    BY <1>2, <1>3, <2>1, <2>2
  <2>4. \A i \in DOMAIN s : t[i].of = s[i].of /\ t[i].seen = s[i].seen /\ t[i].parts = s[i].parts
    <3> TAKE i \in DOMAIN s
    <3>1. s[i] \in Frames
      BY <2>2
    <3> QED
      BY <2>3, <3>1, MarkedLate
  <2>5. FramesGood(s, pc[w], Len(clients), Len(settings))
    BY <1>1, <2>1 DEF FramesInv
  <2>6. Stacked(t)
    <3>1. Stacked(s)
      BY <2>5 DEF FramesGood
    <3>2. CASE s = <<>>
      BY <2>2, <2>3, <3>2 DEF Stacked
    <3>3. CASE Len(s) = 1
      BY <2>3, <3>3 DEF Stacked
    <3>4. CASE /\ Len(s) = 2
               /\ s[2].of \in Base /\ s[1].of \notin Base
               /\ \E k \in DOMAIN Builders[s[1].of] : s[2].of = Builders[s[1].of][k]
      <4>1. t[1].of = s[1].of /\ t[2].of = s[2].of /\ Len(t) = 2
        BY <2>2, <2>3, <2>4, <3>4
      <4> QED
        BY <3>4, <4>1 DEF Stacked
    <3> QED
      BY <3>1, <3>2, <3>3, <3>4 DEF Stacked
  <2>7. ASSUME NEW i \in DOMAIN t
        PROVE  /\ Filled(t[i].of, t[i], Len(clients), Len(settings))
               /\ IF pc[w] = "read env" /\ i = Len(t) THEN t[i].seen = <<0, 0>> ELSE Seen(t[i])
    <3>1. /\ Filled(s[i].of, s[i], Len(clients), Len(settings))
          /\ IF pc[w] = "read env" /\ i = Len(s) THEN s[i].seen = <<0, 0>> ELSE Seen(s[i])
      BY <2>3, <2>5, <2>7 DEF FramesGood
    <3>2. t[i].of = s[i].of /\ t[i].seen = s[i].seen /\ t[i].parts = s[i].parts
      BY <2>3, <2>4, <2>7
    <3>3. Filled(t[i].of, t[i], Len(clients), Len(settings))
      BY <3>1, <3>2 DEF Filled
    <3> QED
      BY <2>3, <3>1, <3>2, <3>3 DEF Seen
  <2>8. FramesGood(t, pc[w], Len(clients), Len(settings))
    BY <2>6, <2>7 DEF FramesGood
  <2> QED
    BY <1>2, <2>1, <2>8
<1>13. CellsInv'
  <2>1. \A d \in Cached : cell'[d] = {} \/ cell'[d] = cell[d]
    BY <1>2
  <2>2. cell' \in [Cached -> SUBSET Products]
    <3>1. cell' = [d \in Cached |-> cell'[d]]
      BY <1>2
    <3> HIDE DEF Products
    <3> QED
      BY <1>1, <2>1, <3>1 DEF CellsInv
  <2> QED
    BY <1>1, <1>2, <2>1, <2>2 DEF CellsInv
<1> QED
  BY <1>4, <1>11, <1>12, <1>13 DEF TypesInv

\* A frame that has got its settings.
LEMMA SetSeenIs ==
    ASSUME NEW f \in Frames, NEW x \in Marks
    PROVE  /\ SetSeen(f, x) \in Frames /\ SetSeen(f, x).of = f.of /\ SetSeen(f, x).seen = x
           /\ SetSeen(f, x).parts = f.parts /\ SetSeen(f, x).late = f.late
<1> HIDE DEF Marks, PartMaps
<1> QED
  BY DEF SetSeen, Frames

\* A stack whose innermost builder has got its settings.
LEMMA SetTopIs ==
    ASSUME NEW s \in Seq(Frames), s # <<>>, NEW x \in Marks
    PROVE  /\ SetTop(s, x) \in Seq(Frames) /\ Len(SetTop(s, x)) = Len(s) /\ DOMAIN SetTop(s, x) = DOMAIN s
           /\ SetTop(s, x)[Len(s)] = SetSeen(s[Len(s)], x)
           /\ \A i \in DOMAIN s : i # Len(s) => SetTop(s, x)[i] = s[i]
<1>1. Len(s) \in DOMAIN s
  BY SequenceIs
<1>2. PICK n, y : n = Len(s) /\ y = SetSeen(s[n], x)
  OBVIOUS
<1>3. SetTop(s, x) = [s EXCEPT ![n] = y]
  BY <1>2 DEF SetTop, SetSeen
<1>4. y \in Frames
  BY <1>1, <1>2, SetSeenIs
<1>5. /\ [s EXCEPT ![n] = y] \in Seq(Frames) /\ Len([s EXCEPT ![n] = y]) = Len(s)
      /\ DOMAIN [s EXCEPT ![n] = y] = DOMAIN s
      /\ n \in DOMAIN s => [s EXCEPT ![n] = y][n] = y
      /\ \A i \in DOMAIN s : i # n => [s EXCEPT ![n] = y][i] = s[i]
  BY <1>4, ElementSet
<1> QED
  BY <1>1, <1>2, <1>3, <1>5

AtEnv == "read env"
AtBuild == "build"

\* Such a stack is good when the settings are the ones just made.
LEMMA SetTopGood ==
    ASSUME NEW s \in Seq(Frames), s # <<>>, NEW m \in Nat, NEW k \in Nat, NEW n \in Nat, k <= n, n # 0,
           FramesGood(s, AtEnv, m, k)
    PROVE  /\ FramesGood(SetTop(s, <<n, 0>>), AtBuild, m, n)
           /\ SetTop(s, <<n, 0>>) \in Seq(Frames) /\ SetTop(s, <<n, 0>>) # <<>>
<1>1. PICK x : x = <<n, 0>>
  OBVIOUS
<1>2. x \in Marks /\ x[1] = n
  BY <1>1 DEF Marks
<1>3. PICK t : t = SetTop(s, x)
  OBVIOUS
<1>4. /\ t \in Seq(Frames) /\ Len(t) = Len(s) /\ DOMAIN t = DOMAIN s
      /\ t[Len(s)] = SetSeen(s[Len(s)], x)
      /\ \A i \in DOMAIN s : i # Len(s) => t[i] = s[i]
  BY <1>2, <1>3, SetTopIs
<1>5. Len(s) \in DOMAIN s /\ \A i \in DOMAIN s : s[i] \in Frames
  BY SequenceIs
<1>6. /\ t[Len(s)].of = s[Len(s)].of /\ t[Len(s)].seen = x /\ t[Len(s)].parts = s[Len(s)].parts
  BY <1>2, <1>4, <1>5, SetSeenIs
<1>7. \A i \in DOMAIN s : t[i].of = s[i].of
  BY <1>4, <1>6
<1>8. FramesGood(s, AtEnv, m, n)
  BY FramesGrow
<1>9. Stacked(t)
  <2>1. Stacked(s)
    BY <1>8 DEF FramesGood
  <2>2. CASE Len(s) = 1
    BY <1>4, <2>2 DEF Stacked
  <2>3. CASE /\ Len(s) = 2
             /\ s[2].of \in Base /\ s[1].of \notin Base
             /\ \E j \in DOMAIN Builders[s[1].of] : s[2].of = Builders[s[1].of][j]
    <3>1. t[1].of = s[1].of /\ t[2].of = s[2].of /\ Len(t) = 2
      BY <1>4, <1>7, <2>3
    <3> QED
      BY <2>3, <3>1 DEF Stacked
  <2> QED
    BY <2>1, <2>2, <2>3 DEF Stacked
<1>10. ASSUME NEW i \in DOMAIN t
       PROVE  Filled(t[i].of, t[i], m, n) /\ Seen(t[i])
  <2>1. /\ Filled(s[i].of, s[i], m, n)
        /\ IF i = Len(s) THEN s[i].seen = <<0, 0>> ELSE Seen(s[i])
    BY <1>4, <1>8 DEF FramesGood, AtEnv
  <2>2. CASE i = Len(s)
    BY <1>2, <1>6, <2>1, <2>2 DEF Filled, Seen
  <2>3. CASE i # Len(s)
    BY <1>4, <2>1, <2>3
  <2> QED
    BY <2>2, <2>3
<1>11. FramesGood(t, AtBuild, m, n)
  BY <1>9, <1>10 DEF FramesGood, AtBuild
<1>12. t # <<>>
  BY <1>4, <1>5
<1> QED
  BY <1>1, <1>3, <1>4, <1>11, <1>12

\* NewSettings keeps the types.
LEMMA TypesNewSettings ==
    ASSUME TypesInv, SingletonsAssumption, NEW p \in Procs, NewSettings(p)
    PROVE  TypesInv'
<1>1. StoresInv /\ ThreadsInv /\ FramesInv
  BY DEF TypesInv
<1>2. /\ pc[p] = "read env" /\ settings' = Append(settings, 0)
      /\ current' = IF current = 0 THEN Len(settings') ELSE current
      /\ UNCHANGED <<cell, session, sessions, clients, halfway>>
  BY <1>1, NewSettingsMoves
<1>a. /\ settings' = Append(settings, 0)
      /\ current' = IF current = 0 THEN Len(settings') ELSE current
      /\ UNCHANGED <<cell, session, sessions, clients, halfway>>
  BY <1>2
<1>3. settings \in Seq(Nat) /\ current \in 0 .. Len(settings) /\ Len(settings) \in Nat /\ Len(sessions) \in Nat
      /\ Len(clients) \in Nat
  BY <1>1, StoresAre
<1>4. /\ settings' \in Seq(Nat) /\ Len(settings') = Len(settings) + 1
      /\ Len(settings) <= Len(settings') /\ current' \in 0 .. Len(settings')
  BY <1>3, <1>a
<1>5. PICK ns, ms, ks, kk : ns = Len(sessions) /\ ms = Len(clients) /\ ks = Len(settings) /\ kk = Len(settings')
  OBVIOUS
<1>6. ns \in Nat /\ ms \in Nat /\ ks \in Nat /\ kk = ks + 1 /\ kk \in Nat /\ ks <= kk /\ kk # 0
  BY <1>3, <1>4, <1>5
<1>7. PICK g, s : g = hold[p] /\ s = frames[p]
  OBVIOUS
<1>8. s \in Seq(Frames) /\ Hands(g, ns, ms, ks)
  BY <1>1, <1>5, <1>7 DEF ThreadsInv
<1>9. Hands(g, ns, ms, kk)
  BY <1>6, <1>8, HandsGrow
<1>10. CASE frames[p] # <<>> /\ Moves(p, "build", SetTop(frames[p], <<Len(settings'), 0>>), hold[p])
  <2>1. p \notin Admins
    BY <1>1, <1>10 DEF ThreadsInv
  <2>2. p \in Workers
    BY <2>1 DEF Procs
  <2>3. FramesGood(s, "read env", ms, ks)
    BY <1>1, <1>2, <1>5, <1>7, <2>2 DEF FramesInv
  <2>4. PICK fs : fs = SetTop(s, <<kk, 0>>)
    OBVIOUS
  <2>5. FramesGood(fs, "build", ms, kk) /\ fs \in Seq(Frames) /\ fs # <<>>
    BY <1>6, <1>7, <1>8, <1>10, <2>3, <2>4, SetTopGood DEF AtEnv, AtBuild
  <2>6. Moves(p, "build", fs, g)
    BY <1>5, <1>7, <1>10, <2>4
  <2>7. StoresInv' /\ Grows
    BY <1>1, <1>3, <1>4, <1>a DEF StoresInv, Grows
  <2>8. "build" \in WorkerPlaces
    BY DEF WorkerPlaces
  <2>9. ThreadsInv' /\ FramesInv'
    <3>1. Hands(g, Len(sessions'), Len(clients'), Len(settings'))
      BY <1>2, <1>5, <1>9
    <3>2. FramesGood(fs, "build", Len(clients'), Len(settings'))
      BY <1>2, <1>5, <2>5
    <3> QED
      BY <1>1, <2>1, <2>5, <2>6, <2>7, <2>8, <3>1, <3>2, MoveKept
  <2>10. CellsInv'
    BY <1>2, <2>7, CellsKept DEF TypesInv
  <2> QED
    BY <2>7, <2>9, <2>10 DEF TypesInv
<1>11. CASE \E l \in {"sign in", "set", "clear"} :
               /\ IF p \in Workers THEN l = "sign in" ELSE l = IF plan[p] = <<"patch">> THEN "set" ELSE "clear"
               /\ Moves(p, l, <<>>, [hold[p] EXCEPT !.settings = Len(settings')])
  <2>1. PICK l :
               /\ l \in {"sign in", "set", "clear"}
               /\ IF p \in Workers THEN l = "sign in" ELSE l = IF plan[p] = <<"patch">> THEN "set" ELSE "clear"
               /\ Moves(p, l, <<>>, [hold[p] EXCEPT !.settings = Len(settings')])
    BY <1>11
  <2>2. kk \in 0 .. kk
    BY <1>6
  <2>3. Hands(PutSettings(g, kk), ns, ms, kk) /\ PutSettings(g, kk).next = g.next
    BY <1>6, <1>9, <2>2, SetSettings
  <2>4. PICK h : h = PutSettings(g, kk)
    OBVIOUS
  <2>5. Moves(p, l, <<>>, h)
    BY <1>5, <1>7, <2>1, <2>4 DEF PutSettings
  <2>6. Hands(h, Len(sessions), Len(clients), Len(settings')) /\ h.next = g.next
    BY <1>5, <2>3, <2>4
  <2>7. p \in Workers => l \in WorkerPlaces /\ l # "charge"
    BY <2>1 DEF WorkerPlaces
  <2>8. p \in Admins => l \in AdminPlaces /\ g.next = 1
    <3>1. p \in Admins => p \notin Workers /\ hold[p].next = 1
      BY <1>1, <1>2, AdminIs
    <3>2. p \in Admins => l \in {"set", "clear"}
      BY <2>1, <3>1
    <3> QED
      BY <1>7, <3>1, <3>2 DEF AdminPlaces
  <2>9. 1 \in 1 .. Len(Order) + 1
    BY OrderShape
  <2>10. l # "build"
    BY <2>1
  <2> QED
    BY <1>2, <1>4, <2>5, <2>6, <2>7, <2>8, <2>9, <2>10, SettingsStep
<1> QED
  BY <1>1, <1>10, <1>11, NewSettingsMoves

----------------------------------------------------------------------------
(* The builders.                                                              *)

\* What place a stack's last frame must fit.
Fits(place, f) == IF place = "read env" THEN f.seen = <<0, 0>> ELSE Seen(f)

\* The frames of a builder's stack that asks for c.
Asks(s, c) ==
    \/ s = <<>>
    \/ /\ Len(s) = 1 /\ c \in Base /\ s[1].of \notin Base
       /\ \E j \in DOMAIN Builders[s[1].of] : c = Builders[s[1].of][j]

\* A stack with one frame more.
LEMMA AppendIs ==
    ASSUME NEW s \in Seq(Frames), NEW f \in Frames
    PROVE  /\ Append(s, f) \in Seq(Frames) /\ Len(Append(s, f)) = Len(s) + 1 /\ Append(s, f) # <<>>
           /\ Append(s, f)[Len(s) + 1] = f /\ Len(s) \in Nat
           /\ \A i \in DOMAIN s : Append(s, f)[i] = s[i]
           /\ DOMAIN Append(s, f) = DOMAIN s \cup {Len(s) + 1}
<1>1. Append(s, f) \in Seq(Frames) /\ Len(Append(s, f)) = Len(s) + 1 /\ Len(s) \in Nat
      /\ Append(s, f)[Len(s) + 1] = f /\ \A i \in 1 .. Len(s) : Append(s, f)[i] = s[i]
  OBVIOUS
<1>2. DOMAIN s = 1 .. Len(s) /\ DOMAIN Append(s, f) = 1 .. Len(s) + 1
  BY <1>1, SequenceIs
<1>3. Append(s, f) # <<>>
  BY <1>1
<1>4. 1 .. Len(s) + 1 = 1 .. Len(s) \cup {Len(s) + 1}
  BY <1>1
<1> QED
  BY <1>1, <1>2, <1>3, <1>4

\* A stack is good by its shape and frame by frame.
LEMMA FramesGoodIs ==
    ASSUME NEW s, NEW l, NEW m, NEW k
    PROVE  FramesGood(s, l, m, k) <=>
              /\ Stacked(s)
              /\ \A i \in DOMAIN s : /\ Filled(s[i].of, s[i], m, k)
                                     /\ IF i = Len(s) THEN Fits(l, s[i]) ELSE Seen(s[i])
  BY DEF FramesGood, Fits

\* A frame without parts is in order.
LEMMA NothingFilled ==
    ASSUME NEW c, NEW f, DOMAIN f.parts = {}, NEW m, NEW k, f.seen[1] <= k
    PROVE  Filled(c, f, m, k)
  BY DEF Filled

\* A builder that has its settings may build.
LEMMA AtBuildFits ==
    ASSUME NEW f
    PROVE  Fits(AtBuild, f) <=> Seen(f)
  BY DEF Fits, AtBuild

\* A good stack stays good when its builder asks for another.
LEMMA AppendGood ==
    ASSUME NEW s \in Seq(Frames), NEW f \in Frames, NEW m, NEW k, NEW l,
           FramesGood(s, AtBuild, m, k), Asks(s, f.of), DOMAIN f.parts = {}, f.seen[1] <= k, Fits(l, f)
    PROVE  FramesGood(Append(s, f), l, m, k)
<1>1. PICK t : t = Append(s, f)
  OBVIOUS
<1>2. /\ t \in Seq(Frames) /\ Len(t) = Len(s) + 1 /\ t[Len(s) + 1] = f /\ Len(s) \in Nat
      /\ \A i \in DOMAIN s : t[i] = s[i]
      /\ DOMAIN t = DOMAIN s \cup {Len(s) + 1} /\ DOMAIN s = 1 .. Len(s)
  BY <1>1, AppendIs, SequenceIs
<1>3. Stacked(t)
  <2>1. CASE s = <<>>
    <3>1. Len(s) = 0
      BY <2>1
    <3> QED
      BY <1>2, <3>1 DEF Stacked
  <2>2. CASE s # <<>>
    <3>1. /\ Len(s) = 1 /\ f.of \in Base /\ s[1].of \notin Base
          /\ \E j \in DOMAIN Builders[s[1].of] : f.of = Builders[s[1].of][j]
      BY <2>2 DEF Asks
    <3>2. Len(t) = 2 /\ t[2] = f /\ t[1] = s[1]
      BY <1>2, <3>1
    <3> QED
      BY <3>1, <3>2 DEF Stacked
  <2> QED
    BY <2>1, <2>2
<1>4. ASSUME NEW i \in DOMAIN t
      PROVE  /\ Filled(t[i].of, t[i], m, k)
             /\ IF i = Len(t) THEN Fits(l, t[i]) ELSE Seen(t[i])
  <2>1. CASE i \in DOMAIN s
    <3>1. i # Len(t) /\ t[i] = s[i]
      BY <1>2, <2>1
    <3>2. /\ Filled(s[i].of, s[i], m, k)
          /\ IF i = Len(s) THEN Fits(AtBuild, s[i]) ELSE Seen(s[i])
      BY <2>1, FramesGoodIs
    <3> QED
      BY <3>1, <3>2, AtBuildFits
  <2>2. CASE i = Len(s) + 1
    <3>1. t[i] = f /\ i = Len(t)
      BY <1>2, <2>2
    <3>2. Filled(f.of, f, m, k)
      BY NothingFilled
    <3> QED
      BY <3>1, <3>2
  <2> QED
    BY <1>2, <2>1, <2>2
<1>5. FramesGood(t, l, m, k)
  BY <1>3, <1>4, FramesGoodIs
<1> QED
  BY <1>1, <1>5

AddPart(m, c, o) == [part \in DOMAIN m \cup {c} |-> IF part = c THEN o ELSE m[part]]
PutParts(x, m) == [x EXCEPT !.parts = m]
PutAt(s, i, f) == [s EXCEPT ![i] = f]

\* Parts with one more.
LEMMA AddPartIs ==
    ASSUME NEW m \in PartMaps, NEW c \in Cached, NEW o \in Leaf
    PROVE  /\ AddPart(m, c, o) \in PartMaps /\ DOMAIN AddPart(m, c, o) = DOMAIN m \cup {c}
           /\ AddPart(m, c, o)[c] = o
           /\ \A part \in DOMAIN m : part # c => AddPart(m, c, o)[part] = m[part]
<1>1. PICK S \in SUBSET Cached : m \in [S -> Leaf]
  BY DEF PartMaps
<1>2. S \cup {c} \in SUBSET Cached /\ DOMAIN m = S
  BY <1>1
<1> HIDE DEF Leaf
<1>3. AddPart(m, c, o) \in [S \cup {c} -> Leaf]
  BY <1>1, <1>2 DEF AddPart
<1>4. AddPart(m, c, o) \in PartMaps
  BY <1>2, <1>3 DEF PartMaps
<1>5. /\ DOMAIN AddPart(m, c, o) = DOMAIN m \cup {c}
      /\ AddPart(m, c, o)[c] = o
      /\ \A part \in DOMAIN m : part # c => AddPart(m, c, o)[part] = m[part]
  BY DEF AddPart
<1> QED
  BY <1>4, <1>5

\* A frame with other parts.
LEMMA PutPartsIs ==
    ASSUME NEW x \in Frames, NEW m \in PartMaps
    PROVE  /\ PutParts(x, m) \in Frames /\ PutParts(x, m).of = x.of /\ PutParts(x, m).seen = x.seen
           /\ PutParts(x, m).late = x.late /\ PutParts(x, m).parts = m
<1> HIDE DEF Marks, PartMaps
<1> QED
  BY DEF PutParts, Frames

\* A frame with the object of one part more.
LEMMA PlusIs ==
    ASSUME NEW x \in Frames, NEW c \in Cached, NEW o \in Leaf
    PROVE  /\ Plus(x, c, o) \in Frames /\ Plus(x, c, o).of = x.of /\ Plus(x, c, o).seen = x.seen
           /\ Plus(x, c, o).late = x.late /\ DOMAIN Plus(x, c, o).parts = DOMAIN x.parts \cup {c}
           /\ Plus(x, c, o).parts[c] = o
           /\ \A part \in DOMAIN x.parts : part # c => Plus(x, c, o).parts[part] = x.parts[part]
<1>1. Plus(x, c, o) = PutParts(x, AddPart(x.parts, c, o))
  BY DEF Plus, PutParts, AddPart
<1>2. x.parts \in PartMaps
  BY PartsAreLeaves
<1>3. PICK m : m = AddPart(x.parts, c, o)
  OBVIOUS
<1>4. /\ m \in PartMaps /\ DOMAIN m = DOMAIN x.parts \cup {c} /\ m[c] = o
      /\ \A part \in DOMAIN x.parts : part # c => m[part] = x.parts[part]
  BY <1>2, <1>3, AddPartIs
<1>5. /\ PutParts(x, m) \in Frames /\ PutParts(x, m).of = x.of /\ PutParts(x, m).seen = x.seen
      /\ PutParts(x, m).late = x.late /\ PutParts(x, m).parts = m
  BY <1>4, PutPartsIs
<1> QED
  BY <1>1, <1>3, <1>4, <1>5

\* What a builder of Base makes has no parts.
LEMMA BaseIsLeaf ==
    ASSUME NEW c \in Base, NEW o \in Products, NEW m, NEW k, Filled(c, o, m, k)
    PROVE  o \in Leaf
<1>1. DOMAIN Builders[c] = {}
  BY BuildersShape
<1>2. DOMAIN o.parts = {}
  BY <1>1 DEF Filled
<1>3. o.parts \in PartMaps
  BY PartsAreLeaves
<1>4. o.parts \in [{} -> {0}]
  BY <1>2, <1>3, PartsAreLeaves
<1> HIDE DEF Marks, PartMaps
<1> QED
  BY <1>4 DEF Products, Leaf

\* Such a frame is in order when the part is one that its builder asks for.
LEMMA PlusFilled ==
    ASSUME NEW x \in Frames, NEW c \in Cached, NEW o \in Leaf, NEW m, NEW k, Filled(x.of, x, m, k),
           o.client <= m, \E j \in DOMAIN Builders[x.of] : c = Builders[x.of][j]
    PROVE  Filled(x.of, Plus(x, c, o), m, k)
<1>1. PICK y : y = Plus(x, c, o)
  OBVIOUS
<1>2. /\ y.seen = x.seen /\ DOMAIN y.parts = DOMAIN x.parts \cup {c} /\ y.parts[c] = o
      /\ \A part \in DOMAIN x.parts : part # c => y.parts[part] = x.parts[part]
  BY <1>1, PlusIs
<1>3. Filled(x.of, y, m, k)
  BY <1>2 DEF Filled
<1> QED
  BY <1>1, <1>3

\* A stack of one frame.
LEMMA SingleIs ==
    ASSUME NEW s \in Seq(Frames), Len(s) = 1
    PROVE  s # <<>> /\ DOMAIN s = {1} /\ s[1] \in Frames
<1>1. DOMAIN s = 1 .. 1
  BY SequenceIs
<1>2. 1 .. 1 = {1}
  OBVIOUS
<1>3. s # <<>>
  <2>1. DOMAIN <<>> = {} /\ 1 \in DOMAIN s
    BY <1>1, <1>2, NoPartsYet
  <2> QED
    BY <2>1, Zenon
<1>4. s[1] \in Frames
  OBVIOUS
<1> QED
  BY <1>1, <1>2, <1>3, <1>4

\* The stack of one builder, whose part has come.
LEMMA GiveGood ==
    ASSUME NEW s \in Seq(Frames), Len(s) = 1, NEW c \in Cached, NEW o \in Products, NEW m, NEW k,
           FramesGood(s, AtBuild, m, k), Asks(s, c), Filled(c, o, m, k), o.client <= m
    PROVE  /\ PutAt(s, Len(s), Plus(s[Len(s)], c, o)) \in Seq(Frames)
           /\ PutAt(s, Len(s), Plus(s[Len(s)], c, o)) # <<>>
           /\ FramesGood(PutAt(s, Len(s), Plus(s[Len(s)], c, o)), AtBuild, m, k)
<1>1. s # <<>>
  BY SingleIs
<1>2. c \in Base /\ \E j \in DOMAIN Builders[s[1].of] : c = Builders[s[1].of][j]
  BY <1>1 DEF Asks
<1>3. PICK x : x = s[1]
  OBVIOUS
<1>4. DOMAIN s = {1} /\ x \in Frames
  BY <1>3, SingleIs
<1>5. Filled(x.of, x, m, k) /\ Seen(x)
  BY <1>3, <1>4, FramesGoodIs, AtBuildFits
<1>6. o \in Leaf
  BY <1>2, BaseIsLeaf
<1>7. PICK y : y = Plus(x, c, o)
  OBVIOUS
<1>8. y \in Frames /\ y.of = x.of /\ y.seen = x.seen
  BY <1>4, <1>6, <1>7, PlusIs
<1>9. Filled(y.of, y, m, k) /\ Seen(y)
  <2>1. Filled(x.of, y, m, k)
    BY <1>2, <1>3, <1>4, <1>5, <1>6, <1>7, PlusFilled
  <2>2. Seen(y)
    BY <1>5, <1>8 DEF Seen
  <2> QED
    BY <1>8, <2>1, <2>2
<1>10. PICK t : t = PutAt(s, 1, y)
  OBVIOUS
<1>11. t \in Seq(Frames) /\ Len(t) = 1 /\ DOMAIN t = {1} /\ t[1] = y
  <2>1. /\ [s EXCEPT ![1] = y] \in Seq(Frames) /\ Len([s EXCEPT ![1] = y]) = Len(s)
        /\ DOMAIN [s EXCEPT ![1] = y] = DOMAIN s /\ (1 \in DOMAIN s => [s EXCEPT ![1] = y][1] = y)
    BY <1>8, ElementSet
  <2> QED
    BY <1>4, <1>10, <2>1 DEF PutAt
<1>12. t # <<>>
  BY <1>11, SingleIs
<1>13. Stacked(t)
  BY <1>11 DEF Stacked
<1>14. FramesGood(t, AtBuild, m, k)
  BY <1>9, <1>11, <1>13, FramesGoodIs, AtBuildFits
<1>15. PutAt(s, Len(s), Plus(s[Len(s)], c, o)) = t
  BY <1>3, <1>7, <1>10
<1> QED
  BY <1>11, <1>12, <1>14, <1>15

Complete(c, o) == c = "orchestrator" => "validation_service" \in DOMAIN o.parts

\* A request that has got an object has hands in order.
LEMMA WithIs ==
    ASSUME NEW w, NEW c, NEW o \in Products, NEW n \in Nat, NEW m \in Nat, NEW k \in Nat,
           Hands(hold[w], n, m, k), Filled(c, o, m, k), Complete(c, o)
    PROVE  Hands(With(w, c, o), n, m, k)
<1>1. CASE c # "orchestrator"
  BY <1>1 DEF With
<1>2. CASE c = "orchestrator"
  <2>1. PICK x : x = o.parts["validation_service"].client
    OBVIOUS
  <2>2. PICK h : h = hold[w]
    OBVIOUS
  <2>3. "validation_service" \in DOMAIN o.parts
    BY <1>2 DEF Complete
  <2>4. o.parts \in PartMaps
    BY PartsAreLeaves
  <2>5. x \in Nat
    BY <2>1, <2>3, <2>4, PartsAreLeaves
  <2>6. x <= m
    BY <2>1, <2>3 DEF Filled
  <2>7. Hands(PutClient(h, x), n, m, k)
    <3>1. x \in 0 .. m
      BY <2>5, <2>6
    <3> QED
      BY <2>2, <3>1, SetClient
  <2>8. With(w, c, o) = PutClient(h, x)
    BY <1>2, <2>1, <2>2 DEF With, PutClient
  <2> QED
    BY <2>7, <2>8
<1> QED
  BY <1>1, <1>2

\* To give a builder's value keeps the threads' types.
LEMMA GiveKept ==
    ASSUME TypesInv, SingletonsAssumption, Grows,
           NEW w \in Workers, NEW below \in Seq(Frames), NEW c \in Cached, NEW o \in Products,
           Give(w, below, c, o), Asks(below, c), FramesGood(below, AtBuild, Len(clients'), Len(settings')),
           Filled(c, o, Len(clients'), Len(settings')), o.client <= Len(clients'), Complete(c, o)
    PROVE  ThreadsInv' /\ FramesInv'
<1>1. StoresInv /\ ThreadsInv /\ FramesInv
  BY DEF TypesInv
<1>2. w \in Procs /\ w \notin Admins /\ Shapes /\ Hands(hold[w], Len(sessions), Len(clients), Len(settings))
  BY <1>1, WorkerIs
<1>3. PICK n, m, k : n = Len(sessions') /\ m = Len(clients') /\ k = Len(settings')
  OBVIOUS
<1>4. n \in Nat /\ m \in Nat /\ k \in Nat
  BY <1>3 DEF Grows
<1>5. Hands(hold[w], n, m, k)
  BY <1>2, <1>3, HandsGrow DEF Grows
<1>6. /\ FramesGood(below, AtBuild, m, k) /\ Filled(c, o, m, k) /\ o.client <= m
  BY <1>3
<1>7. CASE /\ below = <<>>
           /\ \E l \in {"idle", "task"} :
                    Moves(w, l, <<>>, IF l = "idle" THEN Empty ELSE With(w, c, o))
  <2>1. PICK l : l \in {"idle", "task"} /\ Moves(w, l, <<>>, IF l = "idle" THEN Empty ELSE With(w, c, o))
    BY <1>7
  <2>2. PICK h : h = IF l = "idle" THEN Empty ELSE With(w, c, o)
    OBVIOUS
  <2>3. Hands(Empty, n, m, k) /\ Hands(With(w, c, o), n, m, k)
    BY <1>4, <1>5, <1>6, WithIs, EmptyHands
  <2>4. Hands(h, n, m, k)
    BY <2>2, <2>3
  <2>5. l \in WorkerPlaces /\ l # "charge" /\ l # "build"
    BY <2>1 DEF WorkerPlaces
  <2>6. Moves(w, l, <<>>, h)
    BY <2>1, <2>2
  <2>7. Hands(h, Len(sessions'), Len(clients'), Len(settings'))
    BY <1>3, <2>4
  <2> QED
    BY <1>1, <1>2, <2>5, <2>6, <2>7, PlainMoveKept
<1>8. CASE /\ below # <<>>
           /\ Moves(w, "build", [below EXCEPT ![Len(below)] = Plus(below[Len(below)], c, o)], hold[w])
  <2>1. PICK t : t = PutAt(below, Len(below), Plus(below[Len(below)], c, o))
    OBVIOUS
  <2>2. Len(below) = 1
    BY <1>8 DEF Asks
  <2>3. t \in Seq(Frames) /\ t # <<>> /\ FramesGood(t, AtBuild, m, k)
    BY <1>6, <2>1, <2>2, GiveGood
  <2>4. PICK l : l = AtBuild
    OBVIOUS
  <2>5. Moves(w, l, t, hold[w])
    BY <1>8, <2>1, <2>4 DEF PutAt, AtBuild
  <2>6. l \in WorkerPlaces /\ l # "charge" /\ l \in {"build", "read env"}
    BY <2>4 DEF WorkerPlaces, AtBuild
  <2>7. FramesGood(t, l, Len(clients'), Len(settings')) /\ Hands(hold[w], Len(sessions'), Len(clients'), Len(settings'))
    BY <1>3, <1>5, <2>3, <2>4
  <2> QED
    BY <1>1, <1>2, <2>3, <2>5, <2>6, <2>7, MoveKept
<1> QED
  BY <1>2, <1>7, <1>8, GiveMoves

\* A build that begins notes the settings in force, or none.
LEMMA BegunMark ==
    ASSUME NEW f, NEW c, NEW l, Begun(c, f, l), current \in 0 .. Len(settings), Len(settings) \in Nat
    PROVE  f.seen[1] \in {0, current} /\ f.seen[1] <= Len(settings)
<1>1. f.seen = <<0, 0>> \/ f.seen = <<current, settings[current]>>
  BY DEF Begun
<1>2. PICK x : x = f.seen
  OBVIOUS
<1>3. x[1] \in {0, current}
  BY <1>1, <1>2
<1>4. x[1] <= Len(settings)
  BY <1>3
<1> QED
  BY <1>2, <1>3, <1>4

\* A build of c that begins inside of the stack s.
LEMMA BegunKept ==
    ASSUME TypesInv, SingletonsAssumption, UNCHANGED <<caches, sessions, clients>>,
           NEW w \in Workers, NEW s, s = frames[w], NEW c \in Cached, NEW f \in Frames, NEW l, l \in {"build", "read env"},
           Begun(c, f, l), Moves(w, l, Append(s, f), hold[w]), Asks(s, c),
           FramesGood(s, AtBuild, Len(clients), Len(settings))
    PROVE  ThreadsInv' /\ FramesInv'
<1>1. StoresInv /\ ThreadsInv /\ FramesInv
  BY DEF TypesInv
<1>2. w \in Procs /\ w \notin Admins /\ s \in Seq(Frames)
      /\ Hands(hold[w], Len(sessions), Len(clients), Len(settings))
  BY <1>1, WorkerIs
<1>3. f.of = c /\ DOMAIN f.parts = {}
  BY DEF Begun
<1>4. current \in 0 .. Len(settings) /\ Len(settings) \in Nat
  BY <1>1, StoresAre
<1>6. f.seen[1] <= Len(settings)
  BY <1>4, BegunMark
<1>7. Fits(l, f)
  <2>1. CASE l = "read env"
    BY <2>1 DEF Begun, Fits
  <2>2. CASE l = "build" /\ c \in ReadsSettings
    BY <1>3, <2>2 DEF Begun, Fits, Seen
  <2>3. CASE l = "build" /\ c \notin ReadsSettings
    BY <1>3, <2>3 DEF Fits, Seen
  <2> QED
    BY <2>1, <2>2, <2>3
<1>8. PICK t : t = Append(s, f)
  OBVIOUS
<1>9. FramesGood(t, l, Len(clients), Len(settings))
  BY <1>2, <1>3, <1>6, <1>7, <1>8, AppendGood
<1>10. t \in Seq(Frames) /\ t # <<>>
  BY <1>2, <1>8, AppendIs
<1>11. Grows
  BY <1>1, GrowsNothing DEF caches
<1>12. l \in WorkerPlaces /\ l # "charge"
  BY DEF WorkerPlaces
<1>13. Moves(w, l, t, hold[w])
  BY <1>8
<1>14. FramesGood(t, l, Len(clients'), Len(settings')) /\ Hands(hold[w], Len(sessions'), Len(clients'), Len(settings'))
  BY <1>2, <1>9 DEF caches
<1> QED
  BY <1>1, <1>2, <1>10, <1>11, <1>12, <1>13, <1>14, MoveKept

\* What the types say of a cached object.
LEMMA CellIs ==
    ASSUME CellsInv, NEW c \in Cached, NEW o \in cell[c]
    PROVE  /\ o \in Products /\ Filled(c, o, Len(clients), Len(settings)) /\ o.client <= Len(clients)
           /\ Complete(c, o)
  BY DEF CellsInv, Complete

\* A call of a builder keeps the types.
LEMMA CallKept ==
    ASSUME TypesInv, SingletonsAssumption, UNCHANGED <<caches, sessions, clients, counts>>,
           NEW w \in Workers, NEW c \in Cached, Call(w, c), Asks(frames[w], c),
           FramesGood(frames[w], AtBuild, Len(clients), Len(settings))
    PROVE  TypesInv'
<1>1. StoresInv /\ ThreadsInv /\ FramesInv /\ CellsInv
  BY DEF TypesInv
<1>2. /\ settings' = settings /\ current' = current /\ cell' = cell /\ session' = session /\ sessions' = sessions
      /\ clients' = clients /\ halfway' = halfway
  BY DEF caches, counts
<1>3. StoresInv' /\ Grows
  BY <1>1, <1>2, GrowsNothing DEF StoresInv
<1>4. CellsInv'
  BY <1>1, <1>2, <1>3, CellsKept
<1>5. w \in Procs /\ Shapes /\ frames[w] \in Seq(Frames)
  BY <1>1, WorkerIs
<1>6. settings \in Seq(Nat) /\ current \in 0 .. Len(settings)
  BY <1>1, Types
<1>7. CASE \E object \in cell[c] : Give(w, frames[w], c, object)
  <2>1. PICK o \in cell[c] : Give(w, frames[w], c, o)
    BY <1>7
  <2>2. /\ o \in Products /\ Filled(c, o, Len(clients'), Len(settings')) /\ o.client <= Len(clients')
        /\ Complete(c, o)
    BY <1>1, <1>2, CellIs
  <2>3. FramesGood(frames[w], AtBuild, Len(clients'), Len(settings'))
    BY <1>2
  <2>4. ThreadsInv' /\ FramesInv'
    BY <1>3, <1>5, <2>1, <2>2, <2>3, GiveKept
  <2> QED
    BY <1>3, <1>4, <2>4 DEF TypesInv
<1>8. CASE \E l \in {"build", "read env"}, f \in Frames :
                    Begun(c, f, l) /\ Moves(w, l, Append(frames[w], f), hold[w])
  <2>1. PICK l, f : /\ l \in {"build", "read env"} /\ f \in Frames
                    /\ Begun(c, f, l) /\ Moves(w, l, Append(frames[w], f), hold[w])
    BY <1>8
  <2>2. PICK s : s = frames[w]
    OBVIOUS
  <2>3. /\ l \in {"build", "read env"} /\ f \in Frames /\ Begun(c, f, l) /\ Moves(w, l, Append(s, f), hold[w])
        /\ Asks(s, c) /\ FramesGood(s, AtBuild, Len(clients), Len(settings))
        /\ UNCHANGED <<caches, sessions, clients>>
    BY <2>1, <2>2
  <2>4. ThreadsInv' /\ FramesInv'
    BY <2>2, <2>3, BegunKept
  <2> QED
    BY <1>3, <1>4, <2>4 DEF TypesInv
<1> QED
  BY <1>5, <1>6, <1>7, <1>8, CallMoves

\* The empty stack is good, and may ask for any builder.
LEMMA NoFrames ==
    \A m, k : FramesGood(<<>>, AtBuild, m, k) /\ \A c : Asks(<<>>, c)
<1>1. DOMAIN <<>> = {}
  OBVIOUS
<1> QED
  BY <1>1 DEF FramesGood, Stacked, Asks

\* A call of a builder, by a request or by a builder that needs a part.
CallsBuilder(w) ==
    /\ UNCHANGED <<caches, sessions, clients, counts>>
    /\ \E c \in Cached : /\ Call(w, c) /\ Asks(frames[w], c)
                         /\ FramesGood(frames[w], AtBuild, Len(clients), Len(settings))

\* A request calls a builder from outside of all.
LEMMA AskCalls ==
    ASSUME TypesInv, SingletonsAssumption, NEW w \in Workers, Ask(w)
    PROVE  CallsBuilder(w)
<1>1. PICK c \in Cached : Does(w, c) /\ Call(w, c)
  BY DEF Ask
<1>2. UNCHANGED <<caches, sessions, clients, counts>>
  BY DEF Ask
<1>3. pc[w] = "task" /\ ThreadsInv
  BY <1>1 DEF Does, TypesInv
<1>4. frames[w] = <<>>
  BY <1>3, WorkerIs
<1>5. Asks(frames[w], c) /\ FramesGood(frames[w], AtBuild, Len(clients), Len(settings))
  BY <1>4, NoFrames
<1> QED
  BY <1>1, <1>2, <1>5 DEF CallsBuilder

\* The innermost builder of a worker that builds.
LEMMA TopOf ==
    ASSUME TypesInv, SingletonsAssumption, NEW w \in Workers, pc[w] = "build"
    PROVE  /\ frames[w] \in Seq(Frames) /\ frames[w] # <<>> /\ Top(w) = frames[w][Len(frames[w])]
           /\ FramesGood(frames[w], AtBuild, Len(clients), Len(settings))
<1>1. ThreadsInv /\ FramesInv
  BY DEF TypesInv
<1>2. frames[w] \in Seq(Frames) /\ frames[w] # <<>>
  BY <1>1, WorkerIs
<1>3. FramesGood(frames[w], AtBuild, Len(clients), Len(settings))
  BY <1>1 DEF FramesInv, AtBuild
<1> QED
  BY <1>2, <1>3 DEF Top

\* The innermost frame of a good stack, and the one below it.
LEMMA LastOf ==
    ASSUME NEW s \in Seq(Frames), s # <<>>, NEW m, NEW k, FramesGood(s, AtBuild, m, k)
    PROVE  /\ s[Len(s)] \in Frames /\ Len(s) \in DOMAIN s /\ Len(s) \in {1, 2}
           /\ Filled(s[Len(s)].of, s[Len(s)], m, k) /\ Seen(s[Len(s)])
           /\ Len(s) = 2 => /\ s[2].of \in Base /\ s[1].of \notin Base
                            /\ \E j \in DOMAIN Builders[s[1].of] : s[2].of = Builders[s[1].of][j]
<1>1. Len(s) \in DOMAIN s
  BY SequenceIs
<1>2. s[Len(s)] \in Frames
  BY <1>1
<1>3. Stacked(s)
  BY FramesGoodIs
<1>4. Len(s) \in {1, 2}
  BY <1>3 DEF Stacked
<1>5. Len(s) = 2 => /\ s[2].of \in Base /\ s[1].of \notin Base
                    /\ \E j \in DOMAIN Builders[s[1].of] : s[2].of = Builders[s[1].of][j]
  BY <1>3 DEF Stacked
<1>6. Filled(s[Len(s)].of, s[Len(s)], m, k) /\ Seen(s[Len(s)])
  BY <1>1, FramesGoodIs, AtBuildFits
<1> QED
  BY <1>1, <1>2, <1>4, <1>5, <1>6

\* The builders that are looked at are builders of deps.py.
LEMMA BuilderNames ==
    ASSUME SingletonsAssumption
    PROVE  Cached \subseteq Names
  BY BuildersShape DEF SingletonsAssumption

\* A builder calls only what it is said to ask for.
LEMMA AskPartCalls ==
    ASSUME TypesInv, SingletonsAssumption, NEW w \in Workers, AskPart(w)
    PROVE  CallsBuilder(w)
<1>1. pc[w] = "build" /\ UNCHANGED <<caches, sessions, clients, counts>>
  BY DEF AskPart
<1>2. PICK i \in Wanting(w) : Call(w, Builders[Top(w).of][i])
  BY DEF AskPart
<1>3. PICK s : s = frames[w]
  OBVIOUS
<1>4. /\ s \in Seq(Frames) /\ s # <<>> /\ Top(w) = s[Len(s)]
      /\ FramesGood(s, AtBuild, Len(clients), Len(settings))
  BY <1>1, <1>3, TopOf
<1>5. /\ s[Len(s)] \in Frames /\ Len(s) \in {1, 2}
      /\ Len(s) = 2 => s[2].of \in Base
  BY <1>4, LastOf
<1>6. PICK c : c = Builders[Top(w).of][i]
  OBVIOUS
<1>7. c \in Cached /\ i \in DOMAIN Builders[Top(w).of]
  BY <1>2, <1>6 DEF Wanting
<1>8. Top(w).of \notin Base
  BY <1>7, BuildersShape
<1>9. Len(s) = 1
  BY <1>4, <1>5, <1>8
<1>10. c \in Base
  <2>1. Top(w).of \in Names
    BY <1>4, <1>5, BuilderNames, PartsAreLeaves
  <2>2. Builders[Top(w).of] \in Seq(Base)
    BY <2>1, BuildersShape
  <2>3. PICK q \in Seq(Base) : q = Builders[Top(w).of]
    BY <2>2
  <2>4. c = q[i] /\ i \in DOMAIN q
    BY <1>6, <1>7, <2>3
  <2> QED
    BY <2>4
<1>11. Asks(s, c)
  BY <1>4, <1>6, <1>7, <1>8, <1>9, <1>10 DEF Asks
<1>12. Call(w, c) /\ Asks(frames[w], c) /\ FramesGood(frames[w], AtBuild, Len(clients), Len(settings))
  BY <1>2, <1>3, <1>4, <1>6, <1>11
<1> QED
  BY <1>1, <1>7, <1>12 DEF CallsBuilder

\* A request or a builder that calls a builder keeps the types.
LEMMA TypesAsk ==
    ASSUME TypesInv, SingletonsAssumption, NEW w \in Workers, Ask(w) \/ AskPart(w)
    PROVE  TypesInv'
<1>1. CallsBuilder(w)
  BY AskCalls, AskPartCalls
<1>2. PICK c \in Cached : /\ Call(w, c) /\ Asks(frames[w], c)
                         /\ FramesGood(frames[w], AtBuild, Len(clients), Len(settings))
  BY <1>1 DEF CallsBuilder
<1>3. UNCHANGED <<caches, sessions, clients, counts>>
  BY <1>1 DEF CallsBuilder
<1> QED
  BY <1>2, <1>3, CallKept

NewClient == [spend |-> 0, bill |-> 0, exact |-> TRUE]

\* A mark is a pair.
LEMMA MarkIs ==
    \A x \in Marks : x = <<x[1], x[2]>> /\ x[1] \in Nat /\ x[2] \in Nat
  BY DEF Marks

\* What a builder makes of its frame.
LEMMA ObjectIs ==
    ASSUME NEW f \in Frames, Seen(f), f.seen[1] <= Len(settings), StoresInv
    PROVE  /\ Object(f) \in Products /\ Object(f).parts = f.parts /\ Object(f).late = f.late
           /\ Object(f).seen[1] = f.seen[1]
           /\ Object(f).client = IF f.of = "validation_service" THEN Len(clients) + 1 ELSE 0
           /\ f.of # "orchestrator" => Object(f).seen = f.seen
<1>1. /\ f.parts \in PartMaps /\ f.seen \in Marks /\ f.of \in Cached /\ f.late \in BOOLEAN
  BY PartsAreLeaves
<1>2. Len(clients) \in Nat /\ settings \in Seq(Nat) /\ Len(settings) \in Nat
  BY StoresAre
<1>3. PICK x : x = IF f.of = "orchestrator" THEN <<f.seen[1], settings[f.seen[1]]>> ELSE f.seen
  OBVIOUS
<1>4. x \in Marks /\ x[1] = f.seen[1]
  <2>1. CASE f.of = "orchestrator"
    <3>1. f.of \in ReadsSettings
      BY <1>1, <2>1 DEF ReadsSettings
    <3>2. f.seen[1] # 0 /\ f.seen[1] \in Nat
      BY <1>1, <3>1, MarkIs DEF Seen
    <3>3. PICK i : i = f.seen[1]
      OBVIOUS
    <3>4. i \in 1 .. Len(settings)
      BY <1>2, <3>2, <3>3
    <3>5. settings[i] \in Nat
      BY <1>2, <3>4
    <3>6. x = <<i, settings[i]>>
      BY <1>3, <2>1, <3>3
    <3>7. <<i, settings[i]>> \in Marks
      BY <3>2, <3>3, <3>5 DEF Marks
    <3>8. <<i, settings[i]>>[1] = i
      OBVIOUS
    <3> QED
      BY <3>3, <3>6, <3>7, <3>8
  <2>2. CASE f.of # "orchestrator"
    BY <1>1, <1>3, <2>2
  <2> QED
    BY <2>1, <2>2
<1>5. PICK y : y = IF f.of = "validation_service" THEN Len(clients) + 1 ELSE 0
  OBVIOUS
<1>6. y \in Nat
  <2>1. Len(clients) + 1 \in Nat /\ 0 \in Nat
    BY <1>2
  <2> QED
    BY <1>5, <2>1
<1>7. Object(f) = [seen |-> x, late |-> f.late, client |-> y, parts |-> f.parts]
  BY <1>3, <1>5 DEF Object
<1>8. Object(f) \in Products
  <2> HIDE DEF Marks, PartMaps
  <2> QED
    BY <1>1, <1>4, <1>6, <1>7 DEF Products
<1>9. /\ Object(f).parts = f.parts /\ Object(f).late = f.late /\ Object(f).seen = x /\ Object(f).client = y
  BY <1>7
<1>10. f.of # "orchestrator" => x = f.seen
  BY <1>3
<1> QED
  BY <1>4, <1>5, <1>8, <1>9, <1>10

\* The stack under the innermost builder.
LEMMA BelowIs ==
    ASSUME NEW s \in Seq(Frames), s # <<>>, NEW m, NEW k, FramesGood(s, AtBuild, m, k)
    PROVE  /\ SubSeq(s, 1, Len(s) - 1) \in Seq(Frames)
           /\ FramesGood(SubSeq(s, 1, Len(s) - 1), AtBuild, m, k)
           /\ Asks(SubSeq(s, 1, Len(s) - 1), s[Len(s)].of)
           /\ SubSeq(s, 1, Len(s) - 1) # <<>> =>
                 Len(SubSeq(s, 1, Len(s) - 1)) = 1 /\ SubSeq(s, 1, Len(s) - 1)[1] = s[1] /\ 1 \in DOMAIN s
<1>1. Len(s) \in {1, 2} /\ DOMAIN s = 1 .. Len(s)
  BY LastOf, SequenceIs
<1>2. CASE Len(s) = 1
  <2>1. SubSeq(s, 1, Len(s) - 1) = <<>>
    BY <1>2
  <2>2. <<>> \in Seq(Frames)
    OBVIOUS
  <2> QED
    BY <2>1, <2>2, NoFrames
<1>3. CASE Len(s) = 2
  <2>1. PICK t : t = SubSeq(s, 1, 1)
    OBVIOUS
  <2>2. t \in Seq(Frames) /\ Len(t) = 1 /\ t[1] = s[1]
    BY <1>3, <2>1
  <2>3. SubSeq(s, 1, Len(s) - 1) = t
    BY <1>3, <2>1
  <2>4. DOMAIN t = {1}
    BY <2>2, SingleIs
  <2>5. 1 \in DOMAIN s /\ 1 # Len(s)
    BY <1>1, <1>3
  <2>6. Filled(s[1].of, s[1], m, k) /\ Seen(s[1])
    BY <2>5, FramesGoodIs
  <2>7. Stacked(t)
    BY <2>2 DEF Stacked
  <2>8. FramesGood(t, AtBuild, m, k)
    BY <2>2, <2>4, <2>6, <2>7, FramesGoodIs, AtBuildFits
  <2>9. /\ s[2].of \in Base /\ s[1].of \notin Base
        /\ \E j \in DOMAIN Builders[s[1].of] : s[2].of = Builders[s[1].of][j]
    BY <1>3, LastOf
  <2>10. Asks(t, s[2].of)
    BY <2>2, <2>9 DEF Asks
  <2>11. s[Len(s)].of = s[2].of
    BY <1>3
  <2> QED
    BY <2>2, <2>3, <2>5, <2>8, <2>10, <2>11
<1> QED
  BY <1>1, <1>2, <1>3

\* What is wanted no more is there.
LEMMA WholeIs ==
    ASSUME SingletonsAssumption, NEW w, Wanting(w) = {}
    PROVE  Top(w).of = "orchestrator" => "validation_service" \in DOMAIN Top(w).parts
<1>1. SUFFICES ASSUME Top(w).of = "orchestrator"
               PROVE  "validation_service" \in DOMAIN Top(w).parts
  OBVIOUS
<1>2. "validation_service" \in Cached
  BY DEF SingletonsAssumption
<1>3. PICK q : q = Builders["orchestrator"]
  OBVIOUS
<1>4. 3 \in DOMAIN q /\ q[3] = "validation_service"
  BY <1>3 DEF Builders
<1>5. 3 \notin Wanting(w)
  OBVIOUS
<1> QED
  BY <1>1, <1>2, <1>3, <1>4, <1>5 DEF Wanting

\* What a store comes to.
LEMMA StoreIs ==
    ASSUME TypesInv, SingletonsAssumption, NEW w \in Workers, Store(w)
    PROVE  /\ pc[w] = "build" /\ Wanting(w) = {} /\ UNCHANGED <<settings, current, session, sessions, counts>>
           /\ cell' = IF cell[Top(w).of] = {} THEN [cell EXCEPT ![Top(w).of] = {Object(Top(w))}] ELSE cell
           /\ clients' = IF Top(w).of # "validation_service" THEN clients ELSE Append(clients, NewClient)
           /\ Give(w, SubSeq(frames[w], 1, Len(frames[w]) - 1), Top(w).of, Object(Top(w)))
  BY DEF Store, NewClient

\* A validation service makes itself a client; the others make none.
LEMMA ClientsGrow ==
    ASSUME StoresInv, NEW c, clients' = IF c # "validation_service" THEN clients ELSE Append(clients, NewClient)
    PROVE  /\ clients' \in Seq(ClientT) /\ Len(clients) <= Len(clients') /\ Len(clients') \in Nat
           /\ c = "validation_service" => Len(clients') = Len(clients) + 1
<1>1. clients \in Seq(ClientT) /\ Len(clients) \in Nat
  BY StoresAre
<1>2. NewClient \in ClientT
  BY DEF NewClient, ClientT
<1>3. PICK x \in ClientT : x = NewClient
  BY <1>2
<1>4. Append(clients, x) \in Seq(ClientT) /\ Len(Append(clients, x)) = Len(clients) + 1
  BY <1>1
<1>5. CASE clients' = clients
  <2>1. c # "validation_service"
    <3>1. Len(Append(clients, NewClient)) # Len(clients)
      BY <1>1, <1>3, <1>4
    <3> QED
      BY <1>5, <3>1
  <2> QED
    BY <1>1, <1>5, <2>1
<1>6. CASE clients' = Append(clients, NewClient)
  <2>1. clients' = Append(clients, x)
    BY <1>3, <1>6
  <2> QED
    BY <1>1, <1>4, <2>1
<1> QED
  BY <1>5, <1>6

\* What a builder makes is in order if its frame was.
LEMMA StoreFilled ==
    ASSUME NEW c, NEW f, NEW o, Filled(c, f, Len(clients), Len(settings)), f.seen \in Marks, f.parts \in PartMaps,
           o.parts = f.parts, o.seen[1] = f.seen[1], Grows
    PROVE  Filled(c, o, Len(clients'), Len(settings'))
<1>1. \A part \in DOMAIN f.parts : f.parts[part].client \in Nat
  BY PartsAreLeaves
<1>2. Filled(c, f, Len(clients'), Len(settings'))
  BY <1>1, FilledGrow DEF Grows
<1> QED
  BY <1>2 DEF Filled

\* The caches keep their types when a builder fills its own.
LEMMA CellStored ==
    ASSUME CellsInv, Grows, NEW c \in Cached, NEW o \in Products, Filled(c, o, Len(clients'), Len(settings')),
           o.client <= Len(clients'), Complete(c, o),
           cell' = IF cell[c] = {} THEN [cell EXCEPT ![c] = {o}] ELSE cell
    PROVE  CellsInv'
<1>1. cell \in [Cached -> SUBSET Products]
  BY DEF CellsInv
<1>2. cell' \in [Cached -> SUBSET Products]
  BY <1>1
<1>3. \A d \in Cached : cell'[d] = cell[d] \/ (d = c /\ cell'[d] = {o})
  BY <1>1
<1>4. ASSUME NEW d \in Cached, NEW q \in cell'[d]
      PROVE  /\ Filled(d, q, Len(clients'), Len(settings')) /\ q.client <= Len(clients') /\ Complete(d, q)
  <2>1. CASE d = c /\ q = o
    BY <2>1
  <2>2. CASE q \in cell[d]
    <3>1. q \in Products /\ Filled(d, q, Len(clients), Len(settings)) /\ q.client <= Len(clients) /\ Complete(d, q)
      BY <2>2, CellIs
    <3>2. q.seen \in Marks /\ q.client \in Nat /\ \A part \in DOMAIN q.parts : q.parts[part].client \in Nat
      BY <3>1, PartsAreLeaves
    <3>3. Filled(d, q, Len(clients'), Len(settings'))
      BY <3>1, <3>2, FilledGrow DEF Grows
    <3>4. q.client <= Len(clients')
      BY <3>1, <3>2 DEF Grows
    <3> QED
      BY <3>1, <3>3, <3>4
  <2> QED
    BY <1>3, <2>1, <2>2
<1>5. \A d \in Cached : \A p, q \in cell'[d] : p = q
  <2>1. \A d \in Cached : \A p, q \in cell[d] : p = q
    BY DEF CellsInv
  <2> QED
    BY <1>3, <2>1
<1> QED
  BY <1>2, <1>4, <1>5 DEF CellsInv, Complete

\* Store keeps the types.
LEMMA TypesStore ==
    ASSUME TypesInv, SingletonsAssumption, NEW w \in Workers, Store(w)
    PROVE  TypesInv'
<1>1. StoresInv /\ ThreadsInv /\ CellsInv
  BY DEF TypesInv
<1>2. pc[w] = "build" /\ Wanting(w) = {} /\ UNCHANGED <<settings, current, session, sessions, counts>>
  BY StoreIs
<1>3. PICK s : s = frames[w]
  OBVIOUS
<1>4. PICK f : f = Top(w)
  OBVIOUS
<1>5. PICK c : c = f.of
  OBVIOUS
<1>6. PICK o : o = Object(f)
  OBVIOUS
<1>7. PICK below : below = SubSeq(s, 1, Len(s) - 1)
  OBVIOUS
<1>8. /\ cell' = IF cell[c] = {} THEN [cell EXCEPT ![c] = {o}] ELSE cell
      /\ clients' = IF c # "validation_service" THEN clients ELSE Append(clients, NewClient)
      /\ Give(w, below, c, o)
  BY <1>3, <1>4, <1>5, <1>6, <1>7, StoreIs
<1>9. s \in Seq(Frames) /\ s # <<>> /\ f = s[Len(s)] /\ FramesGood(s, AtBuild, Len(clients), Len(settings))
  BY <1>2, <1>3, <1>4, TopOf
<1>10. f \in Frames /\ Filled(c, f, Len(clients), Len(settings)) /\ Seen(f)
  BY <1>5, <1>9, LastOf
<1>11. c \in Cached /\ f.seen \in Marks /\ f.parts \in PartMaps
  BY <1>5, <1>10, PartsAreLeaves
<1>12. /\ clients' \in Seq(ClientT) /\ Len(clients) <= Len(clients') /\ Len(clients') \in Nat
       /\ c = "validation_service" => Len(clients') = Len(clients) + 1
  BY <1>1, <1>8, ClientsGrow
<1>13. Grows
  BY <1>1, <1>2, <1>12, GrowsWhen
<1>14. StoresInv'
  BY <1>1, <1>2, <1>12 DEF StoresInv, ClientT, counts
<1>15. f.seen[1] <= Len(settings)
  BY <1>10 DEF Filled
<1>16. /\ o \in Products /\ o.parts = f.parts /\ o.seen[1] = f.seen[1]
       /\ o.client = IF c = "validation_service" THEN Len(clients) + 1 ELSE 0
  BY <1>1, <1>5, <1>6, <1>10, <1>15, ObjectIs
<1>17. o.client <= Len(clients')
  <2>1. CASE c = "validation_service"
    <3>1. o.client = Len(clients')
      BY <1>12, <1>16, <2>1
    <3> QED
      BY <1>12, <3>1
  <2>2. CASE c # "validation_service"
    <3>1. o.client = 0
      BY <1>16, <2>2
    <3> QED
      BY <1>12, <3>1
  <2> QED
    BY <2>1, <2>2
<1>18. Filled(c, o, Len(clients'), Len(settings'))
  BY <1>10, <1>11, <1>13, <1>16, StoreFilled
<1>19. Complete(c, o)
  BY <1>2, <1>4, <1>5, <1>16, WholeIs DEF Complete
<1>20. CellsInv'
  BY <1>1, <1>8, <1>11, <1>13, <1>16, <1>17, <1>18, <1>19, CellStored
<1>21. below \in Seq(Frames) /\ FramesGood(below, AtBuild, Len(clients), Len(settings)) /\ Asks(below, c)
  BY <1>5, <1>7, <1>9, BelowIs
<1>22. FramesGood(below, AtBuild, Len(clients'), Len(settings'))
  <2>1. PICK m, k, m1, k1 : m = Len(clients) /\ k = Len(settings) /\ m1 = Len(clients') /\ k1 = Len(settings')
    OBVIOUS
  <2>2. m \in Nat /\ k \in Nat /\ m1 \in Nat /\ k1 \in Nat /\ m <= m1 /\ k <= k1
    BY <1>13, <2>1 DEF Grows
  <2>3. FramesGood(below, AtBuild, m, k)
    BY <1>21, <2>1
  <2>4. FramesGood(below, AtBuild, m1, k1)
    BY <1>21, <2>2, <2>3, FramesGrow
  <2> QED
    BY <2>1, <2>4
<1>23. ThreadsInv' /\ FramesInv'
  BY <1>8, <1>11, <1>13, <1>16, <1>17, <1>18, <1>19, <1>21, <1>22, GiveKept
<1> QED
  BY <1>14, <1>20, <1>23 DEF TypesInv

----------------------------------------------------------------------------
(* Every step.                                                                *)

\* The types hold at the start.
LEMMA TypesInit ==
    ASSUME SingletonsAssumption, SingletonsInit
    PROVE  TypesInv
<1>1. /\ settings = <<0>> /\ current = 1
      /\ cell = [c \in Cached |-> {}] /\ session = 0
      /\ sessions = <<>> /\ clients = <<>>
      /\ pc = [p \in Procs |-> "idle"] /\ plan = [p \in Procs |-> <<>>]
      /\ frames = [p \in Procs |-> <<>>] /\ hold = [p \in Procs |-> Empty]
      /\ halfway = FALSE
  BY DEF SingletonsInit
<1>2. Len(settings) = 1 /\ Len(sessions) = 0 /\ Len(clients) = 0 /\ settings \in Seq(Nat)
  BY <1>1
<1>3. StoresInv
  <2>1. <<>> \in Seq([login : Nat, lock : Procs \cup {Free}, logins : Nat])
    OBVIOUS
  <2>2. <<>> \in Seq([spend : Nat, bill : Nat, exact : BOOLEAN])
    OBVIOUS
  <2>3. current \in 0 .. Len(settings) /\ session \in 0 .. Len(sessions)
    BY <1>1, <1>2
  <2> QED
    BY <1>1, <1>2, <2>1, <2>2, <2>3 DEF StoresInv
<1>4. ThreadsInv
  <2>1. pc \in [Procs -> WorkerPlaces \cup AdminPlaces] /\ \A p \in Procs : pc[p] = "idle"
    BY <1>1 DEF WorkerPlaces
  <2>2. plan = [p \in Procs |-> plan[p]] /\ hold = [p \in Procs |-> hold[p]]
    BY <1>1
  <2>3. frames \in [Procs -> Seq(Frames)] /\ \A p \in Procs : frames[p] = <<>> /\ hold[p] = Empty
    <3>1. <<>> \in Seq(Frames)
      OBVIOUS
    <3> QED
      BY <1>1, <3>1
  <2>4. \A p \in Procs : Hands(hold[p], Len(sessions), Len(clients), Len(settings))
    BY <1>2, <2>3, EmptyHands
  <2>5. \A a \in Admins : hold[a].next \in 1 .. Len(Order) + 1 /\ hold[a].next = 1
    <3>1. 1 \in 1 .. Len(Order) + 1
      BY OrderShape
    <3> QED
      BY <2>3, <3>1, EmptyHands DEF Procs
  <2>6. \A w \in Workers : w \in Procs /\ pc[w] \in WorkerPlaces
    BY <2>1 DEF WorkerPlaces, Procs
  <2>7. \A a \in Admins : a \in Procs /\ pc[a] \in AdminPlaces
    BY <2>1 DEF AdminPlaces, Procs
  <2> QED
    BY <2>1, <2>2, <2>3, <2>4, <2>5, <2>6, <2>7 DEF ThreadsInv
<1>5. FramesInv
  <2>1. \A w \in Workers : frames[w] = <<>>
    BY <1>1 DEF Procs
  <2>2. DOMAIN <<>> = {}
    OBVIOUS
  <2>3. \A w \in Workers : FramesGood(frames[w], pc[w], Len(clients), Len(settings))
    BY <2>1, <2>2 DEF FramesGood, Stacked
  <2> QED
    BY <2>3 DEF FramesInv
<1>6. CellsInv
  BY <1>1 DEF CellsInv
<1> QED
  BY <1>3, <1>4, <1>5, <1>6 DEF TypesInv

\* A step that changes nothing keeps the types.
LEMMA TypesRest ==
    ASSUME TypesInv, UNCHANGED vars
    PROVE  TypesInv'
<1>1. /\ settings' = settings /\ current' = current /\ cell' = cell /\ session' = session /\ sessions' = sessions
      /\ clients' = clients /\ halfway' = halfway
      /\ pc' = pc /\ plan' = plan /\ frames' = frames /\ hold' = hold
  BY DEF vars, caches, counts, threads
<1>2. StoresInv'
  BY <1>1 DEF TypesInv, StoresInv
<1>3. ThreadsInv'
  BY <1>1 DEF TypesInv, ThreadsInv
<1>4. FramesInv'
  BY <1>1 DEF TypesInv, FramesInv
<1>5. CellsInv'
  BY <1>1 DEF TypesInv, CellsInv
<1> QED
  BY <1>2, <1>3, <1>4, <1>5 DEF TypesInv

\* Every step keeps the types.
LEMMA TypesStep ==
    ASSUME TypesInv, SingletonsAssumption, [SingletonsNext]_vars
    PROVE  TypesInv'
<1>1. ASSUME NEW w \in Workers, Work(w)
      PROVE  TypesInv'
  <2>1. \/ Request(w) \/ Ask(w) \/ AskPart(w) \/ Store(w) \/ BrokerRaises(w)
        \/ TakeSession(w) \/ CacheSession(w) \/ LoggedIn(w) \/ LockLogin(w) \/ SignIn(w) \/ LoginFails(w)
        \/ BeginCall(w) \/ ResetSpend(w) \/ Answered(w) \/ CallFails(w) \/ Charge(w)
    BY <1>1 DEF Work
  <2> QED
    BY <2>1, TypesRequest, TypesAsk, TypesStore, TypesBrokerRaises, TypesTakeSession,
       TypesCacheSession, TypesLoggedIn, TypesLockLogin, TypesSignIn, TypesLoginFails, TypesBeginCall,
       TypesResetSpend, TypesAnswered, TypesCallFails, TypesCharge
<1>2. ASSUME NEW a \in Admins, Administer(a)
      PROVE  TypesInv'
  BY <1>2, TypesPatch, TypesReload, TypesReread, TypesSetFields, TypesClearCell, TypesResetSession DEF Administer
<1>3. ASSUME NEW p \in Procs, NewSettings(p) \/ EnvRaises(p)
      PROVE  TypesInv'
  BY <1>3, TypesNewSettings, TypesEnvRaises
<1>4. CASE UNCHANGED vars
  BY <1>4, TypesRest
<1>5. SingletonsNext => \/ \E w \in Workers : Work(w)
                        \/ \E a \in Admins : Administer(a)
                        \/ \E p \in Procs : NewSettings(p) \/ EnvRaises(p)
                        \/ UNCHANGED vars
  BY DEF SingletonsNext, Rest
<1> QED
  BY <1>1, <1>2, <1>3, <1>4, <1>5
====
