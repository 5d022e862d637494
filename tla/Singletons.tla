---- MODULE Singletons ----
(* The objects that a process keeps one of: the settings, what routers/deps.py    *)
(* builds from them, and the Angel session.  Each sits in the cache of its        *)
(* builder, which holds no lock while it builds: two threads may build at once,   *)
(* the first to finish is cached, and a build that a cache_clear overtakes is     *)
(* cached after it.  Workers are requests and scheduler ticks; they share the     *)
(* session's login and the spend of the language model client.  Admins are        *)
(* PATCH /config and POST /config/reload.                                         *)
EXTENDS Integers, Sequences, FiniteSets

CONSTANTS
    Workers, Admins,     \* threads
    Kinds,               \* what the workers are asked for, of DOMAIN Plans
    Cached,              \* the builders of deps.py that are looked at
    Cap,                 \* openrouter_daily_usd_cap
    Costs,               \* what a call may cost
    MaxChanges,          \* bound: PATCHes and reloads
    MaxRequests          \* bound: requests and ticks

Procs == Workers \cup Admins

\* What each builder asks for, in its order.
Builders ==
    [broker |-> <<>>, signal_service |-> <<>>, validation_service |-> <<>>, rag |-> <<>>,
     orchestrator |-> <<"broker", "signal_service", "validation_service", "rag">>,
     execution_controller |-> <<"broker">>]

\* Mutant: the orchestrator goes first.
Order_WholeFirst == <<"orchestrator", "broker", "signal_service", "validation_service", "rag",
                      "execution_controller">>

\* reset_cached_singletons.  Three controllers that keep no setting are left out.
Order == <<"broker", "signal_service", "validation_service", "orchestrator", "rag",
           "execution_controller">>

ReadsSettings == Cached \ {"execution_controller"}

\* analyze_live, a tick, the pipeline alone, an order, the readiness check.
Plans ==
    [analyze_live |-> <<"orchestrator", "session", "validate">>,
     tick |-> <<"session", "orchestrator", "validate">>,
     analyze |-> <<"orchestrator", "validate">>,
     order |-> <<"execution_controller">>,
     ready |-> <<"session">>]

Free == "free"

ASSUME SingletonsAssumption ==
    /\ Workers \cap Admins = {} /\ Free \notin Procs
    /\ Kinds \subseteq DOMAIN Plans /\ Cached \subseteq DOMAIN Builders
    /\ {"validation_service", "orchestrator"} \subseteq Cached
    /\ "order" \in Kinds => "execution_controller" \in Cached
    /\ Cap \in Nat \ {0} /\ Costs \subseteq Nat \ {0} /\ \E m \in Costs : \A c \in Costs : c <= m
    /\ MaxChanges \in Nat /\ MaxRequests \in Nat

VARIABLES
    settings,            \* each Settings object: how often it was patched
    current,             \* cache of get_settings: an object, or 0
    cell,                \* cache of each builder: at most one object
    session,             \* cache of get_angel_session: an object, or 0
    sessions,            \* each AngelSession: whose credentials, its lock
    clients,             \* each LLMClient: its spend of the day
    pc, plan,            \* of each thread: its place, what it has to do
    frames,              \* builders it is inside of, the innermost last
    hold,                \* session, client and settings in its hands; its sum
    \* For the properties and bounds only:
    halfway,             \* a reload has raised
    changes, requests

caches == <<settings, current, cell, session>>
threads == <<pc, plan, frames, hold>>
counts == <<halfway, changes, requests>>
vars == <<caches, sessions, clients, threads, counts>>

Empty == [session |-> 0, client |-> 0, settings |-> 0, sum |-> 0, next |-> 1]

SingletonsInit ==
    /\ settings = <<0>> /\ current = 1
    /\ cell = [c \in Cached |-> {}] /\ session = 0
    /\ sessions = <<>> /\ clients = <<>>
    /\ pc = [p \in Procs |-> "idle"] /\ plan = [p \in Procs |-> <<>>]
    /\ frames = [p \in Procs |-> <<>>] /\ hold = [p \in Procs |-> Empty]
    /\ halfway = FALSE /\ changes = 0 /\ requests = 0

Goto(p, l) == pc' = [pc EXCEPT ![p] = l]

\* The request ends, by its last step or by an exception.
Finish(p) ==
    /\ Goto(p, "idle")
    /\ plan' = [plan EXCEPT ![p] = <<>>]
    /\ frames' = [frames EXCEPT ![p] = <<>>]
    /\ hold' = [hold EXCEPT ![p] = Empty]

\* Its first step is done, with h in hand; the next one begins.
Done(p, h) ==
    IF Len(plan[p]) = 1 THEN Finish(p)
    ELSE /\ Goto(p, "task")
         /\ plan' = [plan EXCEPT ![p] = Tail(@)]
         /\ frames' = [frames EXCEPT ![p] = <<>>]
         /\ hold' = [hold EXCEPT ![p] = h]

Does(w, task) == pc[w] = "task" /\ Head(plan[w]) = task

Request(w) ==
    /\ pc[w] = "idle" /\ requests < MaxRequests
    /\ requests' = requests + 1
    /\ \E kind \in Kinds : plan' = [plan EXCEPT ![w] = Plans[kind]]
    /\ Goto(w, "task")
    /\ UNCHANGED <<caches, sessions, clients, frames, hold, halfway, changes>>

----------------------------------------------------------------------------
(* get_settings.  A look into the cache is part of the step that asks.         *)

\* The caller has its settings: a builder keeps them as they are now.
WithSettings(p, id, value, stack, place) ==
    IF stack # <<>>
    THEN /\ frames' = [frames EXCEPT ![p] = [stack EXCEPT ![Len(stack)].seen = <<id, value>>]]
         /\ Goto(p, "build")
         /\ UNCHANGED hold
    ELSE /\ hold' = [hold EXCEPT ![p].settings = id]
         /\ Goto(p, place)
         /\ UNCHANGED frames

GetSettings(p, stack, place) ==
    IF current # 0 THEN WithSettings(p, current, settings[current], stack, place)
    ELSE /\ Goto(p, "read env")
         /\ frames' = [frames EXCEPT ![p] = stack]
         /\ UNCHANGED hold

\* A new object; it is cached unless another one was in the meantime.
NewSettings(p) ==
    /\ pc[p] = "read env"
    /\ settings' = Append(settings, 0)
    /\ current' = IF current = 0 THEN Len(settings') ELSE current
    /\ WithSettings(p, Len(settings'), 0, frames[p],
                    IF p \in Workers THEN "sign in" ELSE IF plan[p] = <<"patch">> THEN "set" ELSE "clear")
    /\ UNCHANGED <<cell, session, sessions, clients, plan, counts>>

\* A .env that does not validate: whoever reads it raises, out of the login's
\* lock too; a reload has emptied the cache by then, and clears nothing else.
EnvRaises(p) ==
    /\ pc[p] = "read env"
    /\ sessions' = [i \in DOMAIN sessions |->
                       IF sessions[i].lock = p THEN [sessions[i] EXCEPT !.lock = Free] ELSE sessions[i]]
    /\ halfway' = (halfway \/ plan[p] = <<"reload">>)
    /\ Finish(p)
    /\ UNCHANGED <<caches, clients, changes, requests>>

----------------------------------------------------------------------------
(* The builders of deps.py.                                                    *)

Frame(c) == [of |-> c, late |-> FALSE, seen |-> <<0, 0>>, parts |-> <<>>]

\* The value of builder c goes to the builder under it, or to the request.
Give(w, below, c, object) ==
    IF below = <<>>
    THEN Done(w, IF c # "orchestrator" THEN hold[w]
                 ELSE [hold[w] EXCEPT !.client = object.parts["validation_service"].client])
    ELSE /\ frames' = [frames EXCEPT ![w] =
                          [below EXCEPT ![Len(below)].parts =
                              [part \in DOMAIN @ \cup {c} |-> IF part = c THEN object ELSE @[part]]]]
         /\ Goto(w, "build")
         /\ UNCHANGED <<plan, hold>>

\* A call of builder c: what is cached, or a build of its own.
Call(w, c) ==
    IF cell[c] # {} THEN \E object \in cell[c] : Give(w, frames[w], c, object)
    ELSE /\ UNCHANGED plan
         /\ IF c \in ReadsSettings THEN GetSettings(w, Append(frames[w], Frame(c)), "build")
            ELSE /\ frames' = [frames EXCEPT ![w] = Append(@, Frame(c))]
                 /\ Goto(w, "build")
                 /\ UNCHANGED hold

Ask(w) ==
    /\ \E c \in Cached : Does(w, c) /\ Call(w, c)
    /\ UNCHANGED <<caches, sessions, clients, counts>>

Top(w) == frames[w][Len(frames[w])]

\* Where the parts are that the innermost builder still has to ask for.
Wanting(w) ==
    LET asked == Builders[Top(w).of]
    IN {k \in DOMAIN asked : asked[k] \in Cached \ DOMAIN Top(w).parts}

AskPart(w) ==
    /\ pc[w] = "build"
    /\ \E k \in Wanting(w) : (\A j \in Wanting(w) : k <= j) /\ Call(w, Builders[Top(w).of][k])
    /\ UNCHANGED <<caches, sessions, clients, counts>>

\* default_lot_size is read when the parts are there; a validation service makes
\* itself a client.
Object(f) ==
    [seen |-> IF f.of = "orchestrator" THEN <<f.seen[1], settings[f.seen[1]]>> ELSE f.seen,
     late |-> f.late,
     client |-> IF f.of = "validation_service" THEN Len(clients) + 1 ELSE 0,
     parts |-> f.parts]

Store(w) ==
    /\ pc[w] = "build" /\ Wanting(w) = {}
    /\ LET f == Top(w)
       IN /\ cell' = IF cell[f.of] = {} THEN [cell EXCEPT ![f.of] = {Object(f)}] ELSE cell
          /\ clients' = IF f.of # "validation_service" THEN clients
                        ELSE Append(clients, [spend |-> 0, bill |-> 0, exact |-> TRUE])
          /\ Give(w, SubSeq(frames[w], 1, Len(frames[w]) - 1), f.of, Object(f))
    /\ UNCHANGED <<settings, current, session, sessions, counts>>

\* A live broker logs in as it is built; nothing is cached when it cannot.
BrokerRaises(w) ==
    /\ pc[w] = "build" /\ Top(w).of = "broker"
    /\ Finish(w)
    /\ UNCHANGED <<caches, sessions, clients, counts>>

----------------------------------------------------------------------------
(* AngelSession.                                                               *)

Mine(w) == sessions[hold[w].session]

TakeSession(w) ==
    /\ Does(w, "session") /\ hold[w].session = 0
    /\ IF session # 0
       THEN hold' = [hold EXCEPT ![w].session = session] /\ UNCHANGED <<pc, sessions>>
       ELSE /\ sessions' = Append(sessions, [login |-> 0, lock |-> Free, logins |-> 0])
            /\ hold' = [hold EXCEPT ![w].session = Len(sessions')]
            /\ Goto(w, "cache session")
    /\ UNCHANGED <<caches, clients, plan, frames, counts>>

CacheSession(w) ==
    /\ pc[w] = "cache session"
    /\ session' = IF session = 0 THEN hold[w].session ELSE session
    /\ Goto(w, "task")
    /\ UNCHANGED <<settings, current, cell, sessions, clients, plan, frames, hold, counts>>

\* _ensure_logged_in: a look without the lock, then under it.
LoggedIn(w) ==
    /\ Does(w, "session") /\ hold[w].session # 0
    /\ IF Mine(w).login # 0 THEN Done(w, hold[w]) ELSE Goto(w, "lock") /\ UNCHANGED <<plan, frames, hold>>
    /\ UNCHANGED <<caches, sessions, clients, counts>>

\* Mutant: no second look.
LockLogin_NoSecondLook(w) ==
    /\ pc[w] = "lock" /\ Mine(w).lock = Free
    /\ sessions' = [sessions EXCEPT ![hold[w].session].lock = w]
    /\ GetSettings(w, <<>>, "sign in")
    /\ UNCHANGED <<caches, clients, plan, counts>>

LockLogin(w) ==
    /\ pc[w] = "lock" /\ Mine(w).lock = Free
    /\ IF Mine(w).login # 0 THEN Done(w, hold[w]) /\ UNCHANGED sessions
       ELSE /\ sessions' = [sessions EXCEPT ![hold[w].session].lock = w]
            /\ GetSettings(w, <<>>, "sign in")
            /\ UNCHANGED plan
    /\ UNCHANGED <<caches, clients, counts>>

SignIn(w) ==
    /\ pc[w] = "sign in"
    /\ sessions' = [sessions EXCEPT ![hold[w].session] =
                       [login |-> hold[w].settings, lock |-> Free, logins |-> @.logins + 1]]
    /\ Done(w, [hold[w] EXCEPT !.settings = 0])
    /\ UNCHANGED <<caches, clients, counts>>

\* Mutant: an exception leaves the lock taken.
LoginFails_KeepsLock(w) ==
    /\ pc[w] = "sign in"
    /\ Finish(w)
    /\ UNCHANGED <<caches, sessions, clients, counts>>

\* Credentials are missing or refused: the lock is left, the request raises.
LoginFails(w) ==
    /\ pc[w] = "sign in"
    /\ sessions' = [sessions EXCEPT ![hold[w].session].lock = Free]
    /\ Finish(w)
    /\ UNCHANGED <<caches, clients, counts>>

----------------------------------------------------------------------------
(* LLMClient.chat_json, as ValidationService.validate calls it.                *)

Calling == {"new day", "post", "charge"}
Mate(w, c) == \E v \in Workers \ {w} : hold[v].client = c /\ pc[v] \in Calling

\* Over the cap the verdict is the fallback's.
UnderCap(w, spend) ==
    IF spend >= Cap THEN Finish(w) ELSE Goto(w, "post") /\ UNCHANGED <<plan, frames, hold>>

\* The date may be another one than at the client's last call.  Two calls of one
\* client at once are noted.
BeginCall(w) ==
    /\ Does(w, "validate")
    /\ LET c == hold[w].client
       IN /\ clients' = [clients EXCEPT ![c].exact = @ /\ ~ Mate(w, c)]
          /\ \/ UnderCap(w, clients[c].spend)
             \/ Goto(w, "new day") /\ UNCHANGED <<plan, frames, hold>>
    /\ UNCHANGED <<caches, sessions, counts>>

ResetSpend(w) ==
    /\ pc[w] = "new day"
    /\ clients' = [clients EXCEPT ![hold[w].client] = [@ EXCEPT !.spend = 0, !.bill = 0]]
    /\ UnderCap(w, 0)
    /\ UNCHANGED <<caches, sessions, counts>>

\* _spend_usd += cost reads the sum here and writes it in the next step.
Answered(w) ==
    /\ pc[w] = "post"
    /\ \E cost \in Costs :
          /\ clients' = [clients EXCEPT ![hold[w].client].bill = @ + cost]
          /\ hold' = [hold EXCEPT ![w].sum = clients[hold[w].client].spend + cost]
    /\ Goto(w, "charge")
    /\ UNCHANGED <<caches, sessions, plan, frames, counts>>

\* A call without an answer may have been billed (a timeout), or not.
CallFails(w) ==
    /\ pc[w] = "post"
    /\ \E billed \in BOOLEAN :
          clients' = [clients EXCEPT ![hold[w].client].exact = @ /\ ~ billed]
    /\ Finish(w)
    /\ UNCHANGED <<caches, sessions, counts>>

\* Mutant: an answer that is not JSON is not charged.
Charge_WhenParsed(w) ==
    /\ pc[w] = "charge"
    /\ \E parsed \in BOOLEAN :
          clients' = IF parsed THEN [clients EXCEPT ![hold[w].client].spend = hold[w].sum]
                     ELSE clients
    /\ Finish(w)
    /\ UNCHANGED <<caches, sessions, counts>>

Charge(w) ==
    /\ pc[w] = "charge"
    /\ clients' = [clients EXCEPT ![hold[w].client].spend = hold[w].sum]
    /\ Finish(w)
    /\ UNCHANGED <<caches, sessions, counts>>

----------------------------------------------------------------------------
(* PATCH /config and POST /config/reload.                                      *)

Patch(a) ==
    /\ pc[a] = "idle" /\ changes < MaxChanges
    /\ changes' = changes + 1
    /\ plan' = [plan EXCEPT ![a] = <<"patch">>]
    /\ GetSettings(a, <<>>, "set")
    /\ UNCHANGED <<caches, sessions, clients, halfway, requests>>

Reload(a) ==
    /\ pc[a] = "idle" /\ changes < MaxChanges
    /\ changes' = changes + 1
    /\ plan' = [plan EXCEPT ![a] = <<"reload">>]
    /\ current' = 0
    /\ Goto(a, "reread")
    /\ UNCHANGED <<settings, cell, session, sessions, clients, frames, hold, halfway, requests>>

Reread(a) ==
    /\ pc[a] = "reread"
    /\ GetSettings(a, <<>>, "clear")
    /\ UNCHANGED <<caches, sessions, clients, plan, counts>>

SetFields(a) ==
    /\ pc[a] = "set"
    /\ settings' = [settings EXCEPT ![hold[a].settings] = @ + 1]
    /\ Goto(a, "clear")
    /\ UNCHANGED <<current, cell, session, sessions, clients, plan, frames, hold, counts>>

\* A build that is under way is late from here on.
ClearCell(a) ==
    /\ pc[a] = "clear" /\ hold[a].next <= Len(Order)
    /\ LET c == Order[hold[a].next]
       IN /\ cell' = [d \in Cached |-> IF d = c THEN {} ELSE cell[d]]
          /\ frames' = [p \in Procs |-> [i \in DOMAIN frames[p] |->
                           [frames[p][i] EXCEPT !.late = @ \/ frames[p][i].of = c]]]
    /\ hold' = [hold EXCEPT ![a].next = @ + 1]
    /\ UNCHANGED <<settings, current, session, sessions, clients, pc, plan, counts>>

\* Only a reload calls reset_angel_session.
ResetSession(a) ==
    /\ pc[a] = "clear" /\ hold[a].next > Len(Order)
    /\ session' = IF plan[a] = <<"reload">> THEN 0 ELSE session
    /\ Finish(a)
    /\ UNCHANGED <<settings, current, cell, sessions, clients, counts>>

----------------------------------------------------------------------------
\* The requests of the bound are served.
Rest ==
    /\ requests = MaxRequests /\ \A w \in Workers : pc[w] = "idle"
    /\ UNCHANGED vars

Work(w) ==
    \/ Request(w) \/ Ask(w) \/ AskPart(w) \/ Store(w) \/ BrokerRaises(w)
    \/ TakeSession(w) \/ CacheSession(w) \/ LoggedIn(w) \/ LockLogin(w) \/ SignIn(w) \/ LoginFails(w)
    \/ BeginCall(w) \/ ResetSpend(w) \/ Answered(w) \/ CallFails(w) \/ Charge(w)

Administer(a) ==
    Patch(a) \/ Reload(a) \/ Reread(a) \/ SetFields(a) \/ ClearCell(a) \/ ResetSession(a)

SingletonsNext ==
    \/ \E w \in Workers : Work(w)
    \/ \E a \in Admins : Administer(a)
    \/ \E p \in Procs : NewSettings(p) \/ EnvRaises(p)
    \/ Rest

SingletonsSpec == SingletonsInit /\ [][SingletonsNext]_vars

----------------------------------------------------------------------------
MaxCost == CHOOSE m \in Costs : \A c \in Costs : c <= m

\* The caches refer to objects that exist, a builder has at most one, and a
\* session's lock is held by the thread that signs in to it.
SingletonsTypeOK ==
    /\ current \in 0 .. Len(settings) /\ session \in 0 .. Len(sessions)
    /\ \A c \in Cached : Cardinality(cell[c]) <= 1
                         /\ \A o \in cell[c] : o.client \in 0 .. Len(clients) /\ o.seen[1] \in 0 .. Len(settings)
    /\ \A i \in DOMAIN sessions : sessions[i].lock # Free =>
          /\ pc[sessions[i].lock] \in {"read env", "sign in"}
          /\ hold[sessions[i].lock].session = i
    /\ \A w \in Workers : pc[w] = "build" => frames[w] # <<>>

\* What an object was built from is what get_settings returns now.  The memory
\* is left out: deps.py clears it after the orchestrator that holds it.
UpToDate(c, o) ==
    c \in ReadsSettings \ {"rag"} => o.seen = <<current, settings[current]>>

\* When no PATCH and no reload is under way, what the builders have cached was
\* made from the settings in force, with its parts, unless its build, or the
\* build of the part, had begun before that cache was last cleared; and the
\* cached Angel session is signed in with the credentials in force, always.
\* The order in which reset_cached_singletons clears is what this rests on.
CachedIsCurrent ==
    (\A a \in Admins : pc[a] = "idle") /\ ~ halfway =>
        /\ \A c \in Cached : \A o \in cell[c] :
              \/ o.late
              \/ /\ UpToDate(c, o)
                 /\ \A p \in DOMAIN o.parts : o.parts[p].late \/ UpToDate(p, o.parts[p])
        /\ session # 0 => sessions[session].login \in {0, current}

\* Threads that find a session without a login at the same time sign in once
\* (_ensure_logged_in looks again under its lock).
OneLogin == \A i \in DOMAIN sessions : sessions[i].logins <= 1

\* As long as no two calls of a client overlapped, and none was billed without
\* an answer, the client's sum is what it was billed that day, and it was
\* billed less than the cap and one call (LLMClient.chat_json).
LoneClientKeepsCap ==
    \A c \in DOMAIN clients : clients[c].exact =>
        /\ clients[c].bill < Cap + MaxCost
        /\ (\A w \in Workers : hold[w].client = c => pc[w] # "charge")
              => clients[c].spend = clients[c].bill
====
