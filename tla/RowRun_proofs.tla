---------------------------- MODULE RowRun_proofs ----------------------------
(* That one row's starts, restarts and ends are true to each other, for any  *)
(* supervisors, watchdogs, restart budget and loads.                         *)
EXTENDS RowRun, TLAPS

----------------------------------------------------------------------------
(* The invariant.                                                          *)

Active(d) == dogs[d].pc \notin {"unborn", "done"}
Forked    == launch.pc \in {"forked", "settled"}
One(b)    == IF b THEN 1 ELSE 0

\* An end, and a watchdog, in its locked part.
EndHolds(x) == x.pc \notin {"idle", "wants", "done"}
DogHolds(x) == x.pc \in {"backoff", "launching"}

\* The guard is held by the task that is in its locked part, and a launch is its
\* holder's.
Guarded ==
    /\ guard # "observer"
    /\ guard = "create" <=> create.pc = "launching"
    /\ guard = "attach" <=> attach.pc \notin {"idle", "wants"}
    /\ \A e \in Ending : guard = e <=> EndHolds(ends[e])
    /\ \A d \in Dog : guard = d <=> DogHolds(dogs[d])

LaunchIsGuarded ==
    /\ launch.pc # "no" => guard # None
    /\ guard = "create" => launch.pc # "no"
    /\ guard = "attach" => (launch.pc # "no" <=> attach.pc \in {"launching", "replacing"})
    /\ \A e \in Ending : guard = e => (launch.pc # "no" <=> ends[e].pc = "launching")
    /\ \A d \in Dog : guard = d => (launch.pc # "no" <=> dogs[d].pc = "launching")

\* A permit is a create's, a launch's or a reset's, and none is left once the
\* gate has settled.
PermitsAreCounted ==
    /\ gate.inFlight = One(create.pc \in {"admitted", "inserted", "launching"}) + One(launch.pc # "no")
                         + One(attach.pc = "resetting")
    /\ gate.settled # None => gate.closing
    /\ gate.settled = "yes" => gate.inFlight = 0

\* The fence has one holder, and a launch that forked is it or no one is.
FenceIsOne ==
    /\ \A s, t \in Supervisor : Alive(s) /\ Alive(t) => s = t
    /\ \A s \in Supervisor : /\ sups[s].st = "gone" => sups[s].code # None
                             /\ sups[s].st # "unborn" => sups[s].mode # None /\ file
    /\ launch.pc # "no" => launch.mode # None
    /\ IF Forked THEN /\ launch.sup \in Supervisor /\ sups[launch.sup].st # "unborn"
                      /\ \A s \in Supervisor : Alive(s) => s = launch.sup
                      /\ \A d \in Dog : dogs[d].leg # launch.sup
       ELSE launch.sup = None

\* A watchdog acts on a leg that is gone, within its budget; an adopted exit is one.
LegsAreGone ==
    /\ \A d \in Dog :
         /\ dogs[d].pc \notin {"spent", "done"} => dogs[d].never <= MaxRestarts
         /\ dogs[d].leg # None => sups[dogs[d].leg].st # "unborn"
         /\ Active(d) => dogs[d].leg # None /\ (dogs[d].pc # "waiting" => sups[dogs[d].leg].st = "gone")
    /\ obs.pc \in {"watching", "exited"} => obs.sup # None /\ sups[obs.sup].st # "unborn"
    /\ obs.pc = "exited" => sups[obs.sup].st = "gone" /\ obs.code # None

\* Nothing acts on a row that is not registered, and nothing came before it.
RowStands ==
    /\ ~Here => guard = None /\ obs.pc = "none"
    /\ row.on = "absent" => /\ ~file /\ load.boot = "unknown"
                            /\ create.pc \in {"idle", "checked", "admitted"}
                            /\ \A d \in Dog : dogs[d].pc = "unborn"
    /\ load.boot = "unknown" /\ create.n = 0 => row.on = "absent"
    /\ load.boot = "loaded" => file
    /\ create.pc # "idle" => create.n # 0

\* Only a create starts a row afresh.
StartsAreCreates ==
    create.n = 0 => /\ launch.mode # "start"
                    /\ \A s \in Supervisor : sups[s].mode # "start"

\* What answers a selection's reset was launched by that activation.
AuthorityIsOwn ==
    /\ attach.pc \notin {"idle", "wants", "launching"} => attach.intent = "selection"
    /\ attach.own # None => attach.own \in attach.made
    /\ attach.pc \in {"fresh", "resetting"} => \A s \in Supervisor : Alive(s) => s \in attach.made

\* An end that was confirmed has no agent behind it.
EndsAreTrue ==
    \A e \in Ending :
      /\ ends[e].pc \in {"stopping", "ended", "pruned"} => ~Serves
      /\ ends[e].result \in {"row", "forget"} => row.on = "removed" /\ ~Serves
      /\ ends[e].late => e = "close" /\ ends[e].result = "not"
      /\ ends[e].result # None /\ ~ends[e].late => ends[e].pc = "done"

RunInv == /\ TypeOK /\ Guarded /\ LaunchIsGuarded /\ PermitsAreCounted /\ FenceIsOne /\ LegsAreGone
          /\ RowStands /\ StartsAreCreates /\ AuthorityIsOwn /\ EndsAreTrue

----------------------------------------------------------------------------
(* What the model's helpers do to a record.                                *)

LEMMA Names ==
    /\ MaxRestarts \in Nat /\ None \notin Supervisor
    /\ \A d \in Dog : d \notin {None, "create", "attach", "observer", "destroy", "close"}
BY RowRunAssumption DEF Ending

LEMMA Loaded == TypeOK => load \in LoadType
BY RowRunAssumption DEF TypeOK

\* One supervisor, one watchdog or one end moves, and the others do not.
LEMMA SupSet ==
    ASSUME TypeOK, NEW s \in Supervisor, NEW x \in SupType, sups' = [sups EXCEPT ![s] = x]
    PROVE  /\ sups' \in [Supervisor -> SupType] /\ sups'[s] = x
           /\ \A t \in Supervisor : t # s => sups'[t] = sups[t]
BY DEF TypeOK

LEMMA DogSet ==
    ASSUME TypeOK, NEW d \in Dog, NEW x \in DogType, dogs' = [dogs EXCEPT ![d] = x]
    PROVE  /\ dogs' \in [Dog -> DogType] /\ dogs'[d] = x
           /\ \A k \in Dog : k # d => dogs'[k] = dogs[k]
BY DEF TypeOK

LEMMA EndSet ==
    ASSUME TypeOK, NEW e \in Ending, NEW x \in EndType, ends' = [ends EXCEPT ![e] = x]
    PROVE  /\ ends' \in [Ending -> EndType] /\ ends'[e] = x
           /\ \A k \in Ending : k # e => ends'[k] = ends[k]
BY DEF TypeOK

\* A supervisor that is in a state: its record's mode and code stay.
LEMMA SupMoved ==
    ASSUME TypeOK, NEW s \in Supervisor, NEW st \in Live \cup {"gone"}, sups' = [sups EXCEPT ![s].st = st]
    PROVE  /\ sups' \in [Supervisor -> SupType] /\ sups'[s] = [sups[s] EXCEPT !.st = st]
           /\ \A t \in Supervisor : t # s => sups'[t] = sups[t]
<1> DEFINE x == [sups[s] EXCEPT !.st = st]
<1>1. sups[s] \in SupType
  BY DEF TypeOK
<1>2. x \in SupType
  BY <1>1 DEF SupType, Live
<1>3. sups' = [sups EXCEPT ![s] = x]
  BY DEF TypeOK
<1> HIDE DEF x
<1>4. sups' \in [Supervisor -> SupType] /\ sups'[s] = x /\ \A t \in Supervisor : t # s => sups'[t] = sups[t]
  BY <1>2, <1>3, SupSet
<1> QED BY <1>4 DEF x

LEMMA ProbesSay == TypeOK => Probes \subseteq Phases
BY DEF TypeOK, Probes, Answering, Live, Phases, SupType

\* What an end leaves of a row that still stands: its place, its generation, its owner.
SameRow(r, q) == q.on = r.on /\ q.gen = r.gen /\ q.owner = r.owner

LEMMA FedRow ==
    ASSUME NEW r \in RowType, NEW s \in Supervisor, NEW p \in Phases
    PROVE  /\ Fed(r, s, p) \in RowType /\ SameRow(r, Fed(r, s, p))
           /\ Fed(r, s, p).watched = r.watched /\ Fed(r, s, p).ready = r.ready
           /\ Fed(r, s, p).phase = "terminal" => p = "terminal" \/ r.phase = "terminal"
<1> DEFINE c == IF r.sup = None THEN [r EXCEPT !.sup = s, !.phase = "stopped"] ELSE r
<1>1. /\ c \in RowType /\ SameRow(r, c) /\ c.watched = r.watched /\ c.ready = r.ready
      /\ c.phase \in {"stopped", r.phase}
  BY DEF RowType, SameRow, Phases
<1>2. Fed(r, s, p) = IF c.sup # s \/ (c.phase = "terminal" /\ p # "terminal") THEN c ELSE [c EXCEPT !.phase = p]
  BY DEF Fed
<1> HIDE DEF c
<1> QED BY <1>1, <1>2 DEF RowType, SameRow

LEMMA UnlatchedRow ==
    ASSUME TypeOK, NEW p \in Phases
    PROVE  /\ Unlatched(p) \in RowType /\ SameRow(row, Unlatched(p))
           /\ Unlatched(p).phase \in {row.phase, p}
BY DEF Unlatched, TypeOK, RowType, SameRow, Phases

LEMMA LatchedRow ==
    ASSUME TypeOK, NEW p
    PROVE  /\ Latched(p) \in RowType /\ SameRow(row, Latched(p))
BY DEF Latched, TypeOK, RowType, SameRow, Phases

LEMMA RetractedRow ==
    ASSUME TypeOK, NEW d \in Dog
    PROVE  /\ Retracts(d) \in RowType /\ Retracts(d).on = row.on /\ Retracts(d).gen = row.gen
           /\ Retracts(d).phase = row.phase
           /\ Retracts(d).owner = IF row.owner = d THEN None ELSE row.owner
BY DEF Retracts, TypeOK, RowType

LEMMA BegunRow ==
    ASSUME TypeOK, NEW mode \in {"start", "resume"}, Begins(mode)
    PROVE  /\ ~gate.closing
           /\ row' \in RowType /\ row'.on = row.on /\ row'.gen = row.gen + 1 /\ row'.owner = row.owner
           /\ row'.phase = row.phase
           /\ launch' \in LaunchType /\ launch'.pc = "begun" /\ launch'.mode = mode
           /\ launch'.gen = row.gen + 1 /\ launch'.sup = None
           /\ gate' = [gate EXCEPT !.inFlight = gate.inFlight + 1]
<1>1. /\ ~gate.closing /\ gate' = [gate EXCEPT !.inFlight = gate.inFlight + 1]
      /\ row' = [row EXCEPT !.gen = row.gen + 1, !.watched = None, !.ready = FALSE]
  BY DEF Begins, MayStart
<1>2. launch' = [pc |-> "begun", mode |-> mode, gen |-> row.gen + 1, sup |-> None, saw |-> None]
  BY DEF Begins, NoLaunch
<1>3. row \in RowType /\ row.gen + 1 \in Nat
  BY DEF TypeOK, RowType
<1>4. launch' \in LaunchType
  BY <1>2, <1>3 DEF LaunchType
<1>5. row' \in RowType /\ row'.on = row.on /\ row'.gen = row.gen + 1 /\ row'.owner = row.owner /\ row'.phase = row.phase
  BY <1>1, <1>3 DEF RowType
<1> QED BY <1>1, <1>2, <1>4, <1>5

LEMMA Installed ==
    ASSUME TypeOK, NEW d \in Dog, NEW leg \in Supervisor \cup {None}, NEW code \in {None, "crash", "terminal"},
           NEW gen \in Nat, Installs(d, leg, code, gen)
    PROVE  /\ dogs[d].pc = "unborn"
           /\ dogs' \in [Dog -> DogType] /\ \A k \in Dog : k # d => dogs'[k] = dogs[k]
           /\ dogs'[d] = [pc |-> "waiting", leg |-> leg, code |-> code, gen |-> gen, never |-> 0]
           /\ row' \in RowType /\ row'.on = row.on /\ row'.gen = row.gen /\ row'.owner = d
           /\ row'.phase = row.phase
<1> DEFINE x == [pc |-> "waiting", leg |-> leg, code |-> code, gen |-> gen, never |-> 0]
<1>1. 0 \in 0..(MaxRestarts + 1)
  BY Names
<1>2. x \in DogType
  BY <1>1, Zenon DEF DogType
<1>3. dogs' = [dogs EXCEPT ![d] = x] /\ dogs[d].pc = "unborn" /\ row' = [row EXCEPT !.owner = d]
  BY DEF Installs
<1> HIDE DEF x
<1>4. dogs' \in [Dog -> DogType] /\ dogs'[d] = x /\ \A k \in Dog : k # d => dogs'[k] = dogs[k]
  BY <1>2, <1>3, DogSet
<1>5. row' \in RowType /\ row'.on = row.on /\ row'.gen = row.gen /\ row'.owner = d /\ row'.phase = row.phase
  BY <1>3 DEF TypeOK, RowType
<1> QED BY <1>3, <1>4, <1>5 DEF x

\* The budget: what a watchdog may decide of an exit.
LEMMA JudgedDog ==
    ASSUME TypeOK, NEW d \in Dog, dogs[d].never <= MaxRestarts, NEW ready \in BOOLEAN, NEW v \in Judged(d, ready)
    PROVE  LET x == [v[1] EXCEPT !.pc = v[2]]
           IN  /\ x \in DogType /\ x.pc \in {"crashed", "spent"} /\ x.leg = dogs[d].leg /\ x.gen = dogs[d].gen
               /\ x.pc = "crashed" => x.never <= MaxRestarts
<1>1. dogs[d] \in DogType
  BY DEF TypeOK
<1> DEFINE n == IF ready THEN 0 ELSE dogs[d].never + 1
<1>2. n \in 0..(MaxRestarts + 1) /\ dogs[d].never \in Nat
  BY <1>1, Names DEF DogType
<1>3. /\ v[1] = [dogs[d] EXCEPT !.never = n] /\ v[2] \in {"crashed", "spent"}
      /\ v[2] = "crashed" => ready \/ n - 1 < MaxRestarts
  BY DEF Judged
<1>4. v[2] = "crashed" => n <= MaxRestarts
  BY <1>2, <1>3, Names
<1> HIDE DEF n
<1> QED BY <1>1, <1>2, <1>3, <1>4 DEF DogType

LEMMA ToldEnd ==
    ASSUME TypeOK, NEW e \in Ending, NEW r \in {"unlisted", "kept", "gone", "not", "row", "forget"}
    PROVE  /\ Told(e, r) \in EndType /\ Told(e, r).pc = "done" /\ Told(e, r).late = ends[e].late
           /\ Told(e, r).result = IF ends[e].result = None THEN r ELSE ends[e].result
BY DEF Told, TypeOK, EndType

----------------------------------------------------------------------------
(* The guard's turns.                                                      *)

\* h's step: it is in its locked part after it, in a launch or not, or it is not
\* and lets the guard go if it held it.
Turn(h, inside, launching) ==
    IF inside THEN guard \in {None, h} /\ guard' = h /\ (launch'.pc # "no" <=> launching)
    ELSE IF guard = h THEN guard' = None /\ launch'.pc = "no"
    ELSE guard' = guard /\ launch'.pc = launch.pc

\* Who does not move stays in or out of its locked part.
CreateRests == create'.pc = "launching" <=> create.pc = "launching"
AttachRests == attach'.pc = attach.pc
EndsRest(E) == \A k \in E : ends'[k].pc = ends[k].pc
DogsRest(D) ==
    \A k \in D : dogs'[k].pc = dogs[k].pc \/ (~DogHolds(dogs[k]) /\ ~DogHolds(dogs'[k]))

LEMMA CreateTurn ==
    ASSUME TypeOK, Guarded, LaunchIsGuarded, Turn("create", create'.pc = "launching", TRUE),
           AttachRests, EndsRest(Ending), DogsRest(Dog)
    PROVE  Guarded' /\ LaunchIsGuarded'
<1>1. Guarded'
  BY Names DEF None, Guarded, Turn, AttachRests, EndsRest, DogsRest, DogHolds, EndHolds, Ending
<1>2. LaunchIsGuarded'
  BY Names DEF None, Guarded, LaunchIsGuarded, Turn, AttachRests, EndsRest, DogsRest, DogHolds, Ending
<1> QED BY <1>1, <1>2

LEMMA AttachTurn ==
    ASSUME TypeOK, Guarded, LaunchIsGuarded,
           Turn("attach", attach'.pc \notin {"idle", "wants"}, attach'.pc \in {"launching", "replacing"}),
           CreateRests, EndsRest(Ending), DogsRest(Dog)
    PROVE  Guarded' /\ LaunchIsGuarded'
<1>1. Guarded'
  BY Names DEF None, Guarded, Turn, CreateRests, EndsRest, DogsRest, DogHolds, EndHolds, Ending
<1>2. LaunchIsGuarded'
  BY Names DEF None, Guarded, LaunchIsGuarded, Turn, CreateRests, EndsRest, DogsRest, DogHolds, Ending
<1> QED BY <1>1, <1>2

LEMMA EndTurn ==
    ASSUME TypeOK, Guarded, LaunchIsGuarded, NEW e \in Ending,
           Turn(e, EndHolds(ends'[e]), ends'[e].pc = "launching"),
           CreateRests, AttachRests, EndsRest(Ending \ {e}), DogsRest(Dog)
    PROVE  Guarded' /\ LaunchIsGuarded'
<1>1. Guarded'
  BY Names DEF None, Guarded, Turn, CreateRests, AttachRests, EndsRest, DogsRest, DogHolds, EndHolds, Ending
<1>2. LaunchIsGuarded'
  BY Names DEF None, Guarded, LaunchIsGuarded, Turn, CreateRests, AttachRests, EndsRest, DogsRest, DogHolds, EndHolds, Ending
<1> QED BY <1>1, <1>2

LEMMA DogTurn ==
    ASSUME TypeOK, Guarded, LaunchIsGuarded, NEW d \in Dog,
           Turn(d, DogHolds(dogs'[d]), dogs'[d].pc = "launching"),
           CreateRests, AttachRests, EndsRest(Ending), DogsRest(Dog \ {d})
    PROVE  Guarded' /\ LaunchIsGuarded'
<1>1. Guarded'
  BY Names DEF None, Guarded, Turn, CreateRests, AttachRests, EndsRest, DogsRest, DogHolds, EndHolds, Ending
<1>2. LaunchIsGuarded'
  BY Names DEF None, Guarded, LaunchIsGuarded, Turn, CreateRests, AttachRests, EndsRest, DogsRest, DogHolds, EndHolds, Ending
<1> QED BY <1>1, <1>2

----------------------------------------------------------------------------
(* The supervisor's own steps, the launch and the gate.                    *)

\* A living supervisor moves on: nobody is born by it, and what is gone stays so.
LEMMA SupSteps ==
    ASSUME RunInv, NEW s \in Supervisor, Alive(s), NEW x \in SupType, sups' = [sups EXCEPT ![s] = x],
           x.st # "unborn", x.mode = sups[s].mode, x.st = "gone" => x.code # None,
           UNCHANGED <<file, launch, dogs, obs, create>>
    PROVE  /\ sups' \in [Supervisor -> SupType] /\ FenceIsOne' /\ LegsAreGone' /\ StartsAreCreates'
           /\ \A t \in Supervisor : Alive(t)' => Alive(t)
<1>1. /\ sups' \in [Supervisor -> SupType] /\ sups'[s] = x
      /\ \A t \in Supervisor : t # s => sups'[t] = sups[t]
  BY SupSet DEF RunInv
<1>2. \A t \in Supervisor : Alive(t)' => Alive(t)
  BY <1>1 DEF Alive
<1>3. \A t \in Supervisor : /\ sups[t].st = "gone" => sups'[t].st = "gone"
                            /\ sups[t].st # "unborn" => sups'[t].st # "unborn"
                            /\ sups'[t].st # "unborn" => sups[t].st # "unborn"
                            /\ sups'[t].mode = sups[t].mode
                            /\ sups'[t].st = "gone" => sups'[t].code # None
  BY <1>1 DEF Alive, Live, RunInv, FenceIsOne
<1>4. FenceIsOne'
  <2>1. \A a, b \in Supervisor : Alive(a)' /\ Alive(b)' => a = b
    BY <1>2 DEF RunInv, FenceIsOne
  <2>2. \A t \in Supervisor : /\ sups'[t].st = "gone" => sups'[t].code # None
                              /\ sups'[t].st # "unborn" => sups'[t].mode # None /\ file'
    BY <1>3 DEF RunInv, FenceIsOne
  <2>3. launch'.pc # "no" => launch'.mode # None
    BY DEF RunInv, FenceIsOne
  <2>4. IF Forked' THEN /\ launch'.sup \in Supervisor /\ sups'[launch'.sup].st # "unborn"
                        /\ \A t \in Supervisor : Alive(t)' => t = launch'.sup
                        /\ \A d \in Dog : dogs'[d].leg # launch'.sup
        ELSE launch'.sup = None
    BY <1>2, <1>3 DEF RunInv, FenceIsOne, Forked
  <2> QED BY <2>1, <2>2, <2>3, <2>4 DEF FenceIsOne
<1>5. LegsAreGone'
  <2>1. \A d \in Dog : dogs[d] \in DogType
    BY DEF RunInv, TypeOK
  <2>2. obs \in ObsType
    BY DEF RunInv, TypeOK
  <2> QED BY <1>3, <2>1, <2>2 DEF RunInv, LegsAreGone, Active, DogType, ObsType
<1>6. StartsAreCreates'
  BY <1>3 DEF RunInv, StartsAreCreates
<1> QED BY <1>1, <1>2, <1>4, <1>5, <1>6

\* What only a supervisor's step can disturb.
LEMMA SupKeeps ==
    ASSUME RunInv, NEW s \in Supervisor, Alive(s), NEW x \in SupType, sups' = [sups EXCEPT ![s] = x],
           x.st # "unborn", x.mode = sups[s].mode, x.st = "gone" => x.code # None,
           x.st \in Serving => sups[s].st \in Serving, asked' \in BOOLEAN,
           UNCHANGED <<row, guard, file, launch, dogs, create, attach, ends, obs, gate, load>>
    PROVE  RunInv'
<1>1. /\ sups' \in [Supervisor -> SupType] /\ FenceIsOne' /\ LegsAreGone' /\ StartsAreCreates'
      /\ \A t \in Supervisor : Alive(t)' => Alive(t)
  BY SupSteps
<1>2. TypeOK'
  BY <1>1 DEF RunInv, TypeOK
<1>3. Guarded' /\ LaunchIsGuarded' /\ PermitsAreCounted' /\ RowStands'
  BY DEF RunInv, Guarded, LaunchIsGuarded, PermitsAreCounted, RowStands, Here
<1>4. Serves' => Serves
  <2>1. /\ sups'[s] = x
        /\ \A t \in Supervisor : t # s => sups'[t] = sups[t]
    BY SupSet DEF RunInv
  <2> QED BY <2>1 DEF Serves
<1>5. EndsAreTrue'
  BY <1>4 DEF RunInv, EndsAreTrue
<1>6. AuthorityIsOwn'
  BY <1>1 DEF RunInv, AuthorityIsOwn
<1> QED BY <1>1, <1>2, <1>3, <1>5, <1>6 DEF RunInv

LEMMA SupAnswersKeeps ==
    ASSUME RunInv, NEW s \in Supervisor, SupAnswers(s)
    PROVE  RunInv'
<1> DEFINE x == [sups[s] EXCEPT !.st = "starting"]
<1>1. sups[s] \in SupType /\ sups \in [Supervisor -> SupType]
  BY DEF RunInv, TypeOK
<1>2. x \in SupType /\ x.st = "starting" /\ x.mode = sups[s].mode
  BY <1>1 DEF SupType, Live
<1>3. sups' = [sups EXCEPT ![s] = x] /\ Alive(s) /\ sups[s].st \in Serving
  BY <1>1 DEF SupAnswers, Alive, Live, Serving
<1> HIDE DEF x
<1> QED BY <1>2, <1>3, SupKeeps DEF SupAnswers, RunInv, TypeOK

LEMMA SupRunsKeeps ==
    ASSUME RunInv, NEW s \in Supervisor, SupRuns(s)
    PROVE  RunInv'
<1> DEFINE st == IF sups[s].mode = "resume" /\ asked THEN "ended" ELSE "ready"
           x == [sups[s] EXCEPT !.st = st]
<1>1. sups[s] \in SupType /\ sups \in [Supervisor -> SupType] /\ asked \in BOOLEAN
  BY DEF RunInv, TypeOK
<1>2. x \in SupType /\ x.st \in {"ended", "ready"} /\ x.mode = sups[s].mode
  BY <1>1 DEF SupType, Live
<1>3. sups' = [sups EXCEPT ![s] = x] /\ Alive(s) /\ sups[s].st \in Serving /\ asked' \in BOOLEAN
  BY <1>1 DEF SupRuns, Alive, Live, Serving
<1> HIDE DEF x
<1> QED BY <1>2, <1>3, SupKeeps DEF SupRuns

LEMMA SupTerminalKeeps ==
    ASSUME RunInv, NEW s \in Supervisor, SupTerminal(s)
    PROVE  RunInv'
<1> DEFINE x == [sups[s] EXCEPT !.st = "terminal"]
<1>1. sups[s] \in SupType /\ sups \in [Supervisor -> SupType] /\ asked \in BOOLEAN
  BY DEF RunInv, TypeOK
<1>2. x \in SupType /\ x.st = "terminal" /\ x.mode = sups[s].mode /\ x.st \notin Serving
  BY <1>1 DEF SupType, Live, Serving
<1>3. sups' = [sups EXCEPT ![s] = x] /\ Alive(s) /\ asked' \in BOOLEAN
  BY <1>1 DEF SupTerminal, Alive, Live
<1> HIDE DEF x
<1> QED BY <1>2, <1>3, SupKeeps DEF SupTerminal

LEMMA SupDiesKeeps ==
    ASSUME RunInv, NEW s \in Supervisor, SupDies(s)
    PROVE  RunInv'
<1>1. sups[s] \in SupType /\ sups \in [Supervisor -> SupType] /\ asked \in BOOLEAN
  BY DEF RunInv, TypeOK
<1>2. PICK code \in {"crash", "terminal"} : sups' = [sups EXCEPT ![s].st = "gone", ![s].code = code]
  BY DEF SupDies
<1> DEFINE x == [sups[s] EXCEPT !.st = "gone", !.code = code]
<1>3. /\ x \in SupType /\ x.st = "gone" /\ x.code = code /\ x.mode = sups[s].mode /\ x.st \notin Serving
      /\ x.code # None
  BY <1>1 DEF SupType, Serving, None
<1>4. sups' = [sups EXCEPT ![s] = x] /\ Alive(s) /\ asked' \in BOOLEAN
  BY <1>1, <1>2 DEF SupDies
<1> HIDE DEF x
<1> QED BY <1>3, <1>4, SupKeeps DEF SupDies

\* The launch goes on: the fork and its answer belong to whoever holds the guard.
LEMMA LaunchGoesOn ==
    ASSUME RunInv, launch.pc # "no", launch'.pc # "no",
           UNCHANGED <<row, guard, dogs, create, attach, ends, obs, gate, load>>, file => file',
           row.on = "absent" => file' = file
    PROVE  Guarded' /\ LaunchIsGuarded' /\ PermitsAreCounted' /\ RowStands'
<1>1. Guarded' /\ LaunchIsGuarded'
  BY DEF RunInv, Guarded, LaunchIsGuarded
<1>2. PermitsAreCounted'
  BY DEF RunInv, PermitsAreCounted, One
<1>3. RowStands'
  BY DEF RunInv, TypeOK, RowStands, Here
<1> QED BY <1>1, <1>2, <1>3

\* A launch is made for a row that stands.
LEMMA LaunchedRowStands == RunInv /\ launch.pc # "no" => Here /\ guard # None
BY DEF RunInv, LaunchIsGuarded, RowStands, Here

\* While a launch is in flight no reset is, and no end is confirmed.
LEMMA LaunchIsAlone ==
    ASSUME RunInv, launch.pc # "no"
    PROVE  /\ attach.pc \notin {"fresh", "resetting", "stale", "retired"}
           /\ \A e \in Ending : ends[e].pc \notin {"stopping", "ended", "pruned"}
           /\ \A e \in Ending : ends[e].result \notin {"row", "forget"}
<1>1. attach.pc \notin {"fresh", "resetting", "stale", "retired"}
  BY DEF RunInv, Guarded, LaunchIsGuarded
<1>2. \A e \in Ending : ends[e].pc \notin {"stopping", "ended", "pruned"}
  BY DEF RunInv, Guarded, LaunchIsGuarded, EndHolds
<1>3. row.on # "removed"
  BY LaunchedRowStands DEF Here
<1>4. \A e \in Ending : ends[e].result \notin {"row", "forget"}
  BY <1>3 DEF RunInv, EndsAreTrue
<1> QED BY <1>1, <1>2, <1>4

LEMMA ForkKeeps ==
    ASSUME RunInv, Fork
    PROVE  RunInv'
<1>1. /\ launch.pc = "begun" /\ UNCHANGED <<row, guard, asked, dogs, create, attach, ends, obs, gate, load>>
      /\ launch \in LaunchType /\ sups \in [Supervisor -> SupType] /\ file \in BOOLEAN
  BY DEF Fork, RunInv, TypeOK
<1>2. CASE \E pc \in {"contended", "failed"} : launch' = [launch EXCEPT !.pc = pc] /\ UNCHANGED sups /\ file' \in {file, TRUE}
  <2>1. PICK pc \in {"contended", "failed"} : launch' = [launch EXCEPT !.pc = pc]
    BY <1>2
  <2>2. /\ launch' \in LaunchType /\ launch'.pc = pc /\ launch'.mode = launch.mode /\ launch'.sup = launch.sup
        /\ launch'.gen = launch.gen
    BY <1>1, <2>1 DEF LaunchType
  <2>3. launch.pc # "no" /\ launch'.pc # "no" /\ ~Forked /\ ~Forked' /\ sups' = sups
    BY <1>1, <1>2, <2>2 DEF Forked
  <2>8. (file => file') /\ file' \in BOOLEAN
    <3>1. file' = file \/ file' = TRUE
      BY <1>2
    <3>2. file \in BOOLEAN
      BY <1>1
    <3>3. CASE file' = file
      BY <3>2, <3>3
    <3>4. CASE file' = TRUE
      BY <3>4
    <3> QED BY <3>1, <3>3, <3>4
  <2>4. row.on # "absent"
    BY <1>1, LaunchedRowStands DEF Here
  <2>5. Guarded' /\ LaunchIsGuarded' /\ PermitsAreCounted' /\ RowStands'
    BY <1>1, <2>3, <2>4, <2>8, LaunchGoesOn
  <2>6. FenceIsOne'
    BY <1>1, <2>2, <2>3, <2>8 DEF RunInv, FenceIsOne, Alive
  <2>9. TypeOK'
    BY <1>1, <2>2, <2>3, <2>8 DEF RunInv, TypeOK
  <2>7. LegsAreGone' /\ StartsAreCreates' /\ AuthorityIsOwn' /\ EndsAreTrue'
    BY <1>1, <2>2, <2>3 DEF RunInv, LegsAreGone, Active, StartsAreCreates, AuthorityIsOwn, Alive, EndsAreTrue, Serves
  <2> QED BY <2>5, <2>6, <2>7, <2>9 DEF RunInv
<1>3. ASSUME ~FenceHeld, NEW s \in Supervisor, sups[s].st = "unborn",
             sups' = [sups EXCEPT ![s] = [st |-> "coming", mode |-> launch.mode, code |-> None]],
             launch' = [launch EXCEPT !.pc = "forked", !.sup = s], file' = TRUE
      PROVE  RunInv'
  <2> DEFINE x == [st |-> "coming", mode |-> launch.mode, code |-> None]
  <2>1. x \in SupType
    BY <1>1 DEF SupType, LaunchType, Live
  <2>2. /\ sups' \in [Supervisor -> SupType] /\ sups'[s] = x
        /\ \A t \in Supervisor : t # s => sups'[t] = sups[t]
    BY <1>3, <2>1, SupSet DEF RunInv
  <2>3. /\ launch' \in LaunchType /\ launch'.pc = "forked" /\ launch'.mode = launch.mode /\ launch'.sup = s
        /\ launch'.gen = launch.gen
    BY <1>1, <1>3 DEF LaunchType
  <2>4. TypeOK'
    BY <1>1, <1>3, <2>2, <2>3 DEF RunInv, TypeOK
  <2>5. row.on # "absent" /\ row.on # "removed"
    BY <1>1, LaunchedRowStands DEF Here
  <2>6. Guarded' /\ LaunchIsGuarded' /\ PermitsAreCounted' /\ RowStands'
    BY <1>1, <1>3, <2>3, <2>5, LaunchGoesOn
  <2>7. \A t \in Supervisor : /\ ~Alive(t) /\ sups[t].st # "coming"
                              /\ Alive(t)' => t = s
                              /\ t # s => sups'[t].st = sups[t].st /\ sups'[t].code = sups[t].code
                                          /\ sups'[t].mode = sups[t].mode
    BY <1>3, <2>2 DEF FenceHeld, Alive, Live
  <2>8. sups'[s].st = "coming" /\ sups'[s].mode = launch.mode
    BY <2>2
  <2>9. FenceIsOne'
    <3>1. \A d \in Dog : dogs'[d].leg # launch'.sup
      BY <1>1, <1>3, <2>3, Names DEF RunInv, LegsAreGone
    <3>2. \A t \in Supervisor : /\ sups'[t].st = "gone" => sups'[t].code # None
                                /\ sups'[t].st # "unborn" => sups'[t].mode # None /\ file'
      BY <1>1, <1>3, <2>7, <2>8 DEF RunInv, FenceIsOne
    <3>3. launch'.mode # None
      BY <1>1, <2>3 DEF RunInv, FenceIsOne
    <3>4. \A a, b \in Supervisor : Alive(a)' /\ Alive(b)' => a = b
      BY <2>7
    <3> QED BY <2>3, <2>7, <2>8, <3>1, <3>2, <3>3, <3>4 DEF FenceIsOne, Forked
  <2>10. LegsAreGone'
    <3>1. \A d \in Dog : dogs[d] \in DogType
      BY DEF RunInv, TypeOK
    <3>2. obs \in ObsType
      BY DEF RunInv, TypeOK
    <3> QED BY <1>1, <1>3, <2>7, <2>8, <3>1, <3>2 DEF RunInv, LegsAreGone, Active, DogType, ObsType
  <2>11. StartsAreCreates'
    BY <1>1, <2>3, <2>7, <2>8 DEF RunInv, StartsAreCreates
  <2>12. AuthorityIsOwn'
    BY <1>1, LaunchIsAlone DEF RunInv, AuthorityIsOwn
  <2>13. EndsAreTrue'
    BY <1>1, LaunchIsAlone DEF RunInv, EndsAreTrue
  <2> QED BY <2>4, <2>6, <2>9, <2>10, <2>11, <2>12, <2>13 DEF RunInv
<1> QED BY <1>2, <1>3 DEF Fork

LEMMA SettleKeeps ==
    ASSUME RunInv, Settle
    PROVE  RunInv'
<1>1. /\ launch.pc = "forked" /\ launch \in LaunchType
      /\ UNCHANGED <<row, guard, sups, file, asked, dogs, create, attach, ends, obs, gate, load>>
  BY DEF Settle, RunInv, TypeOK
<1>2. PICK p \in Probes : launch' = [launch EXCEPT !.pc = "settled", !.saw = p]
  BY DEF Settle
<1>3. p \in Phases
  BY ProbesSay DEF RunInv
<1>4. /\ launch' \in LaunchType /\ launch'.pc = "settled" /\ launch'.mode = launch.mode /\ launch'.sup = launch.sup
      /\ launch'.gen = launch.gen
  BY <1>1, <1>2, <1>3 DEF LaunchType
<1>5. TypeOK'
  BY <1>1, <1>4 DEF RunInv, TypeOK
<1>6. Guarded' /\ LaunchIsGuarded' /\ PermitsAreCounted' /\ RowStands'
  BY <1>1, <1>4, LaunchGoesOn
<1>7. FenceIsOne'
  BY <1>1, <1>4 DEF RunInv, FenceIsOne, Forked, Alive
<1>8. LegsAreGone' /\ StartsAreCreates' /\ AuthorityIsOwn' /\ EndsAreTrue'
  BY <1>1, <1>4 DEF RunInv, LegsAreGone, Active, StartsAreCreates, AuthorityIsOwn, Alive, EndsAreTrue, Serves
<1> QED BY <1>5, <1>6, <1>7, <1>8 DEF RunInv

\* What the gate's own steps leave alone.
LEMMA GateKeeps ==
    ASSUME RunInv, gate' \in GateType, gate'.inFlight = gate.inFlight, gate.closing => gate'.closing,
           gate'.settled # None => gate'.closing,
           gate'.settled = "yes" => gate.inFlight = 0,
           UNCHANGED <<row, guard, sups, file, asked, launch, dogs, create, attach, ends, obs, load>>
    PROVE  RunInv'
<1>1. TypeOK'
  BY DEF RunInv, TypeOK
<1>2. PermitsAreCounted'
  BY DEF RunInv, PermitsAreCounted, One
<1>3. Guarded' /\ LaunchIsGuarded' /\ FenceIsOne' /\ LegsAreGone' /\ RowStands'
  BY DEF RunInv, Guarded, LaunchIsGuarded, FenceIsOne, Forked, Alive, LegsAreGone, Active, RowStands, Here
<1>4. StartsAreCreates' /\ AuthorityIsOwn' /\ EndsAreTrue'
  BY DEF RunInv, StartsAreCreates, AuthorityIsOwn, Alive, EndsAreTrue, Serves
<1> QED BY <1>1, <1>2, <1>3, <1>4 DEF RunInv

LEMMA CloseGateKeeps ==
    ASSUME RunInv, CloseGate
    PROVE  RunInv'
<1>1. gate \in GateType
  BY DEF RunInv, TypeOK
<1>2. /\ gate' \in GateType /\ gate'.inFlight = gate.inFlight /\ gate'.closing /\ gate'.settled = gate.settled
  BY <1>1 DEF CloseGate, GateType
<1> QED BY <1>2, GateKeeps DEF CloseGate, RunInv, PermitsAreCounted

LEMMA GateSettlesKeeps ==
    ASSUME RunInv, GateSettles
    PROVE  RunInv'
<1>1. gate \in GateType
  BY DEF RunInv, TypeOK
<1>2. /\ gate' \in GateType /\ gate'.inFlight = gate.inFlight /\ gate'.closing
      /\ gate'.settled = "yes" => gate.inFlight = 0
  BY <1>1 DEF GateSettles, GateType
<1> QED BY <1>2, GateKeeps DEF GateSettles

----------------------------------------------------------------------------
(* The observer's steps.                                                   *)

\* A row that moves while it stands where it stood.
LEMMA RowMoves ==
    ASSUME RunInv, row'.on = row.on,
           UNCHANGED <<guard, sups, file, asked, launch, create, attach, ends, gate, load>>
    PROVE  /\ PermitsAreCounted' /\ StartsAreCreates' /\ AuthorityIsOwn' /\ EndsAreTrue'
           /\ dogs' = dogs => Guarded' /\ LaunchIsGuarded' /\ FenceIsOne'
<1>1. PermitsAreCounted' /\ StartsAreCreates' /\ AuthorityIsOwn'
  BY DEF RunInv, PermitsAreCounted, One, StartsAreCreates, AuthorityIsOwn, Alive
<1>2. EndsAreTrue'
  BY DEF RunInv, EndsAreTrue, Serves
<1>3. dogs' = dogs => Guarded' /\ LaunchIsGuarded' /\ FenceIsOne'
  BY DEF RunInv, Guarded, LaunchIsGuarded, FenceIsOne, Forked, Alive
<1> QED BY <1>1, <1>2, <1>3

LEMMA ObsKeeps ==
    ASSUME RunInv, row' \in RowType, row'.on = row.on, obs' \in ObsType,
           ~Here => obs'.pc = "none",
           obs'.pc \in {"watching", "exited"} => obs'.sup # None /\ sups[obs'.sup].st # "unborn",
           obs'.pc = "exited" => sups[obs'.sup].st = "gone" /\ obs'.code # None,
           UNCHANGED <<guard, sups, file, asked, launch, dogs, create, attach, ends, gate, load>>
    PROVE  RunInv'
<1>1. TypeOK'
  BY DEF RunInv, TypeOK
<1>2. /\ PermitsAreCounted' /\ StartsAreCreates' /\ AuthorityIsOwn' /\ EndsAreTrue'
      /\ Guarded' /\ LaunchIsGuarded' /\ FenceIsOne'
  BY RowMoves
<1>3. LegsAreGone'
  BY DEF RunInv, LegsAreGone, Active
<1>4. RowStands'
  BY DEF RunInv, RowStands, Here
<1> QED BY <1>1, <1>2, <1>3, <1>4 DEF RunInv

\* What the observer does leaves the row where it is, at its generation and owned as it was.
LEMMA RoundBeginsStep ==
    ASSUME RunInv, RoundBegins
    PROVE  /\ row' \in RowType /\ SameRow(row, row') /\ obs' \in ObsType /\ Here
           /\ obs'.pc \in {"idle", "dialing"}
           /\ row'.phase = "terminal" => row.phase = "terminal"
<1>1. row \in RowType /\ obs \in ObsType /\ obs.pc = "idle" /\ Here
  BY DEF RunInv, TypeOK, RoundBegins
<1>2. CASE file
  <2>1. obs' = [NoRound EXCEPT !.pc = "dialing", !.gen = row.gen] /\ row' = row
    BY <1>2 DEF RoundBegins
  <2>2. obs' = [pc |-> "dialing", gen |-> row.gen, sup |-> None, code |-> None]
    BY <2>1 DEF NoRound
  <2> QED BY <1>1, <2>1, <2>2 DEF RowType, ObsType, SameRow
<1>3. CASE ~file
  <2>1. row' = Unlatched("stopped") /\ obs' = obs /\ "stopped" \in Phases
    BY <1>3 DEF RoundBegins, Phases
  <2> QED BY <1>1, <2>1, UnlatchedRow DEF RunInv
<1> QED BY <1>2, <1>3

LEMMA RoundBeginsKeeps ==
    ASSUME RunInv, RoundBegins
    PROVE  RunInv'
BY RoundBeginsStep, ObsKeeps DEF RoundBegins, SameRow

LEMMA NoRoundIs == NoRound \in ObsType /\ NoRound.pc = "idle" /\ Unwatched \in ObsType /\ Unwatched.pc = "none"
BY DEF NoRound, Unwatched, ObsType

LEMMA DialFailsStep ==
    ASSUME RunInv, DialFails
    PROVE  /\ row' \in RowType /\ SameRow(row, row') /\ obs' \in ObsType /\ Here
           /\ obs'.pc = "idle"
           /\ row'.phase = "terminal" => row.phase = "terminal"
<1>1. row \in RowType /\ obs.pc = "dialing" /\ obs' = NoRound
  BY DEF RunInv, TypeOK, DialFails
<1>2. row' = row \/ row' = Unlatched("unreachable")
  BY DEF DialFails
<1>3. "unreachable" \in Phases
  BY DEF Phases
<1>4. /\ Unlatched("unreachable") \in RowType /\ SameRow(row, Unlatched("unreachable"))
      /\ Unlatched("unreachable").phase \in {row.phase, "unreachable"}
  BY <1>3, UnlatchedRow DEF RunInv
<1>5. SameRow(row, row)
  BY DEF SameRow
<1>6. row' \in RowType /\ SameRow(row, row') /\ row'.phase \in {row.phase, "unreachable"}
  BY <1>1, <1>2, <1>4, <1>5
<1>7. Here
  BY <1>1 DEF RunInv, RowStands
<1> QED BY <1>1, <1>6, <1>7, NoRoundIs

LEMMA DialFailsKeeps ==
    ASSUME RunInv, DialFails
    PROVE  RunInv'
BY DialFailsStep, ObsKeeps DEF DialFails, SameRow

\* A reply is of a supervisor that lives, in the phase it is in.
LEMMA DialAnsweredStep ==
    ASSUME RunInv, NEW s \in Supervisor, DialAnswered(s)
    PROVE  /\ row' \in RowType /\ SameRow(row, row') /\ obs' \in ObsType /\ Here
           /\ obs'.pc = "idle" \/ (obs'.pc = "watching" /\ obs'.sup = s /\ obs'.gen = row.gen)
           /\ Alive(s)
           /\ row'.phase = "terminal" => row.phase = "terminal" \/ sups[s].st = "terminal"
<1>1. row \in RowType /\ obs \in ObsType /\ obs.pc = "dialing" /\ s \in Answering /\ Here
  BY DEF RunInv, TypeOK, DialAnswered, RowStands
<1>2. Alive(s) /\ sups[s].st \in Phases
  BY <1>1 DEF Answering, Alive, Live, Phases
<1>3. CASE Recorded(s) = {}
  <2>1. obs' = NoRound /\ row' = row
    BY <1>3 DEF DialAnswered
  <2> QED BY <1>1, <1>2, <2>1, NoRoundIs DEF SameRow
<1>4. CASE Recorded(s) # {}
  <2>1. obs' = [obs EXCEPT !.pc = "watching", !.sup = s] /\ row' \in Recorded(s)
    BY <1>4 DEF DialAnswered
  <2> DEFINE epoch == IF row.sup = s THEN row ELSE [row EXCEPT !.sup = s, !.phase = "stopped"]
             f == Fed(epoch, s, sups[s].st)
             ready == sups[s].st = "ready" \/ (row.watched = s /\ row.ready)
  <2>2. row.gen = obs.gen /\ row' = [f EXCEPT !.watched = s, !.ready = ready]
    BY <2>1 DEF Recorded
  <2>3. epoch \in RowType /\ SameRow(row, epoch) /\ epoch.phase \in {row.phase, "stopped"}
    BY <1>1 DEF RowType, SameRow, Phases
  <2> HIDE DEF epoch
  <2>4. f \in RowType /\ SameRow(epoch, f) /\ (f.phase = "terminal" => sups[s].st = "terminal" \/ epoch.phase = "terminal")
    BY <1>2, <2>3, FedRow
  <2>5. ready \in BOOLEAN
    OBVIOUS
  <2> HIDE DEF f, ready
  <2>6. row' \in RowType /\ SameRow(f, row') /\ row'.phase = f.phase
    BY <2>2, <2>4, <2>5 DEF RowType, SameRow
  <2>7. obs' \in ObsType /\ obs'.pc = "watching" /\ obs'.sup = s /\ obs'.gen = row.gen
    BY <1>1, <2>1, <2>2 DEF ObsType
  <2> QED BY <1>1, <1>2, <2>3, <2>4, <2>6, <2>7 DEF SameRow
<1> QED BY <1>3, <1>4

LEMMA DialAnsweredKeeps ==
    ASSUME RunInv, NEW s \in Supervisor, DialAnswered(s)
    PROVE  RunInv'
<1>1. Alive(s) => sups[s].st # "unborn"
  BY DEF Alive, Live
<1> QED BY <1>1, DialAnsweredStep, ObsKeeps, Names DEF DialAnswered, SameRow

LEMMA WatchTellsStep ==
    ASSUME RunInv, WatchTells
    PROVE  /\ row' \in RowType /\ SameRow(row, row') /\ obs.sup \in Supervisor /\ Alive(obs.sup)
           /\ row'.phase = "terminal" => row.phase = "terminal" \/ sups[obs.sup].st = "terminal"
<1>1. row \in RowType /\ obs.sup \in Answering
  BY DEF RunInv, TypeOK, WatchTells
<1>2. obs.sup \in Supervisor /\ Alive(obs.sup) /\ sups[obs.sup].st \in Phases
  BY <1>1 DEF Answering, Alive, Live, Phases
<1> DEFINE f == Fed(row, obs.sup, sups[obs.sup].st)
           ready == f.ready \/ (sups[obs.sup].st = "ready" /\ row.watched = obs.sup)
<1>3. f \in RowType /\ SameRow(row, f) /\ (f.phase = "terminal" => sups[obs.sup].st = "terminal" \/ row.phase = "terminal")
  BY <1>1, <1>2, FedRow
<1>4. row' = [f EXCEPT !.ready = ready]
  BY DEF WatchTells
<1>5. ready \in BOOLEAN
  OBVIOUS
<1> HIDE DEF f, ready
<1> QED BY <1>2, <1>3, <1>4, <1>5 DEF RowType, SameRow

LEMMA WatchTellsKeeps ==
    ASSUME RunInv, WatchTells
    PROVE  RunInv'
<1>1. row' \in RowType /\ row'.on = row.on /\ obs' = obs
  BY WatchTellsStep DEF SameRow, WatchTells
<1>2. /\ obs' \in ObsType
      /\ ~Here => obs'.pc = "none"
      /\ obs'.pc \in {"watching", "exited"} => obs'.sup # None /\ sups[obs'.sup].st # "unborn"
      /\ obs'.pc = "exited" => sups[obs'.sup].st = "gone" /\ obs'.code # None
  BY <1>1 DEF RunInv, TypeOK, RowStands, LegsAreGone
<1> QED BY <1>1, <1>2, ObsKeeps DEF WatchTells

LEMMA WatchEndsStep ==
    ASSUME RunInv, WatchEnds
    PROVE  /\ row' \in RowType /\ SameRow(row, row') /\ obs' \in ObsType /\ Here
           /\ \/ obs'.pc = "idle"
              \/ /\ obs'.pc = "exited" /\ obs'.sup = obs.sup /\ obs.sup # None /\ obs'.gen = obs.gen
                 /\ sups[obs.sup].st = "gone" /\ obs'.code # None /\ Unhandled
           /\ row'.phase = "terminal" => row.phase = "terminal"
<1>1. /\ row \in RowType /\ obs \in ObsType /\ obs.pc = "watching" /\ Here
      /\ obs.sup \in Supervisor /\ sups[obs.sup] \in SupType /\ sups[obs.sup].st # "unborn"
  BY DEF RunInv, TypeOK, WatchEnds, RowStands, LegsAreGone, ObsType
<1>2. CASE Alive(obs.sup) /\ obs' = NoRound /\ UNCHANGED row
  BY <1>1, <1>2, NoRoundIs DEF SameRow
<1>3. CASE ~Alive(obs.sup)
  <2>1. row' = IF row.gen = obs.gen /\ row.phase # "terminal" THEN [row EXCEPT !.phase = "unreachable"] ELSE row
    BY <1>3 DEF WatchEnds
  <2>2. row' \in RowType /\ SameRow(row, row') /\ (row'.phase = "terminal" => row.phase = "terminal")
    BY <1>1, <2>1 DEF RowType, SameRow, Phases
  <2>3. PICK code \in {sups[obs.sup].code, "crash"} :
           obs' = IF code # "clean" /\ Unhandled THEN [obs EXCEPT !.pc = "exited", !.code = code] ELSE NoRound
    BY <1>3 DEF WatchEnds
  <2>4. sups[obs.sup].st = "gone" /\ sups[obs.sup].code # None
    BY <1>1, <1>3 DEF Alive, SupType, RunInv, FenceIsOne
  <2>5. CASE code # "clean" /\ Unhandled
    <3>1. code \in {"crash", "terminal"}
      BY <1>1, <2>3, <2>4, <2>5 DEF SupType
    <3>2. obs' \in ObsType /\ obs'.pc = "exited" /\ obs'.sup = obs.sup /\ obs'.gen = obs.gen /\ obs'.code # None
      BY <1>1, <2>3, <2>5, <3>1 DEF ObsType, None
    <3> QED BY <1>1, <2>2, <2>4, <2>5, <3>2, Names
  <2>6. CASE ~(code # "clean" /\ Unhandled)
    BY <1>1, <2>2, <2>3, <2>6, NoRoundIs
  <2> QED BY <2>5, <2>6
<1> QED BY <1>2, <1>3 DEF WatchEnds

LEMMA WatchEndsKeeps ==
    ASSUME RunInv, WatchEnds
    PROVE  RunInv'
<1>1. /\ row' \in RowType /\ SameRow(row, row') /\ obs' \in ObsType /\ Here
      /\ \/ obs'.pc = "idle"
         \/ /\ obs'.pc = "exited" /\ obs'.sup = obs.sup /\ obs.sup # None
            /\ sups[obs.sup].st = "gone" /\ obs'.code # None
  BY WatchEndsStep
<1> QED BY <1>1, ObsKeeps DEF WatchEnds, SameRow

LEMMA AdoptsStep ==
    ASSUME RunInv, Adopts
    PROVE  /\ obs.pc = "exited" /\ obs' = NoRound /\ Here /\ guard = None /\ obs.sup \in Supervisor
           /\ sups[obs.sup].st = "gone"
           /\ \/ dogs' = dogs /\ row' = row
              \/ \E d \in Dog :
                   /\ dogs[d].pc = "unborn" /\ row.gen = obs.gen /\ row.owner = None
                   /\ dogs' \in [Dog -> DogType] /\ \A k \in Dog : k # d => dogs'[k] = dogs[k]
                   /\ dogs'[d] = [pc |-> "waiting", leg |-> obs.sup, code |-> obs.code, gen |-> row.gen, never |-> 0]
                   /\ row' \in RowType /\ row'.on = row.on /\ row'.gen = row.gen /\ row'.owner = d
                   /\ row'.phase = row.phase
<1>1. /\ obs.pc = "exited" /\ obs' = NoRound /\ guard = None /\ obs \in ObsType
      /\ obs.sup # None /\ Here /\ sups[obs.sup].st = "gone"
  BY DEF RunInv, TypeOK, Adopts, RowStands, LegsAreGone
<1>2. /\ obs.sup \in Supervisor /\ obs.code \in {None, "crash", "terminal"} /\ obs.gen \in Nat
  BY <1>1 DEF ObsType
<1>3. CASE dogs' = dogs /\ row' = row
  BY <1>1, <1>2, <1>3
<1>4. CASE Unhandled /\ \E d \in Dog : Installs(d, obs.sup, obs.code, obs.gen)
  <2>1. PICK d \in Dog : Installs(d, obs.sup, obs.code, obs.gen)
    BY <1>4
  <2>2. row.gen = obs.gen /\ row.owner = None
    BY <1>4 DEF Unhandled
  <2> QED BY <1>1, <1>2, <2>1, <2>2, Installed DEF RunInv
<1> QED BY <1>3, <1>4 DEF Adopts

\* A watchdog installed on a leg that was launched, no launch being left.
LEMMA NewDog ==
    ASSUME RunInv, NEW d \in Dog, NEW leg \in Supervisor, NEW code, NEW gen,
           dogs[d].pc = "unborn", sups[leg].st # "unborn",
           \A k \in Dog : k # d => dogs'[k] = dogs[k],
           dogs'[d] = [pc |-> "waiting", leg |-> leg, code |-> code, gen |-> gen, never |-> 0],
           launch'.pc = "no", launch'.sup = None, sups' = sups, file' = file,
           obs' = obs \/ obs'.pc = "idle"
    PROVE  FenceIsOne' /\ LegsAreGone' /\ DogsRest(Dog)
<1>1. /\ dogs'[d].pc = "waiting" /\ dogs'[d].leg = leg /\ dogs'[d].never = 0
  OBVIOUS
<1>2. FenceIsOne'
  BY DEF RunInv, FenceIsOne, Forked, Alive
<1>3. LegsAreGone'
  BY <1>1, Names DEF RunInv, LegsAreGone, Active
<1>4. DogsRest(Dog)
  BY <1>1 DEF DogsRest, DogHolds
<1> QED BY <1>2, <1>3, <1>4

LEMMA AdoptsKeeps ==
    ASSUME RunInv, Adopts
    PROVE  RunInv'
<1>1. /\ obs.pc = "exited" /\ obs' = NoRound /\ Here /\ guard = None /\ obs.sup \in Supervisor
      /\ sups[obs.sup].st = "gone"
      /\ UNCHANGED <<guard, sups, file, asked, launch, create, attach, ends, gate, load>>
  BY AdoptsStep DEF Adopts
<1>2. CASE dogs' = dogs /\ row' = row
  <2>1. obs' \in ObsType /\ obs'.pc = "idle" /\ row' \in RowType
    BY <1>1, <1>2, NoRoundIs DEF RunInv, TypeOK
  <2> QED BY <1>1, <1>2, <2>1, ObsKeeps
<1>3. ASSUME NEW d \in Dog, dogs[d].pc = "unborn",
             dogs' \in [Dog -> DogType], \A k \in Dog : k # d => dogs'[k] = dogs[k],
             dogs'[d] = [pc |-> "waiting", leg |-> obs.sup, code |-> obs.code, gen |-> row.gen, never |-> 0],
             row' \in RowType, row'.on = row.on
      PROVE  RunInv'
  <2>1. obs' \in ObsType /\ obs'.pc = "idle"
    BY <1>1, NoRoundIs
  <2>2. TypeOK'
    BY <1>1, <1>3, <2>1 DEF RunInv, TypeOK
  <2>3. launch.pc = "no" /\ launch.sup = None
    BY <1>1 DEF RunInv, LaunchIsGuarded, FenceIsOne, Forked
  <2>4. PermitsAreCounted' /\ StartsAreCreates' /\ AuthorityIsOwn' /\ EndsAreTrue'
    BY <1>1, <1>3, RowMoves
  <2>5. FenceIsOne' /\ LegsAreGone' /\ DogsRest(Dog)
    BY <1>1, <1>3, <2>1, <2>3, NewDog
  <2>6. Guarded' /\ LaunchIsGuarded'
    <3>1. attach.pc \in {"idle", "wants"}
      BY <1>1 DEF RunInv, Guarded, None
    <3> QED BY <1>1, <2>3, <2>5, <3>1, AttachTurn DEF RunInv, Turn, CreateRests, EndsRest, None
  <2>7. RowStands'
    BY <1>1, <1>3, <2>1 DEF RunInv, RowStands, Here
  <2> QED BY <2>2, <2>4, <2>5, <2>6, <2>7 DEF RunInv
<1> QED BY <1>2, <1>3, AdoptsStep

----------------------------------------------------------------------------
(* The create's steps.                                                     *)

\* What the observer, the watchdogs and the supervisors see of a step that is
\* none of theirs.
LEMMA OthersKeep ==
    ASSUME RunInv, UNCHANGED <<sups, file, dogs>>
    PROVE  /\ Forked' = Forked /\ launch'.sup = launch.sup /\ (launch'.pc # "no" => launch'.mode # None) => FenceIsOne'
           /\ launch'.pc \notin {"forked", "settled"} /\ launch'.sup = None
                /\ (launch'.pc # "no" => launch'.mode # None) => FenceIsOne'
           /\ obs' = obs => LegsAreGone'
           /\ obs' \in {NoRound, Unwatched} => LegsAreGone'
<1>1. Forked' = Forked /\ launch'.sup = launch.sup /\ (launch'.pc # "no" => launch'.mode # None) => FenceIsOne'
  BY DEF RunInv, FenceIsOne, Alive
<1>2. launch'.pc \notin {"forked", "settled"} /\ launch'.sup = None
                /\ (launch'.pc # "no" => launch'.mode # None) => FenceIsOne'
  BY DEF RunInv, FenceIsOne, Alive, Forked
<1>3. obs' = obs => LegsAreGone'
  BY DEF RunInv, LegsAreGone, Active
<1>4. obs' \in {NoRound, Unwatched} => LegsAreGone'
  BY NoRoundIs DEF RunInv, LegsAreGone, Active
<1> QED BY <1>1, <1>2, <1>3, <1>4

LEMMA CreateCheckedKeeps ==
    ASSUME RunInv, CreateChecked
    PROVE  RunInv'
<1>1. /\ create.pc = "idle" /\ create \in CreateType
      /\ UNCHANGED <<row, guard, sups, file, asked, launch, dogs, attach, ends, obs, gate, load>>
  BY DEF CreateChecked, RunInv, TypeOK
<1>2. create' = [create EXCEPT !.pc = "checked", !.n = create.n + 1]
  BY DEF CreateChecked
<1> DEFINE P == {r \in RowType : r.on # "removed"}
<1> HIDE DEF P
<1>3. create' \in CreateType /\ create'.pc = "checked" /\ create'.n = create.n + 1 /\ create.n \in Nat
  <2>1. create \in [pc : {"idle", "checked", "admitted", "inserted", "launching"}, prior : P, n : Nat]
    BY <1>1 DEF CreateType, P
  <2>2. create.n + 1 \in Nat
    BY <2>1
  <2>3. /\ create' \in [pc : {"idle", "checked", "admitted", "inserted", "launching"}, prior : P, n : Nat]
        /\ create'.pc = "checked" /\ create'.n = create.n + 1
    BY <1>2, <2>1, <2>2
  <2> QED BY <2>1, <2>3 DEF CreateType, P
<1>4. TypeOK'
  BY <1>1, <1>3 DEF RunInv, TypeOK
<1>5. Guarded' /\ LaunchIsGuarded' /\ PermitsAreCounted'
  BY <1>1, <1>3 DEF RunInv, Guarded, LaunchIsGuarded, PermitsAreCounted, One
<1>6. FenceIsOne' /\ LegsAreGone'
  BY <1>1, OthersKeep DEF RunInv, FenceIsOne, Forked
<1>7. RowStands'
  BY <1>1, <1>3 DEF RunInv, RowStands, Here
<1>8. StartsAreCreates' /\ AuthorityIsOwn' /\ EndsAreTrue'
  BY <1>1, <1>3 DEF RunInv, StartsAreCreates, AuthorityIsOwn, Alive, EndsAreTrue, Serves
<1> QED BY <1>4, <1>5, <1>6, <1>7, <1>8 DEF RunInv

LEMMA CreateAdmittedStep ==
    ASSUME RunInv, CreateAdmitted
    PROVE  /\ create.pc = "checked" /\ create' \in CreateType /\ gate' \in GateType
           /\ create'.n = create.n /\ create'.prior = create.prior
           /\ gate'.closing = gate.closing /\ gate'.settled = gate.settled
           /\ \/ create'.pc = "admitted" /\ ~gate.closing /\ gate'.inFlight = gate.inFlight + 1
              \/ create'.pc = "idle" /\ gate'.inFlight = gate.inFlight
<1>1. create \in CreateType /\ create.pc = "checked" /\ gate \in GateType
  BY DEF CreateAdmitted, RunInv, TypeOK
<1>2. gate.inFlight \in 0..2
  BY <1>1 DEF RunInv, PermitsAreCounted, One
<1>3. CASE MayStart
  <2>1. create' = [create EXCEPT !.pc = "admitted"] /\ gate' = [gate EXCEPT !.inFlight = gate.inFlight + 1]
    BY <1>3 DEF CreateAdmitted
  <2>2. gate.inFlight + 1 \in 0..3
    BY <1>2
  <2> QED BY <1>1, <1>3, <2>1, <2>2 DEF CreateType, GateType, MayStart
<1>4. CASE ~MayStart
  <2>1. create' = [create EXCEPT !.pc = "idle"] /\ gate' = gate
    BY <1>4 DEF CreateAdmitted
  <2> QED BY <1>1, <2>1 DEF CreateType
<1> QED BY <1>3, <1>4

LEMMA CreateAdmittedKeeps ==
    ASSUME RunInv, CreateAdmitted
    PROVE  RunInv'
<1>1. /\ create.pc = "checked" /\ create' \in CreateType /\ gate' \in GateType /\ create'.n = create.n
      /\ gate'.closing = gate.closing /\ gate'.settled = gate.settled
      /\ \/ create'.pc = "admitted" /\ ~gate.closing /\ gate'.inFlight = gate.inFlight + 1
         \/ create'.pc = "idle" /\ gate'.inFlight = gate.inFlight
      /\ UNCHANGED <<row, guard, sups, file, asked, launch, dogs, attach, ends, obs, load>>
  BY CreateAdmittedStep DEF CreateAdmitted
<1>2. TypeOK'
  BY <1>1 DEF RunInv, TypeOK
<1>3. Guarded' /\ LaunchIsGuarded'
  BY <1>1 DEF RunInv, Guarded, LaunchIsGuarded
<1>4. PermitsAreCounted'
  BY <1>1 DEF RunInv, PermitsAreCounted, One, None
<1>5. FenceIsOne' /\ LegsAreGone'
  BY <1>1, OthersKeep DEF RunInv, FenceIsOne, Forked
<1>6. RowStands'
  BY <1>1 DEF RunInv, RowStands, Here
<1>7. StartsAreCreates' /\ AuthorityIsOwn' /\ EndsAreTrue'
  BY <1>1 DEF RunInv, StartsAreCreates, AuthorityIsOwn, Alive, EndsAreTrue, Serves
<1> QED BY <1>2, <1>3, <1>4, <1>5, <1>6, <1>7 DEF RunInv

LEMMA CreateInsertsStep ==
    ASSUME RunInv, CreateInserts
    PROVE  /\ create.pc = "admitted" /\ create' \in CreateType /\ gate' \in GateType /\ row' \in RowType
           /\ create'.n = create.n
           /\ gate'.closing = gate.closing /\ gate'.settled = gate.settled
           /\ \/ /\ row.on # "removed" /\ create'.pc = "inserted" /\ create'.prior = row /\ gate' = gate
                 /\ row'.on = "here" /\ row'.owner = None /\ row'.phase = "stopped" /\ row'.gen = 0
              \/ /\ create'.pc = "idle" /\ create'.prior = create.prior
                 /\ row' = row /\ gate'.inFlight = gate.inFlight - 1
<1>1. create \in CreateType /\ create.pc = "admitted" /\ gate \in GateType /\ row \in RowType
  BY DEF CreateInserts, RunInv, TypeOK
<1>2. CASE row.on # "removed" /\ create' = [create EXCEPT !.pc = "inserted", !.prior = row] /\ row' = FreshRow /\ UNCHANGED gate
  <2>1. /\ FreshRow \in RowType /\ FreshRow.on = "here" /\ FreshRow.owner = None /\ FreshRow.phase = "stopped"
        /\ FreshRow.gen = 0
    BY DEF FreshRow, NoRow, RowType, Phases
  <2> HIDE DEF FreshRow
  <2>2. create' \in CreateType /\ create'.pc = "inserted" /\ create'.prior = row /\ create'.n = create.n
    BY <1>1, <1>2 DEF CreateType
  <2> QED BY <1>1, <1>2, <2>1, <2>2
<1>3. CASE create' = [create EXCEPT !.pc = "idle"] /\ gate' = Drops(1) /\ UNCHANGED row
  <2>1. gate.inFlight \in 1..3
    BY <1>1 DEF RunInv, PermitsAreCounted, One, GateType
  <2>2. gate' = [gate EXCEPT !.inFlight = gate.inFlight - 1] /\ gate.inFlight - 1 \in 0..3
    BY <1>3, <2>1 DEF Drops
  <2>3. gate' \in GateType /\ gate'.inFlight = gate.inFlight - 1 /\ gate'.closing = gate.closing /\ gate'.settled = gate.settled
    BY <1>1, <2>2 DEF GateType
  <2>4. create' \in CreateType /\ create'.pc = "idle" /\ create'.prior = create.prior /\ create'.n = create.n
    BY <1>1, <1>3 DEF CreateType
  <2> QED BY <1>1, <1>3, <2>3, <2>4
<1> QED BY <1>2, <1>3 DEF CreateInserts

LEMMA CreateInsertsKeeps ==
    ASSUME RunInv, CreateInserts
    PROVE  RunInv'
<1>1. /\ create.pc = "admitted" /\ create' \in CreateType /\ gate' \in GateType /\ row' \in RowType
      /\ create'.n = create.n /\ gate'.closing = gate.closing /\ gate'.settled = gate.settled
      /\ \/ row.on # "removed" /\ create'.pc = "inserted" /\ gate' = gate /\ row'.on = "here"
         \/ create'.pc = "idle" /\ row' = row /\ gate'.inFlight = gate.inFlight - 1
      /\ UNCHANGED <<guard, sups, file, asked, launch, dogs, attach, ends, obs, load>>
  BY CreateInsertsStep DEF CreateInserts
<1>2. TypeOK'
  BY <1>1 DEF RunInv, TypeOK
<1>3. Guarded' /\ LaunchIsGuarded'
  BY <1>1 DEF RunInv, Guarded, LaunchIsGuarded
<1>4. PermitsAreCounted'
  <2>1. gate.inFlight \in Nat
    BY DEF RunInv, TypeOK, GateType
  <2> QED BY <1>1, <2>1 DEF RunInv, PermitsAreCounted, One, None
<1>5. FenceIsOne' /\ LegsAreGone'
  BY <1>1, OthersKeep DEF RunInv, FenceIsOne, Forked
<1>6. RowStands'
  BY <1>1 DEF RunInv, RowStands, Here
<1>7. EndsAreTrue'
  BY <1>1 DEF RunInv, EndsAreTrue, Serves
<1>8. StartsAreCreates' /\ AuthorityIsOwn'
  BY <1>1 DEF RunInv, StartsAreCreates, AuthorityIsOwn, Alive
<1> QED BY <1>2, <1>3, <1>4, <1>5, <1>6, <1>7, <1>8 DEF RunInv

\* A launch that begins: its permit, and nothing of the fence.
LEMMA BegunKeeps ==
    ASSUME RunInv, NEW mode \in {"start", "resume"}, Begins(mode), launch.pc = "no", Here,
           UNCHANGED <<sups, file, asked, obs, load>>,
           create' = create \/ (create.pc \in {"inserted", "launching"} /\ create'.pc \in {"inserted", "launching"}),
           attach.pc # "resetting", attach'.pc # "resetting"
    PROVE  /\ row' \in RowType /\ launch' \in LaunchType /\ gate' \in GateType
           /\ launch'.pc = "begun" /\ launch'.mode = mode /\ ~gate.closing
           /\ gate'.closing = gate.closing /\ gate'.settled = gate.settled
           /\ PermitsAreCounted'
           /\ dogs' = dogs => FenceIsOne' /\ LegsAreGone'
           /\ create' = create /\ dogs' = dogs => RowStands'
           /\ ends' = ends => EndsAreTrue'
<1>1. /\ row' \in RowType /\ row'.on = row.on /\ launch' \in LaunchType /\ launch'.pc = "begun"
      /\ launch'.mode = mode /\ launch'.sup = None /\ ~gate.closing
      /\ gate' = [gate EXCEPT !.inFlight = gate.inFlight + 1]
  BY BegunRow DEF RunInv
<1>2. gate \in GateType /\ gate.inFlight \in 0..1
  BY DEF RunInv, TypeOK, PermitsAreCounted, One
<1>3. gate.inFlight + 1 \in 0..3
  BY <1>2
<1>4. /\ gate' \in GateType /\ gate'.inFlight = gate.inFlight + 1
      /\ gate'.closing = gate.closing /\ gate'.settled = gate.settled
  BY <1>1, <1>2, <1>3 DEF GateType
<1>5. PermitsAreCounted'
  <2>1. One(create'.pc \in {"admitted", "inserted", "launching"}) = One(create.pc \in {"admitted", "inserted", "launching"})
    BY DEF One
  <2>2. gate.inFlight = One(create.pc \in {"admitted", "inserted", "launching"})
    BY <1>2 DEF RunInv, PermitsAreCounted, One
  <2>3. gate'.inFlight = One(create'.pc \in {"admitted", "inserted", "launching"}) + One(launch'.pc # "no")
                           + One(attach'.pc = "resetting")
    BY <1>1, <1>2, <1>4, <2>1, <2>2 DEF One
  <2>4. /\ gate'.settled # None => gate'.closing
        /\ gate'.settled = "yes" => gate'.inFlight = 0
    BY <1>1, <1>4 DEF RunInv, PermitsAreCounted, None
  <2> QED BY <2>3, <2>4 DEF PermitsAreCounted
<1>6. dogs' = dogs => FenceIsOne' /\ LegsAreGone'
  <2>1. launch'.mode # None
    BY <1>1 DEF None
  <2> QED BY <1>1, <2>1, OthersKeep
<1>7. create' = create /\ dogs' = dogs => RowStands'
  BY <1>1 DEF RunInv, RowStands, Here
<1>8. ends' = ends => EndsAreTrue'
  BY <1>1 DEF RunInv, EndsAreTrue, Serves
<1> QED BY <1>1, <1>4, <1>5, <1>6, <1>7, <1>8

LEMMA CreateStartsKeeps ==
    ASSUME RunInv, CreateStarts
    PROVE  RunInv'
<1>1. /\ create.pc = "inserted" /\ guard = None /\ Here /\ guard' = "create" /\ Begins("start")
      /\ create' = [create EXCEPT !.pc = "launching"] /\ create \in CreateType
      /\ UNCHANGED <<sups, file, asked, dogs, attach, ends, obs, load>>
  BY DEF CreateStarts, RunInv, TypeOK
<1>2. create' \in CreateType /\ create'.pc = "launching" /\ create'.n = create.n
  BY <1>1 DEF CreateType
<1>3. launch.pc = "no" /\ attach.pc \in {"idle", "wants"}
  BY <1>1 DEF RunInv, Guarded, LaunchIsGuarded, None
<1>4. /\ row' \in RowType /\ launch' \in LaunchType /\ gate' \in GateType /\ launch'.pc = "begun"
      /\ PermitsAreCounted' /\ FenceIsOne' /\ LegsAreGone' /\ EndsAreTrue'
  BY <1>1, <1>2, <1>3, BegunKeeps
<1>5. TypeOK'
  BY <1>1, <1>2, <1>4 DEF RunInv, TypeOK, Holder
<1>6. Guarded' /\ LaunchIsGuarded'
  BY <1>1, <1>2, <1>4, CreateTurn DEF RunInv, Turn, AttachRests, EndsRest, DogsRest, None
<1>7. RowStands'
  <2>1. row'.on = row.on
    BY <1>1, BegunRow DEF RunInv
  <2> QED BY <1>1, <1>2, <2>1 DEF RunInv, RowStands, Here
<1>8. StartsAreCreates'
  BY <1>1, <1>2 DEF RunInv, StartsAreCreates, RowStands
<1>9. AuthorityIsOwn'
  BY <1>1 DEF RunInv, AuthorityIsOwn, Alive
<1> QED BY <1>4, <1>5, <1>6, <1>7, <1>8, <1>9 DEF RunInv

\* A create that gives its row back: what was there before it, or none.
LEMMA RestoredRow ==
    ASSUME TypeOK, Restores
    PROVE  /\ row' \in RowType /\ obs' \in ObsType
           /\ \/ ~Here /\ row' = row /\ obs' = obs
              \/ Here /\ create.prior.on = "here" /\ row' = create.prior /\ obs' = obs
              \/ /\ Here /\ row'.on = "removed" /\ row'.owner = None /\ row'.phase = "stopped"
                 /\ obs' = Unwatched
<1>1. row \in RowType /\ obs \in ObsType /\ create.prior \in RowType
  BY DEF TypeOK, CreateType
<1>2. CASE ~Here
  BY <1>1, <1>2 DEF Restores
<1>3. CASE Here /\ create.prior.on = "here"
  BY <1>1, <1>3 DEF Restores
<1>4. CASE Here /\ create.prior.on # "here"
  <2>1. row' = NoRow("removed") /\ obs' = Unwatched
    BY <1>4 DEF Restores
  <2>2. /\ NoRow("removed") \in RowType /\ NoRow("removed").on = "removed" /\ NoRow("removed").owner = None
        /\ NoRow("removed").phase = "stopped"
    BY DEF NoRow, RowType, Phases
  <2> QED BY <1>4, <2>1, <2>2, NoRoundIs
<1> QED BY <1>2, <1>3, <1>4

\* Nobody is left behind a row that goes.
LEMMA RestoredKeeps ==
    ASSUME RunInv, row' \in RowType,
           \/ ~Here /\ row' = row /\ obs' = obs
           \/ Here /\ row'.on = "here" /\ obs'.pc # "none"
           \/ Here /\ row'.on = "here" /\ obs' = obs
           \/ Here /\ row'.on = "removed" /\ obs' = Unwatched,
           guard' = None, create' = [create EXCEPT !.pc = "idle"], create.pc \in {"inserted", "launching"},
           UNCHANGED <<sups, file, load>>
    PROVE  RowStands'
<1>1. create.pc # "idle" /\ create'.pc = "idle" /\ create'.n = create.n /\ create.n # 0
  BY DEF RunInv, TypeOK, CreateType, RowStands
<1>2. row'.on # "absent"
  BY <1>1 DEF RunInv, RowStands, Here, TypeOK
<1>3. row'.on # "here" => obs'.pc = "none"
  BY NoRoundIs DEF RunInv, RowStands, Here
<1> QED BY <1>1, <1>2, <1>3 DEF RunInv, RowStands, Here

LEMMA CreateRefusedKeeps ==
    ASSUME RunInv, CreateRefused
    PROVE  RunInv'
<1>1. /\ create.pc = "inserted" /\ guard = None /\ Restores
      /\ create' = [create EXCEPT !.pc = "idle"] /\ create \in CreateType
      /\ UNCHANGED <<guard, sups, file, asked, launch, dogs, attach, ends, load>>
  BY DEF CreateRefused, RunInv, TypeOK
<1>2. create' \in CreateType /\ create'.pc = "idle" /\ create'.n = create.n
  BY <1>1 DEF CreateType
<1>3. gate.inFlight \in 1..3 /\ gate \in GateType
  BY <1>1 DEF RunInv, PermitsAreCounted, One, GateType, TypeOK
<1>4. /\ gate' \in GateType /\ gate'.inFlight = gate.inFlight - 1
      /\ gate'.closing = gate.closing /\ gate'.settled = gate.settled
  <2>1. gate' = [gate EXCEPT !.inFlight = gate.inFlight - 1] /\ gate.inFlight - 1 \in 0..3
    BY <1>3 DEF CreateRefused, Drops
  <2> QED BY <1>3, <2>1 DEF GateType
<1>5. /\ row' \in RowType /\ obs' \in ObsType
      /\ \/ ~Here /\ row' = row /\ obs' = obs
         \/ Here /\ row'.on = "here" /\ obs' = obs
         \/ Here /\ row'.on = "removed" /\ obs' = Unwatched
  BY <1>1, RestoredRow DEF RunInv
<1>6. TypeOK'
  BY <1>1, <1>2, <1>4, <1>5 DEF RunInv, TypeOK
<1>7. Guarded' /\ LaunchIsGuarded'
  BY <1>1, <1>2 DEF RunInv, Guarded, LaunchIsGuarded
<1>8. PermitsAreCounted'
  BY <1>1, <1>2, <1>3, <1>4 DEF RunInv, PermitsAreCounted, One, None
<1>9. FenceIsOne'
  BY <1>1, OthersKeep DEF RunInv, FenceIsOne, Forked
<1>10. LegsAreGone'
  BY <1>1, <1>5, OthersKeep
<1>11. RowStands'
  BY <1>1, <1>5, RestoredKeeps
<1>12. EndsAreTrue'
  BY <1>1, <1>5 DEF RunInv, EndsAreTrue, Serves, Here
<1>13. StartsAreCreates' /\ AuthorityIsOwn'
  BY <1>1, <1>2 DEF RunInv, StartsAreCreates, AuthorityIsOwn, Alive
<1> QED BY <1>6, <1>7, <1>8, <1>9, <1>10, <1>11, <1>12, <1>13 DEF RunInv

LEMMA PermitsDropped ==
    ASSUME RunInv, NEW n \in Nat, n <= gate.inFlight, gate' = Drops(n)
    PROVE  /\ gate' \in GateType /\ gate'.inFlight = gate.inFlight - n
           /\ gate'.closing = gate.closing /\ gate'.settled = gate.settled
           /\ gate'.settled # None => gate'.closing
           /\ gate'.settled = "yes" => gate'.inFlight = 0
<1>1. gate \in GateType /\ gate.inFlight \in 0..3
  BY DEF RunInv, TypeOK, GateType
<1>2. gate' = [gate EXCEPT !.inFlight = gate.inFlight - n] /\ gate.inFlight - n \in 0..3
  BY <1>1 DEF Drops
<1>3. /\ gate' \in GateType /\ gate'.inFlight = gate.inFlight - n
      /\ gate'.closing = gate.closing /\ gate'.settled = gate.settled
  BY <1>1, <1>2 DEF GateType
<1>4. /\ gate.settled # None => gate.closing
      /\ gate.settled = "yes" => gate.inFlight = 0
  BY DEF RunInv, PermitsAreCounted
<1> QED BY <1>1, <1>3, <1>4

\* A launch ends: its permit is dropped.
LEMMA LaunchDropped ==
    ASSUME RunInv, launch.pc # "no", launch' = NoLaunch, gate' = Drops(1),
           create'.pc = create.pc, attach'.pc # "resetting"
    PROVE  /\ launch' \in LaunchType /\ launch'.pc = "no" /\ launch'.sup = None /\ launch'.mode = None
           /\ gate' \in GateType /\ gate'.closing = gate.closing /\ gate'.settled = gate.settled
           /\ PermitsAreCounted'
<1>1. launch' \in LaunchType /\ launch'.pc = "no" /\ launch'.sup = None /\ launch'.mode = None
  BY DEF NoLaunch, LaunchType
<1>2. attach.pc # "resetting"
  BY LaunchIsAlone
<1>3. gate.inFlight = One(create.pc \in {"admitted", "inserted", "launching"}) + 1
  BY <1>2 DEF RunInv, PermitsAreCounted, One
<1>4. One(create.pc \in {"admitted", "inserted", "launching"}) \in Nat
  BY DEF One
<1>5. /\ gate' \in GateType /\ gate'.inFlight = gate.inFlight - 1
      /\ gate'.closing = gate.closing /\ gate'.settled = gate.settled
      /\ gate'.settled # None => gate'.closing
      /\ gate'.settled = "yes" => gate'.inFlight = 0
  BY <1>3, <1>4, PermitsDropped
<1>6. PermitsAreCounted'
  BY <1>1, <1>3, <1>4, <1>5 DEF PermitsAreCounted, One
<1> QED BY <1>1, <1>5, <1>6

\* A launch that settled is watched: its child is a new watchdog's leg.
LEMMA WatchedStep ==
    ASSUME RunInv, launch.pc = "settled", Watched
    PROVE  /\ launch.sup \in Supervisor /\ sups[launch.sup].st # "unborn"
           /\ \E d \in Dog :
                /\ dogs[d].pc = "unborn"
                /\ dogs' \in [Dog -> DogType] /\ \A k \in Dog : k # d => dogs'[k] = dogs[k]
                /\ dogs'[d] = [pc |-> "waiting", leg |-> launch.sup, code |-> None, gen |-> launch.gen, never |-> 0]
                /\ row' \in RowType /\ row'.on = row.on /\ row'.gen = row.gen /\ row'.owner = d
                /\ row'.phase = row.phase
<1>1. /\ launch.sup \in Supervisor /\ sups[launch.sup].st # "unborn" /\ launch.gen \in Nat
  BY DEF RunInv, TypeOK, FenceIsOne, Forked, LaunchType
<1>2. PICK d \in Dog : Installs(d, launch.sup, None, launch.gen)
  BY DEF Watched
<1> QED BY <1>1, <1>2, Installed DEF RunInv

\* What a watched launch keeps, whoever made it.
LEMMA WatchedKeeps ==
    ASSUME RunInv, launch.pc = "settled", Watched, launch' = NoLaunch,
           UNCHANGED <<sups, file, asked, load>>, obs' = obs \/ obs'.pc = "idle"
    PROVE  /\ dogs' \in [Dog -> DogType] /\ row' \in RowType /\ row'.on = row.on /\ Here
           /\ FenceIsOne' /\ LegsAreGone' /\ DogsRest(Dog)
<1>1. launch'.pc = "no" /\ launch'.sup = None
  BY DEF NoLaunch
<1>2. PICK d \in Dog :
         /\ dogs[d].pc = "unborn"
         /\ dogs' \in [Dog -> DogType] /\ \A k \in Dog : k # d => dogs'[k] = dogs[k]
         /\ dogs'[d] = [pc |-> "waiting", leg |-> launch.sup, code |-> None, gen |-> launch.gen, never |-> 0]
         /\ row' \in RowType /\ row'.on = row.on
  BY WatchedStep
<1>3. launch.sup \in Supervisor /\ sups[launch.sup].st # "unborn" /\ Here
  BY WatchedStep, LaunchedRowStands
<1>4. FenceIsOne' /\ LegsAreGone' /\ DogsRest(Dog)
  BY <1>1, <1>2, <1>3, NewDog
<1> QED BY <1>2, <1>3, <1>4

LEMMA CreateEndsKeeps ==
    ASSUME RunInv, CreateEnds
    PROVE  RunInv'
<1>1. /\ create.pc = "launching" /\ create' = [create EXCEPT !.pc = "idle"] /\ create \in CreateType
      /\ gate' = Drops(2) /\ launch' = NoLaunch /\ guard' = None /\ obs \in ObsType
      /\ UNCHANGED <<sups, file, asked, attach, ends, load>>
  BY DEF CreateEnds, RunInv, TypeOK
<1>2. create' \in CreateType /\ create'.pc = "idle" /\ create'.n = create.n
  BY <1>1 DEF CreateType
<1>3. /\ launch.pc # "no" /\ guard = "create" /\ attach.pc \in {"idle", "wants"} /\ Here
      /\ launch' \in LaunchType /\ launch'.pc = "no" /\ launch'.sup = None /\ launch'.mode = None
  BY <1>1, LaunchedRowStands DEF RunInv, Guarded, LaunchIsGuarded, NoLaunch, LaunchType
<1>4. gate.inFlight = 2 /\ gate.inFlight \in Nat
  BY <1>1, <1>3 DEF RunInv, PermitsAreCounted, One
<1>5. /\ gate' \in GateType /\ gate'.inFlight = 0
      /\ gate'.settled # None => gate'.closing
  BY <1>1, <1>4, PermitsDropped
<1>6. PermitsAreCounted'
  BY <1>1, <1>2, <1>3, <1>5 DEF PermitsAreCounted, One
<1>7. /\ row' \in RowType /\ obs' \in ObsType /\ dogs' \in [Dog -> DogType]
      /\ FenceIsOne' /\ LegsAreGone' /\ DogsRest(Dog)
      /\ \/ row'.on = "here" /\ obs'.pc # "none"
         \/ row'.on = "here" /\ obs' = obs
         \/ row'.on = "removed" /\ obs' = Unwatched
  <2>1. CASE launch.pc = "settled" /\ Watched /\ obs' = IF obs.pc = "none" THEN NoRound ELSE obs
    <3>1. obs' = obs \/ obs'.pc = "idle"
      BY <2>1, NoRoundIs
    <3>2. obs' \in ObsType
      BY <1>1, <2>1, NoRoundIs
    <3>3. obs'.pc # "none"
      BY <2>1, NoRoundIs
    <3>4. /\ dogs' \in [Dog -> DogType] /\ row' \in RowType /\ row'.on = row.on
          /\ FenceIsOne' /\ LegsAreGone' /\ DogsRest(Dog)
      BY <1>1, <2>1, <3>1, WatchedKeeps
    <3> QED BY <1>3, <3>2, <3>3, <3>4 DEF Here
  <2>2. CASE launch.pc \in {"contended", "failed"} /\ Restores /\ UNCHANGED dogs
    <3>1. /\ row' \in RowType /\ obs' \in ObsType
          /\ \/ row'.on = "here" /\ obs' = obs
             \/ row'.on = "removed" /\ obs' = Unwatched
      BY <1>3, <2>2, RestoredRow DEF RunInv
    <3>2. FenceIsOne' /\ LegsAreGone'
      BY <1>1, <1>3, <2>2, <3>1, OthersKeep
    <3>3. dogs' \in [Dog -> DogType] /\ DogsRest(Dog)
      BY <2>2 DEF DogsRest, RunInv, TypeOK
    <3> QED BY <3>1, <3>2, <3>3
  <2> QED BY <2>1, <2>2 DEF CreateEnds
<1>8. TypeOK'
  BY <1>1, <1>2, <1>3, <1>5, <1>7 DEF RunInv, TypeOK, Holder
<1>9. Guarded' /\ LaunchIsGuarded'
  BY <1>1, <1>2, <1>3, <1>7, CreateTurn DEF RunInv, Turn, AttachRests, EndsRest
<1>10. RowStands'
  BY <1>1, <1>3, <1>7, RestoredKeeps DEF RunInv, Here
<1>11. EndsAreTrue'
  BY <1>1, <1>3 DEF RunInv, EndsAreTrue, Serves, Here
<1>12. StartsAreCreates' /\ AuthorityIsOwn'
  BY <1>1, <1>2, <1>3 DEF RunInv, StartsAreCreates, AuthorityIsOwn, Alive, None
<1> QED BY <1>6, <1>7, <1>8, <1>9, <1>10, <1>11, <1>12 DEF RunInv

----------------------------------------------------------------------------
(* The watchdogs' steps.                                                   *)

\* A watchdog moves on, on the leg it has.
LEMMA DogMoves ==
    ASSUME RunInv, NEW d \in Dog, NEW x \in DogType, dogs' = [dogs EXCEPT ![d] = x],
           dogs[d].pc # "unborn", x.pc # "unborn", x.leg = dogs[d].leg,
           x.pc \notin {"spent", "done"} => x.never <= MaxRestarts,
           x.pc # "done" => x.leg # None /\ (x.pc # "waiting" => sups[x.leg].st = "gone"),
           launch' = launch \/ (launch'.pc \in {"no", "begun"} /\ launch'.sup = None
                                /\ (launch'.pc = "begun" => launch'.mode = "resume")
                                /\ launch'.mode # "start"),
           row' \in RowType, row'.on = row.on, ~Here => guard' = None,
           UNCHANGED <<sups, file, create, attach, ends, obs, load>>
    PROVE  /\ dogs' \in [Dog -> DogType] /\ dogs'[d] = x /\ DogsRest(Dog \ {d})
           /\ \A k \in Dog : k # d => dogs'[k] = dogs[k]
           /\ FenceIsOne' /\ LegsAreGone' /\ RowStands'
           /\ StartsAreCreates' /\ AuthorityIsOwn' /\ EndsAreTrue'
<1>1. /\ dogs' \in [Dog -> DogType] /\ dogs'[d] = x /\ \A k \in Dog : k # d => dogs'[k] = dogs[k]
  BY SupSet, DogSet DEF RunInv
<1>2. DogsRest(Dog \ {d})
  BY <1>1 DEF DogsRest
<1>3. \A k \in Dog : dogs'[k].leg = dogs[k].leg
  BY <1>1
<1>4. FenceIsOne'
  <2>1. CASE launch' = launch
    BY <1>3, <2>1 DEF RunInv, FenceIsOne, Forked, Alive
  <2>2. CASE /\ launch'.pc \in {"no", "begun"} /\ launch'.sup = None
             /\ (launch'.pc = "begun" => launch'.mode = "resume")
    BY <1>3, <2>2 DEF RunInv, FenceIsOne, Forked, Alive, None
  <2> QED BY <2>1, <2>2
<1>5. LegsAreGone'
  BY <1>1 DEF RunInv, LegsAreGone, Active
<1>6. RowStands'
  BY <1>1 DEF RunInv, RowStands, Here
<1>7. StartsAreCreates' /\ AuthorityIsOwn'
  BY DEF RunInv, StartsAreCreates, AuthorityIsOwn, Alive
<1>8. EndsAreTrue'
  BY DEF RunInv, EndsAreTrue, Serves
<1> QED BY <1>1, <1>2, <1>4, <1>5, <1>6, <1>7, <1>8

LEMMA DogIs ==
    ASSUME RunInv, NEW d \in Dog
    PROVE  /\ dogs[d] \in DogType /\ dogs \in [Dog -> DogType]
           /\ dogs[d].pc \notin {"spent", "done"} => dogs[d].never <= MaxRestarts
           /\ Active(d) => /\ dogs[d].leg \in Supervisor
                           /\ dogs[d].pc # "waiting" => sups[dogs[d].leg].st = "gone"
BY DEF RunInv, TypeOK, LegsAreGone, DogType

\* A watchdog that returns.
LEMMA ReturnedDog ==
    ASSUME RunInv, NEW d \in Dog, Returns(d)
    PROVE  \E x \in DogType : /\ dogs' = [dogs EXCEPT ![d] = x] /\ x.pc = "done" /\ x.leg = dogs[d].leg
                              /\ x.gen = dogs[d].gen
<1> DEFINE x == [dogs[d] EXCEPT !.pc = "done"]
<1>1. dogs[d] \in DogType /\ dogs \in [Dog -> DogType]
  BY DogIs
<1>2. dogs' = [dogs EXCEPT ![d] = x]
  BY <1>1 DEF Returns
<1>3. x \in DogType /\ x.pc = "done" /\ x.leg = dogs[d].leg /\ x.gen = dogs[d].gen
  BY <1>1 DEF DogType
<1> QED BY <1>2, <1>3

DogToldTo(d, x) ==
    /\ x \in DogType /\ dogs' = [dogs EXCEPT ![d] = x] /\ x.leg = dogs[d].leg /\ x.gen = dogs[d].gen
    /\ \/ x.pc = "done" /\ row' = Retracts(d)
       \/ x.pc \in {"terminal", "crashed", "spent"} /\ row' = row
    /\ x.pc \notin {"spent", "done"} => x.never <= MaxRestarts

LEMMA DogToldStep ==
    ASSUME RunInv, NEW d \in Dog, DogTold(d)
    PROVE  /\ dogs[d].pc = "waiting" /\ sups[dogs[d].leg].st = "gone" /\ \E x : DogToldTo(d, x)
<1>1. /\ dogs[d].pc = "waiting" /\ sups[dogs[d].leg].st = "gone" /\ dogs[d] \in DogType /\ dogs \in [Dog -> DogType]
      /\ dogs[d].never <= MaxRestarts /\ dogs[d].leg \in Supervisor
  BY DogIs DEF DogTold, Active
<1> DEFINE code == IF dogs[d].code # None THEN dogs[d].code ELSE sups[dogs[d].leg].code
<1>2. sups[dogs[d].leg].code # None /\ sups[dogs[d].leg] \in SupType
  BY <1>1 DEF RunInv, FenceIsOne, TypeOK
<1>3. code \in {"clean", "crash", "terminal"}
  BY <1>1, <1>2 DEF DogType, SupType
<1>4. /\ code = "clean" => Returns(d) /\ row' = Retracts(d)
      /\ code = "terminal" => dogs' = [dogs EXCEPT ![d].pc = "terminal"] /\ row' = row
      /\ code = "crash" =>
           /\ \E v \in Judged(d, SaidReady(d)) : dogs' = [dogs EXCEPT ![d] = [v[1] EXCEPT !.pc = v[2]]]
           /\ row' = row
  BY <1>3 DEF DogTold
<1> HIDE DEF code
<1>5. CASE code = "clean"
  BY <1>1, <1>4, <1>5, ReturnedDog DEF DogToldTo
<1>6. CASE code = "terminal"
  <2> DEFINE x == [dogs[d] EXCEPT !.pc = "terminal"]
  <2>1. dogs' = [dogs EXCEPT ![d] = x] /\ row' = row
    BY <1>1, <1>4, <1>6
  <2>2. x \in DogType /\ x.pc = "terminal" /\ x.leg = dogs[d].leg /\ x.gen = dogs[d].gen /\ x.never = dogs[d].never
    BY <1>1 DEF DogType
  <2> HIDE DEF x
  <2> QED BY <1>1, <2>1, <2>2 DEF DogToldTo
<1>7. CASE code = "crash"
  <2>1. PICK v \in Judged(d, SaidReady(d)) : dogs' = [dogs EXCEPT ![d] = [v[1] EXCEPT !.pc = v[2]]]
    BY <1>4, <1>7
  <2>2. SaidReady(d) \in BOOLEAN
    BY DEF SaidReady, Here, RunInv, TypeOK, RowType
  <2> DEFINE x == [v[1] EXCEPT !.pc = v[2]]
  <2>3. /\ x \in DogType /\ x.pc \in {"crashed", "spent"} /\ x.leg = dogs[d].leg /\ x.gen = dogs[d].gen
        /\ x.pc = "crashed" => x.never <= MaxRestarts
    BY <1>1, <2>1, <2>2, JudgedDog DEF RunInv
  <2>4. dogs' = [dogs EXCEPT ![d] = x] /\ row' = row
    BY <1>4, <1>7, <2>1
  <2> HIDE DEF x
  <2> QED BY <1>1, <2>3, <2>4 DEF DogToldTo
<1> QED BY <1>3, <1>5, <1>6, <1>7

LEMMA DogToldKeeps ==
    ASSUME RunInv, NEW d \in Dog, DogTold(d)
    PROVE  RunInv'
<1>1. /\ dogs[d].pc = "waiting" /\ sups[dogs[d].leg].st = "gone" /\ dogs[d].leg \in Supervisor
      /\ UNCHANGED <<guard, sups, file, asked, launch, create, attach, ends, obs, gate, load>>
  BY DogToldStep, DogIs DEF DogTold, Active
<1>2. PICK x : DogToldTo(d, x)
  BY DogToldStep
<1>3. row' \in RowType /\ row'.on = row.on
  BY <1>2, RetractedRow DEF DogToldTo, RunInv, TypeOK
<1>4. /\ x \in DogType /\ dogs' = [dogs EXCEPT ![d] = x] /\ x.leg = dogs[d].leg
      /\ x.pc \in {"terminal", "crashed", "spent", "done"}
      /\ x.pc \notin {"spent", "done"} => x.never <= MaxRestarts
  BY <1>2 DEF DogToldTo
<1>5. ~Here => guard' = None
  BY <1>1 DEF RunInv, RowStands
<1>6. /\ dogs' \in [Dog -> DogType] /\ dogs'[d] = x /\ DogsRest(Dog \ {d})
      /\ FenceIsOne' /\ LegsAreGone' /\ RowStands'
      /\ StartsAreCreates' /\ AuthorityIsOwn' /\ EndsAreTrue'
  BY <1>1, <1>3, <1>4, <1>5, DogMoves, Names
<1>7. TypeOK'
  BY <1>1, <1>3, <1>6 DEF RunInv, TypeOK
<1>8. PermitsAreCounted'
  BY <1>1 DEF RunInv, PermitsAreCounted, One
<1>9. Guarded' /\ LaunchIsGuarded'
  <2>1. guard # d /\ ~DogHolds(dogs'[d])
    BY <1>1, <1>4, <1>6 DEF RunInv, Guarded, DogHolds
  <2> QED BY <1>1, <1>6, <2>1, DogTurn DEF RunInv, Turn, CreateRests, AttachRests, EndsRest
<1> QED BY <1>6, <1>7, <1>8, <1>9 DEF RunInv


\* One watchdog's step, on the leg it has, keeps what its turn and its permits keep.
LEMMA DogActs ==
    ASSUME RunInv, NEW d \in Dog, NEW x \in DogType, dogs' = [dogs EXCEPT ![d] = x],
           dogs[d].pc # "unborn", x.pc # "unborn", x.leg = dogs[d].leg,
           x.pc \notin {"spent", "done"} => x.never <= MaxRestarts,
           x.pc # "done" => x.leg # None /\ (x.pc # "waiting" => sups[x.leg].st = "gone"),
           launch' = launch \/ (launch'.pc \in {"no", "begun"} /\ launch'.sup = None
                                /\ (launch'.pc = "begun" => launch'.mode = "resume")
                                /\ launch'.mode # "start"),
           launch' \in LaunchType, gate' \in GateType, PermitsAreCounted', guard' \in Holder,
           Turn(d, DogHolds(x), x.pc = "launching"),
           row' \in RowType, row'.on = row.on, ~Here => guard' = None,
           UNCHANGED <<sups, file, asked, create, attach, ends, obs, load>>
    PROVE  RunInv'
<1>1. /\ dogs' \in [Dog -> DogType] /\ dogs'[d] = x /\ DogsRest(Dog \ {d})
      /\ FenceIsOne' /\ LegsAreGone' /\ RowStands'
      /\ StartsAreCreates' /\ AuthorityIsOwn' /\ EndsAreTrue'
  BY DogMoves
<1>2. TypeOK'
  BY <1>1 DEF RunInv, TypeOK
<1>3. Guarded' /\ LaunchIsGuarded'
  BY <1>1, DogTurn DEF RunInv, CreateRests, AttachRests, EndsRest
<1> QED BY <1>1, <1>2, <1>3 DEF RunInv

LEMMA DogMarksStep ==
    ASSUME RunInv, NEW d \in Dog, DogMarks(d)
    PROVE  /\ dogs[d].pc \in {"terminal", "spent"} /\ guard = None
           /\ row' \in RowType /\ row'.on = row.on /\ row'.gen = row.gen /\ row'.owner = Retracts(d).owner
           /\ row'.phase = "terminal" => row.phase = "terminal" \/ StillMine(d)
           /\ Returns(d)
<1>1. row \in RowType /\ dogs[d].pc \in {"terminal", "spent"} /\ guard = None /\ Returns(d)
  BY DEF RunInv, TypeOK, DogMarks
<1> DEFINE mark(p) == IF ~StillMine(d) THEN row
                      ELSE IF dogs[d].pc = "terminal" /\ row.watched # None
                           THEN Fed(row, row.watched, "terminal")
                      ELSE Latched(p)
<1>2. PICK p \in Probes : row' = [mark(p) EXCEPT !.owner = Retracts(d).owner]
  BY DEF DogMarks
<1>3. "terminal" \in Phases /\ (row.watched # None => row.watched \in Supervisor)
  BY <1>1 DEF Phases, RowType
<1>4. row.watched # None =>
         Fed(row, row.watched, "terminal") \in RowType /\ SameRow(row, Fed(row, row.watched, "terminal"))
  BY <1>1, <1>3, FedRow
<1>5. Latched(p) \in RowType /\ SameRow(row, Latched(p))
  BY LatchedRow DEF RunInv
<1>6. /\ mark(p) \in RowType /\ mark(p).on = row.on /\ mark(p).gen = row.gen
      /\ ~StillMine(d) => mark(p) = row
  BY <1>1, <1>4, <1>5 DEF SameRow
<1>7. Retracts(d).owner \in Dog \cup {None}
  BY <1>1 DEF Retracts, RowType
<1> HIDE DEF mark
<1>8. /\ row' \in RowType /\ row'.on = row.on /\ row'.gen = row.gen /\ row'.owner = Retracts(d).owner
      /\ row'.phase = mark(p).phase
  BY <1>2, <1>6, <1>7 DEF RowType
<1> QED BY <1>1, <1>6, <1>8

LEMMA DogMarksKeeps ==
    ASSUME RunInv, NEW d \in Dog, DogMarks(d)
    PROVE  RunInv'
<1>1. /\ dogs[d].pc \in {"terminal", "spent"} /\ guard = None /\ row' \in RowType /\ row'.on = row.on /\ Returns(d)
      /\ UNCHANGED <<guard, sups, file, asked, launch, create, attach, ends, obs, gate, load>>
  BY DogMarksStep DEF DogMarks
<1>2. PICK x \in DogType : dogs' = [dogs EXCEPT ![d] = x] /\ x.pc = "done" /\ x.leg = dogs[d].leg
  BY <1>1, ReturnedDog
<1>3. /\ launch' \in LaunchType /\ gate' \in GateType /\ PermitsAreCounted' /\ guard' \in Holder
  BY <1>1 DEF RunInv, TypeOK, PermitsAreCounted, One
<1>4. Turn(d, DogHolds(x), x.pc = "launching")
  BY <1>1, <1>2, Names DEF Turn, DogHolds
<1> QED BY <1>1, <1>2, <1>3, <1>4, DogActs

LEMMA DogRechecksStep ==
    ASSUME RunInv, NEW d \in Dog, DogRechecks(d)
    PROVE  /\ dogs[d].pc = "crashed" /\ guard = None
           /\ \E x \in DogType :
                /\ dogs' = [dogs EXCEPT ![d] = x] /\ x.leg = dogs[d].leg /\ x.gen = dogs[d].gen
                /\ x.never = dogs[d].never
                /\ \/ StillMine(d) /\ x.pc = "backoff" /\ guard' = d /\ row' = row
                   \/ x.pc = "done" /\ guard' = None /\ row' = Retracts(d)
<1>1. dogs[d].pc = "crashed" /\ guard = None /\ dogs[d] \in DogType /\ dogs \in [Dog -> DogType]
  BY DogIs DEF DogRechecks
<1>2. CASE StillMine(d) /\ guard' = d /\ dogs' = [dogs EXCEPT ![d].pc = "backoff"] /\ row' = row
  <2> DEFINE x == [dogs[d] EXCEPT !.pc = "backoff"]
  <2>1. dogs' = [dogs EXCEPT ![d] = x]
    BY <1>1, <1>2
  <2>2. x \in DogType /\ x.pc = "backoff" /\ x.leg = dogs[d].leg /\ x.gen = dogs[d].gen /\ x.never = dogs[d].never
    BY <1>1 DEF DogType
  <2> QED BY <1>1, <1>2, <2>1, <2>2
<1>3. CASE Returns(d) /\ row' = Retracts(d) /\ guard' = guard
  <2> DEFINE x == [dogs[d] EXCEPT !.pc = "done"]
  <2>1. dogs' = [dogs EXCEPT ![d] = x]
    BY <1>1, <1>3 DEF Returns
  <2>2. x \in DogType /\ x.pc = "done" /\ x.leg = dogs[d].leg /\ x.gen = dogs[d].gen /\ x.never = dogs[d].never
    BY <1>1 DEF DogType
  <2> QED BY <1>1, <1>3, <2>1, <2>2
<1> QED BY <1>2, <1>3 DEF DogRechecks

LEMMA DogRechecksKeeps ==
    ASSUME RunInv, NEW d \in Dog, DogRechecks(d)
    PROVE  RunInv'
<1>1. /\ dogs[d].pc = "crashed" /\ guard = None /\ row \in RowType /\ dogs[d].never <= MaxRestarts
      /\ dogs[d].leg \in Supervisor /\ sups[dogs[d].leg].st = "gone"
      /\ UNCHANGED <<sups, file, asked, launch, create, attach, ends, obs, gate, load>>
  BY DogRechecksStep, DogIs DEF DogRechecks, Active, RunInv, TypeOK
<1>2. PICK x \in DogType :
         /\ dogs' = [dogs EXCEPT ![d] = x] /\ x.leg = dogs[d].leg /\ x.never = dogs[d].never
         /\ \/ StillMine(d) /\ x.pc = "backoff" /\ guard' = d /\ row' = row
            \/ x.pc = "done" /\ guard' = None /\ row' = Retracts(d)
  BY DogRechecksStep
<1>3. /\ launch' \in LaunchType /\ gate' \in GateType /\ PermitsAreCounted' /\ guard' \in Holder
      /\ launch.pc = "no"
  BY <1>1, <1>2 DEF RunInv, TypeOK, PermitsAreCounted, One, Holder, LaunchIsGuarded
<1>4. Turn(d, DogHolds(x), x.pc = "launching")
  BY <1>1, <1>2, <1>3, Names DEF Turn, DogHolds
<1>5. row' \in RowType /\ row'.on = row.on /\ (~Here => guard' = None)
  BY <1>1, <1>2, RetractedRow DEF RunInv, StillMine
<1> QED BY <1>1, <1>2, <1>3, <1>4, <1>5, DogActs, Names

LEMMA DogRestartsStep ==
    ASSUME RunInv, NEW d \in Dog, DogRestarts(d)
    PROVE  /\ dogs[d].pc = "backoff" /\ guard = d /\ launch.pc = "no" /\ Here
           /\ \E x \in DogType :
                /\ dogs' = [dogs EXCEPT ![d] = x] /\ x.leg = dogs[d].leg /\ x.gen = row.gen + 1
                /\ x.never = dogs[d].never /\ x.pc = "launching"
<1>1. /\ dogs[d].pc = "backoff" /\ dogs[d] \in DogType /\ dogs \in [Dog -> DogType]
      /\ dogs' = [dogs EXCEPT ![d].pc = "launching", ![d].gen = row.gen + 1]
  BY DogIs DEF DogRestarts
<1>2. guard = d /\ launch.pc = "no" /\ guard # None
  BY <1>1, Names DEF RunInv, Guarded, LaunchIsGuarded, DogHolds
<1>3. row.gen + 1 \in Nat
  BY DEF RunInv, TypeOK, RowType
<1> DEFINE x == [dogs[d] EXCEPT !.pc = "launching", !.gen = row.gen + 1]
<1>4. dogs' = [dogs EXCEPT ![d] = x]
  BY <1>1
<1>5. /\ x \in DogType /\ x.pc = "launching" /\ x.leg = dogs[d].leg /\ x.gen = row.gen + 1
      /\ x.never = dogs[d].never
  BY <1>1, <1>3 DEF DogType
<1>6. Here
  BY <1>2 DEF RunInv, RowStands
<1> QED BY <1>1, <1>2, <1>4, <1>5, <1>6

LEMMA DogRestartsKeeps ==
    ASSUME RunInv, NEW d \in Dog, DogRestarts(d)
    PROVE  RunInv'
<1>1. /\ dogs[d].pc = "backoff" /\ guard = d /\ launch.pc = "no" /\ Here
      /\ dogs[d].leg \in Supervisor /\ sups[dogs[d].leg].st = "gone" /\ dogs[d].never <= MaxRestarts
      /\ Begins("resume")
      /\ UNCHANGED <<guard, sups, file, asked, create, attach, ends, obs, load>>
  BY DogRestartsStep, DogIs DEF DogRestarts, Active
<1>2. PICK x \in DogType : /\ dogs' = [dogs EXCEPT ![d] = x] /\ x.leg = dogs[d].leg
                           /\ x.never = dogs[d].never /\ x.pc = "launching"
  BY DogRestartsStep
<1>3. attach.pc # "resetting"
  BY <1>1, Names DEF RunInv, Guarded
<1>4. /\ row' \in RowType /\ launch' \in LaunchType /\ gate' \in GateType
      /\ launch'.pc = "begun" /\ launch'.mode = "resume" /\ PermitsAreCounted'
  BY <1>1, <1>3, BegunKeeps
<1>5. row'.on = row.on /\ launch'.sup = None
  BY <1>1, BegunRow DEF RunInv
<1>6. Turn(d, DogHolds(x), x.pc = "launching")
  BY <1>1, <1>2, <1>4 DEF Turn, DogHolds
<1>7. guard' \in Holder
  BY <1>1 DEF Holder
<1> QED BY <1>1, <1>2, <1>4, <1>5, <1>6, <1>7, DogActs, Names

LEMMA DogRefusedKeeps ==
    ASSUME RunInv, NEW d \in Dog, DogRefused(d)
    PROVE  RunInv'
<1>1. /\ dogs[d].pc = "backoff" /\ Returns(d) /\ row' = Retracts(d) /\ guard' = None
      /\ UNCHANGED <<sups, file, asked, launch, create, attach, ends, obs, gate, load>>
  BY DEF DogRefused
<1>2. guard = d /\ launch.pc = "no"
  BY <1>1 DEF RunInv, Guarded, LaunchIsGuarded, DogHolds
<1>3. PICK x \in DogType : dogs' = [dogs EXCEPT ![d] = x] /\ x.pc = "done" /\ x.leg = dogs[d].leg
  BY <1>1, ReturnedDog
<1>4. /\ launch' \in LaunchType /\ gate' \in GateType /\ PermitsAreCounted' /\ guard' \in Holder
  BY <1>1 DEF RunInv, TypeOK, PermitsAreCounted, One, Holder
<1>5. Turn(d, DogHolds(x), x.pc = "launching")
  BY <1>1, <1>2, <1>3 DEF Turn, DogHolds
<1>6. row' \in RowType /\ row'.on = row.on
  BY <1>1, RetractedRow DEF RunInv
<1> QED BY <1>1, <1>3, <1>4, <1>5, <1>6, DogActs

\* What a restart's launch makes of its watchdog.
DogLaunchedTo(d, x) ==
    /\ x \in DogType /\ dogs' = [dogs EXCEPT ![d] = x] /\ x.gen = dogs[d].gen
    /\ row' \in RowType /\ row'.on = row.on /\ row'.gen = row.gen
    /\ row'.phase = "terminal" => row.phase = "terminal" \/ launch.pc = "failed"
    /\ \/ /\ launch.pc = "settled" /\ x.pc = "waiting" /\ x.leg = launch.sup /\ x.never = dogs[d].never
          /\ row'.owner = row.owner
       \/ /\ launch.pc = "failed" /\ x.leg = dogs[d].leg /\ row'.owner = row.owner
          /\ x.pc = "spent" \/ (x.pc = "crashed" /\ x.never <= MaxRestarts)
       \/ /\ launch.pc \in {"contended", "failed"} /\ x.leg = dogs[d].leg /\ row'.owner = Retracts(d).owner
          /\ x.pc = "done"

LEMMA DogLaunchedStep ==
    ASSUME RunInv, NEW d \in Dog, DogLaunched(d)
    PROVE  \E x : DogLaunchedTo(d, x)
<1>1. /\ dogs[d].pc = "launching" /\ dogs[d] \in DogType /\ dogs \in [Dog -> DogType]
      /\ dogs[d].never <= MaxRestarts /\ row \in RowType
  BY DogIs DEF DogLaunched, RunInv, TypeOK
<1>2. CASE /\ launch.pc = "settled" /\ row' = row
           /\ dogs' = [dogs EXCEPT ![d].pc = "waiting", ![d].leg = launch.sup, ![d].code = None]
  <2> DEFINE x == [dogs[d] EXCEPT !.pc = "waiting", !.leg = launch.sup, !.code = None]
  <2>1. launch.sup \in Supervisor
    BY <1>2 DEF RunInv, FenceIsOne, Forked
  <2>2. dogs' = [dogs EXCEPT ![d] = x]
    BY <1>1, <1>2
  <2>3. /\ x \in DogType /\ x.pc = "waiting" /\ x.leg = launch.sup /\ x.gen = dogs[d].gen
        /\ x.never = dogs[d].never
    BY <1>1, <2>1 DEF DogType
  <2> HIDE DEF x
  <2> QED BY <1>1, <1>2, <2>2, <2>3 DEF DogLaunchedTo
<1>3. CASE launch.pc = "contended" /\ Returns(d) /\ row' = Retracts(d)
  BY <1>3, ReturnedDog, RetractedRow DEF RunInv, DogLaunchedTo
<1>4. CASE /\ launch.pc = "failed" /\ row' = row
           /\ \E v \in Judged(d, SaidReady(d)) : dogs' = [dogs EXCEPT ![d] = [v[1] EXCEPT !.pc = v[2]]]
  <2>1. PICK v \in Judged(d, SaidReady(d)) : dogs' = [dogs EXCEPT ![d] = [v[1] EXCEPT !.pc = v[2]]]
    BY <1>4
  <2>2. SaidReady(d) \in BOOLEAN
    BY DEF SaidReady, Here, RunInv, TypeOK, RowType
  <2> DEFINE x == [v[1] EXCEPT !.pc = v[2]]
  <2>3. /\ x \in DogType /\ x.pc \in {"crashed", "spent"} /\ x.leg = dogs[d].leg /\ x.gen = dogs[d].gen
        /\ x.pc = "crashed" => x.never <= MaxRestarts
    BY <1>1, <2>1, <2>2, JudgedDog DEF RunInv
  <2>4. dogs' = [dogs EXCEPT ![d] = x]
    BY <2>1
  <2> HIDE DEF x
  <2> QED BY <1>1, <1>4, <2>3, <2>4 DEF DogLaunchedTo
<1>5. CASE /\ launch.pc = "failed" /\ Returns(d)
           /\ \E p \in Probes : row' = [Latched(p) EXCEPT !.owner = Retracts(d).owner]
  <2>1. PICK p \in Probes : row' = [Latched(p) EXCEPT !.owner = Retracts(d).owner]
    BY <1>5
  <2>2. Latched(p) \in RowType /\ SameRow(row, Latched(p))
    BY LatchedRow DEF RunInv
  <2>3. Retracts(d).owner \in Dog \cup {None}
    BY <1>1 DEF Retracts, RowType
  <2>4. row' \in RowType /\ row'.on = row.on /\ row'.gen = row.gen /\ row'.owner = Retracts(d).owner
    BY <2>1, <2>2, <2>3 DEF RowType, SameRow
  <2> QED BY <1>5, <2>4, ReturnedDog DEF DogLaunchedTo
<1> QED BY <1>2, <1>3, <1>4, <1>5 DEF DogLaunched

\* The restart's child is its watchdog's leg: no other watchdog's is it.
LEMMA NewLeg ==
    ASSUME RunInv, NEW d \in Dog, NEW x \in DogType, dogs' = [dogs EXCEPT ![d] = x],
           launch.pc = "settled", x.pc = "waiting", x.leg = launch.sup, x.never <= MaxRestarts,
           launch' = NoLaunch, UNCHANGED <<sups, file, obs>>
    PROVE  FenceIsOne' /\ LegsAreGone'
<1>1. /\ dogs'[d] = x /\ \A k \in Dog : k # d => dogs'[k] = dogs[k]
  BY DogSet DEF RunInv
<1>2. launch.sup \in Supervisor /\ sups[launch.sup].st # "unborn"
  BY DEF RunInv, FenceIsOne, Forked
<1>3. launch'.pc = "no" /\ launch'.sup = None
  BY DEF NoLaunch
<1>4. FenceIsOne'
  BY <1>3 DEF RunInv, FenceIsOne, Forked, Alive
<1>5. LegsAreGone'
  BY <1>1, <1>2, Names DEF RunInv, LegsAreGone, Active
<1> QED BY <1>4, <1>5

LEMMA DogLaunchedKeeps ==
    ASSUME RunInv, NEW d \in Dog, DogLaunched(d)
    PROVE  RunInv'
<1>1. /\ dogs[d].pc = "launching" /\ dogs[d].leg \in Supervisor /\ sups[dogs[d].leg].st = "gone"
      /\ dogs[d].never <= MaxRestarts
      /\ gate' = Drops(1) /\ launch' = NoLaunch /\ guard' = None
      /\ UNCHANGED <<sups, file, asked, create, attach, ends, obs, load>>
  BY DogIs DEF DogLaunched, Active
<1>2. guard = d /\ launch.pc # "no" /\ attach.pc # "resetting"
  BY <1>1, Names DEF RunInv, Guarded, LaunchIsGuarded, DogHolds
<1>3. /\ launch' \in LaunchType /\ launch'.pc = "no" /\ launch'.sup = None /\ launch'.mode # "start"
      /\ gate' \in GateType /\ PermitsAreCounted'
  BY <1>1, <1>2, LaunchDropped DEF None
<1>4. PICK x : DogLaunchedTo(d, x)
  BY DogLaunchedStep
<1>5. /\ x \in DogType /\ dogs' = [dogs EXCEPT ![d] = x] /\ row' \in RowType /\ row'.on = row.on
      /\ x.pc \in {"waiting", "spent", "crashed", "done"}
  BY <1>4 DEF DogLaunchedTo
<1>6. guard' \in Holder
  BY <1>1 DEF Holder
<1>7. Turn(d, DogHolds(x), x.pc = "launching")
  BY <1>1, <1>2, <1>3, <1>5 DEF Turn, DogHolds
<1>8. CASE x.pc # "waiting"
  <2>1. x.leg = dogs[d].leg /\ (x.pc \notin {"spent", "done"} => x.never <= MaxRestarts)
    BY <1>4, <1>8 DEF DogLaunchedTo
  <2> QED BY <1>1, <1>3, <1>5, <1>6, <1>7, <1>8, <2>1, DogActs, Names
<1>9. CASE x.pc = "waiting"
  <2>1. launch.pc = "settled" /\ x.leg = launch.sup /\ x.never <= MaxRestarts
    BY <1>1, <1>4, <1>9 DEF DogLaunchedTo
  <2>2. FenceIsOne' /\ LegsAreGone'
    BY <1>1, <1>5, <1>9, <2>1, NewLeg
  <2>3. dogs' \in [Dog -> DogType] /\ dogs'[d] = x /\ \A k \in Dog : k # d => dogs'[k] = dogs[k]
    BY <1>5, DogSet DEF RunInv
  <2>4. TypeOK'
    BY <1>1, <1>3, <1>5, <1>6, <2>3 DEF RunInv, TypeOK
  <2>5. DogsRest(Dog \ {d})
    BY <2>3 DEF DogsRest
  <2>6. Guarded' /\ LaunchIsGuarded'
    BY <1>1, <1>7, <2>3, <2>5, DogTurn DEF RunInv, CreateRests, AttachRests, EndsRest
  <2>7. RowStands'
    BY <1>1, <1>5, <2>3 DEF RunInv, RowStands, Here
  <2>8. StartsAreCreates' /\ AuthorityIsOwn'
    BY <1>1, <1>3 DEF RunInv, StartsAreCreates, AuthorityIsOwn, Alive
  <2>9. EndsAreTrue'
    BY <1>1, <1>5 DEF RunInv, EndsAreTrue, Serves
  <2> QED BY <1>3, <2>2, <2>4, <2>6, <2>7, <2>8, <2>9 DEF RunInv
<1> QED BY <1>8, <1>9

----------------------------------------------------------------------------
(* The activation's steps.                                                 *)

\* The ends stand while nobody begins to serve.
LEMMA EndsStand ==
    ASSUME RunInv, row'.on = row.on, ends' = ends, Serves' => Serves
    PROVE  EndsAreTrue'
BY DEF RunInv, EndsAreTrue

\* The activation's step keeps what it keeps of the launch, the fence and its authority.
LEMMA AttachActs ==
    ASSUME RunInv, attach' \in AttachType, guard' \in Holder, launch' \in LaunchType, gate' \in GateType,
           row' \in RowType, dogs' \in [Dog -> DogType], sups' \in [Supervisor -> SupType], asked' \in BOOLEAN,
           Turn("attach", attach'.pc \notin {"idle", "wants"}, attach'.pc \in {"launching", "replacing"}),
           DogsRest(Dog), row'.on = row.on, Here \/ (guard' = None /\ dogs' = dogs),
           PermitsAreCounted', FenceIsOne', LegsAreGone', StartsAreCreates', AuthorityIsOwn', EndsAreTrue',
           UNCHANGED <<file, create, ends, obs, load>>
    PROVE  RunInv'
<1>1. TypeOK'
  BY DEF RunInv, TypeOK
<1>2. Guarded' /\ LaunchIsGuarded'
  BY AttachTurn DEF RunInv, CreateRests, EndsRest
<1>3. RowStands'
  <2>1. ~Here' => guard' = None /\ obs'.pc = "none"
    BY DEF RunInv, RowStands, Here
  <2>2. row'.on = "absent" => dogs' = dogs
    BY DEF Here
  <2> QED BY <2>1, <2>2 DEF RunInv, RowStands
<1> QED BY <1>1, <1>2, <1>3 DEF RunInv

\* The activation is over, or waits for the guard again.
AttachOut ==
    /\ attach' \in AttachType /\ attach'.pc \in {"idle", "wants"}
    /\ attach'.own = None \/ (attach'.own = attach.own /\ attach'.made = attach.made)

LEMMA AttachOverOut == TypeOK /\ AttachOver => AttachOut /\ attach'.pc = "idle"
<1> SUFFICES ASSUME TypeOK, AttachOver PROVE AttachOut /\ attach'.pc = "idle"
  OBVIOUS
<1>1. attach.n \in Nat
  BY DEF TypeOK, AttachType
<1>2. attach' = [pc |-> "idle", intent |-> None, own |-> None, made |-> {}, n |-> attach.n]
  BY DEF AttachOver, NoAttach
<1> QED BY <1>1, <1>2 DEF AttachOut, AttachType

LEMMA AttachWaitsOut == TypeOK /\ AttachWaits => AttachOut /\ guard' = None
<1> SUFFICES ASSUME TypeOK, AttachWaits PROVE AttachOut /\ guard' = None
  OBVIOUS
<1>1. attach \in AttachType /\ guard' = None
  BY DEF TypeOK, AttachWaits
<1>2. CASE attach' = [attach EXCEPT !.pc = "wants"]
  BY <1>1, <1>2 DEF AttachOut, AttachType
<1> QED BY <1>1, <1>2, AttachOverOut DEF AttachWaits

LEMMA OutIsOwn == RunInv /\ AttachOut => AuthorityIsOwn'
BY DEF RunInv, AttachOut, AuthorityIsOwn

\* A step of the activation alone, that takes or keeps no launch.
LEMMA AttachStays ==
    ASSUME RunInv, attach' \in AttachType, guard' \in Holder,
           attach.pc # "resetting", attach'.pc # "resetting", launch.pc = "no",
           Turn("attach", attach'.pc \notin {"idle", "wants"}, FALSE),
           attach'.pc \notin {"launching", "replacing"}, Here \/ guard' = None, AuthorityIsOwn',
           UNCHANGED <<row, sups, file, asked, launch, dogs, create, ends, obs, gate, load>>
    PROVE  RunInv'
<1>1. PermitsAreCounted'
  BY DEF RunInv, PermitsAreCounted, One
<1>2. FenceIsOne' /\ LegsAreGone'
  BY OthersKeep DEF RunInv, FenceIsOne, Forked
<1>3. StartsAreCreates'
  BY DEF RunInv, StartsAreCreates
<1>4. EndsAreTrue'
  BY EndsStand DEF Serves
<1>5. Turn("attach", attach'.pc \notin {"idle", "wants"}, attach'.pc \in {"launching", "replacing"})
  BY DEF Turn
<1>6. DogsRest(Dog)
  BY DEF DogsRest
<1> QED BY <1>1, <1>2, <1>3, <1>4, <1>5, <1>6, AttachActs DEF RunInv, TypeOK

LEMMA AttachCalledKeeps ==
    ASSUME RunInv, AttachCalled
    PROVE  RunInv'
<1>1. /\ attach.pc = "idle" /\ Here /\ attach \in AttachType
      /\ UNCHANGED <<row, guard, sups, file, asked, launch, dogs, create, ends, obs, gate, load>>
  BY DEF AttachCalled, RunInv, TypeOK
<1>2. PICK i \in load.intents : attach' = [NoAttach EXCEPT !.pc = "wants", !.intent = i, !.n = attach.n + 1]
  BY Zenon DEF AttachCalled
<1>3. i \in {"selection", "reconnect", "resume"} /\ attach.n + 1 \in Nat
  BY <1>1, Loaded DEF RunInv, LoadType, AttachType
<1>4. attach' = [pc |-> "wants", intent |-> i, own |-> None, made |-> {}, n |-> attach.n + 1]
  BY <1>2 DEF NoAttach
<1>5. attach' \in AttachType /\ attach'.pc = "wants" /\ attach'.own = None
  BY <1>3, <1>4 DEF AttachType
<1>6. PermitsAreCounted'
  BY <1>1, <1>5 DEF RunInv, PermitsAreCounted, One
<1>7. FenceIsOne' /\ LegsAreGone' /\ StartsAreCreates'
  BY <1>1, OthersKeep DEF RunInv, FenceIsOne, Forked, StartsAreCreates
<1>8. EndsAreTrue'
  BY <1>1, EndsStand DEF Serves
<1>9. AuthorityIsOwn'
  BY <1>5 DEF AuthorityIsOwn
<1>10. guard # "attach"
  BY <1>1 DEF RunInv, Guarded
<1>11. TypeOK'
  BY <1>1, <1>5 DEF RunInv, TypeOK
<1>12. Guarded' /\ LaunchIsGuarded'
  BY <1>1, <1>5, <1>10 DEF RunInv, Guarded, LaunchIsGuarded
<1>13. RowStands'
  BY <1>1 DEF RunInv, RowStands, Here
<1> QED BY <1>6, <1>7, <1>8, <1>9, <1>11, <1>12, <1>13 DEF RunInv

\* What a pass may do: nothing, a launch of its own, or find the run ended.
LEMMA AttachLooksStep ==
    ASSUME RunInv, AttachLooks
    PROVE  /\ attach.pc = "wants" /\ guard = None
           /\ \/ AttachOut /\ UNCHANGED <<row, guard, launch, gate>>
              \/ /\ Here /\ guard' = "attach" /\ attach' = [attach EXCEPT !.pc = "launching"]
                 /\ \/ Begins("start") /\ attach.intent = "selection" /\ ~file
                    \/ Begins("resume") /\ row.phase # "terminal" /\ row.owner = None
              \/ /\ Here /\ guard' = "attach" /\ attach.intent = "selection"
                 /\ attach' = [attach EXCEPT !.pc = IF Fresh THEN "fresh" ELSE "stale"]
                 /\ UNCHANGED <<row, launch, gate>>
<1>1. attach.pc = "wants" /\ guard = None
  BY DEF AttachLooks
<1>2. CASE ~Here /\ AttachOver /\ UNCHANGED <<row, guard, launch, gate>>
  BY <1>1, <1>2, AttachOverOut DEF RunInv
<1>3. ASSUME NEW p \in Probes, Here,
             \/ AttachWaits /\ UNCHANGED <<row, launch, gate>>
             \/ /\ guard' = "attach" /\ attach' = [attach EXCEPT !.pc = "launching"]
                /\ \E m \in Wants(p) : Begins(m)
             \/ AttachOver /\ UNCHANGED <<row, guard, launch, gate>>
             \/ /\ attach.intent = "selection" /\ guard' = "attach"
                /\ attach' = [attach EXCEPT !.pc = IF Fresh THEN "fresh" ELSE "stale"]
                /\ UNCHANGED <<row, launch, gate>>
      PROVE  \/ AttachOut /\ UNCHANGED <<row, guard, launch, gate>>
             \/ /\ Here /\ guard' = "attach" /\ attach' = [attach EXCEPT !.pc = "launching"]
                /\ \/ Begins("start") /\ attach.intent = "selection" /\ ~file
                   \/ Begins("resume") /\ row.phase # "terminal" /\ row.owner = None
             \/ /\ Here /\ guard' = "attach" /\ attach.intent = "selection"
                /\ attach' = [attach EXCEPT !.pc = IF Fresh THEN "fresh" ELSE "stale"]
                /\ UNCHANGED <<row, launch, gate>>
  <2>1. CASE AttachWaits /\ UNCHANGED <<row, launch, gate>>
    BY <1>1, <2>1, AttachWaitsOut DEF RunInv
  <2>2. CASE /\ guard' = "attach" /\ attach' = [attach EXCEPT !.pc = "launching"]
             /\ \E m \in Wants(p) : Begins(m)
    <3>1. PICK m \in Wants(p) : Begins(m)
      BY <2>2
    <3>2. p = "stopped" => ~file
      BY DEF Probes, Answering, Live
    <3>3. \/ m = "start" /\ attach.intent = "selection" /\ ~file
          \/ m = "resume" /\ row.phase # "terminal" /\ row.owner = None
      BY <3>1, <3>2 DEF Wants, MayResume
    <3> QED BY <1>3, <2>2, <3>1, <3>3
  <2>3. CASE AttachOver /\ UNCHANGED <<row, guard, launch, gate>>
    BY <2>3, AttachOverOut DEF RunInv
  <2> QED BY <1>3, <2>1, <2>2, <2>3
<1> QED BY <1>1, <1>2, <1>3 DEF AttachLooks

LEMMA AttachLooksKeeps ==
    ASSUME RunInv, AttachLooks
    PROVE  RunInv'
<1>1. /\ attach.pc = "wants" /\ guard = None /\ attach \in AttachType /\ launch.pc = "no"
      /\ UNCHANGED <<sups, file, asked, dogs, create, ends, obs, load>>
  BY AttachLooksStep DEF AttachLooks, RunInv, TypeOK, LaunchIsGuarded
<1>2. CASE AttachOut /\ UNCHANGED <<row, guard, launch, gate>>
  <2>1. attach' \in AttachType /\ attach'.pc \in {"idle", "wants"}
    BY <1>2 DEF AttachOut
  <2>2. Turn("attach", attach'.pc \notin {"idle", "wants"}, FALSE)
    BY <1>1, <1>2, <2>1 DEF Turn, None
  <2>3. guard' \in Holder
    BY <1>1, <1>2 DEF Holder
  <2> QED BY <1>1, <1>2, <2>1, <2>2, <2>3, OutIsOwn, AttachStays
<1>3. CASE /\ Here /\ guard' = "attach" /\ attach' = [attach EXCEPT !.pc = "launching"]
           /\ \/ Begins("start") /\ attach.intent = "selection" /\ ~file
              \/ Begins("resume") /\ row.phase # "terminal" /\ row.owner = None
  <2>1. /\ attach' \in AttachType /\ attach'.pc = "launching" /\ attach'.own = attach.own
        /\ attach'.made = attach.made
    BY <1>1, <1>3 DEF AttachType
  <2>2. PICK m \in {"start", "resume"} : Begins(m) /\ (m = "start" => ~file)
    BY <1>3
  <2>3. /\ row' \in RowType /\ launch' \in LaunchType /\ gate' \in GateType
        /\ launch'.pc = "begun" /\ launch'.mode = m
        /\ PermitsAreCounted' /\ FenceIsOne' /\ LegsAreGone' /\ EndsAreTrue'
    BY <1>1, <1>3, <2>1, <2>2, BegunKeeps
  <2>4. row'.on = row.on
    BY <2>2, BegunRow DEF RunInv
  <2>5. ~file => create.n # 0
    BY <1>3, Loaded DEF RunInv, RowStands, Here, LoadType
  <2>6. StartsAreCreates'
    BY <1>1, <2>2, <2>3, <2>5 DEF RunInv, StartsAreCreates
  <2>7. AuthorityIsOwn'
    BY <2>1 DEF RunInv, AuthorityIsOwn
  <2>8. Turn("attach", attach'.pc \notin {"idle", "wants"}, attach'.pc \in {"launching", "replacing"})
    BY <1>1, <1>3, <2>1, <2>3 DEF Turn
  <2>9. guard' \in Holder /\ DogsRest(Dog)
    BY <1>1, <1>3 DEF Holder, DogsRest
  <2> QED BY <1>1, <1>3, <2>1, <2>3, <2>4, <2>6, <2>7, <2>8, <2>9, AttachActs DEF RunInv, TypeOK
<1>4. CASE /\ Here /\ guard' = "attach" /\ attach.intent = "selection"
           /\ attach' = [attach EXCEPT !.pc = IF Fresh THEN "fresh" ELSE "stale"]
           /\ UNCHANGED <<row, launch, gate>>
  <2>1. /\ attach' \in AttachType /\ attach'.pc = (IF Fresh THEN "fresh" ELSE "stale") /\ attach'.own = attach.own
        /\ attach'.made = attach.made /\ attach'.intent = "selection"
    BY <1>1, <1>4 DEF AttachType
  <2>2. attach'.pc \in {"fresh", "stale"} /\ (attach'.pc = "fresh" => Fresh)
    BY <2>1
  <2>3. attach'.pc = "fresh" => \A s \in Supervisor : Alive(s)' => s \in attach'.made
    <3>1. Fresh => attach.own \in attach.made /\ attach.own \in Supervisor /\ Alive(attach.own)
      BY Names DEF Fresh, Answering, Alive, RunInv, AuthorityIsOwn
    <3> QED BY <1>1, <2>1, <2>2, <3>1 DEF RunInv, FenceIsOne, Alive
  <2>4. AuthorityIsOwn'
    BY <1>1, <2>1, <2>2, <2>3 DEF RunInv, AuthorityIsOwn
  <2>5. Turn("attach", attach'.pc \notin {"idle", "wants"}, FALSE)
    BY <1>1, <1>4, <2>2 DEF Turn
  <2>6. guard' \in Holder
    BY <1>4 DEF Holder
  <2> QED BY <1>1, <1>4, <2>1, <2>2, <2>4, <2>5, <2>6, AttachStays
<1> QED BY <1>2, <1>3, <1>4, AttachLooksStep

\* A pass's launch that ended unwatched.
LEMMA AttachUnwatched ==
    ASSUME RunInv, attach.pc \in {"launching", "replacing"}, launch' = NoLaunch, gate' = Drops(1), guard' = None,
           AttachOut, UNCHANGED <<row, sups, file, asked, dogs, create, ends, obs, load>>
    PROVE  RunInv'
<1>1. guard = "attach" /\ launch.pc # "no" /\ attach'.pc \in {"idle", "wants"} /\ attach' \in AttachType
  BY DEF RunInv, Guarded, LaunchIsGuarded, AttachOut
<1>2. /\ launch' \in LaunchType /\ launch'.pc = "no" /\ launch'.sup = None /\ launch'.mode = None
      /\ gate' \in GateType /\ PermitsAreCounted'
  BY <1>1, LaunchDropped
<1>3. FenceIsOne' /\ LegsAreGone'
  BY <1>2, OthersKeep
<1>4. StartsAreCreates'
  BY <1>2 DEF RunInv, StartsAreCreates, None
<1>5. AuthorityIsOwn' /\ EndsAreTrue'
  BY OutIsOwn, EndsStand DEF Serves
<1>6. Turn("attach", attach'.pc \notin {"idle", "wants"}, attach'.pc \in {"launching", "replacing"})
  BY <1>1, <1>2 DEF Turn
<1>7. guard' \in Holder /\ DogsRest(Dog)
  BY DEF Holder, DogsRest
<1> QED BY <1>1, <1>2, <1>3, <1>4, <1>5, <1>6, <1>7, AttachActs DEF RunInv, TypeOK

\* And one that is watched: the activation goes on under the guard, or lets it go.
LEMMA AttachWatched ==
    ASSUME RunInv, attach.pc \in {"launching", "replacing"}, launch.pc = "settled", Watched,
           launch' = NoLaunch, gate' = Drops(1), attach' \in AttachType, AuthorityIsOwn',
           \/ attach'.pc \in {"idle", "wants"} /\ guard' = None
           \/ attach'.pc \in {"stale", "fresh"} /\ guard' = guard,
           UNCHANGED <<sups, file, asked, create, ends, obs, load>>
    PROVE  RunInv'
<1>1. guard = "attach" /\ launch.pc # "no" /\ attach'.pc # "resetting"
  BY DEF RunInv, Guarded
<1>2. /\ launch' \in LaunchType /\ launch'.pc = "no" /\ launch'.sup = None /\ launch'.mode = None
      /\ gate' \in GateType /\ PermitsAreCounted'
  BY <1>1, LaunchDropped
<1>3. /\ dogs' \in [Dog -> DogType] /\ row' \in RowType /\ row'.on = row.on /\ Here
      /\ FenceIsOne' /\ LegsAreGone' /\ DogsRest(Dog)
  BY WatchedKeeps
<1>4. StartsAreCreates'
  BY <1>2 DEF RunInv, StartsAreCreates, None
<1>5. EndsAreTrue'
  BY <1>3, EndsStand DEF Serves
<1>6. Turn("attach", attach'.pc \notin {"idle", "wants"}, attach'.pc \in {"launching", "replacing"})
  BY <1>1, <1>2 DEF Turn
<1>7. guard' \in Holder
  BY <1>1 DEF Holder
<1> QED BY <1>2, <1>3, <1>4, <1>5, <1>6, <1>7, AttachActs DEF RunInv, TypeOK

LEMMA AttachLaunchedKeeps ==
    ASSUME RunInv, AttachLaunched
    PROVE  RunInv'
<1>1. /\ attach.pc = "launching" /\ attach \in AttachType /\ launch' = NoLaunch /\ gate' = Drops(1)
      /\ UNCHANGED <<sups, file, asked, create, ends, obs, load>>
  BY DEF AttachLaunched, RunInv, TypeOK
<1>2. CASE AttachOver /\ guard' = None /\ UNCHANGED <<row, dogs>>
  BY <1>1, <1>2, AttachOverOut, AttachUnwatched DEF RunInv
<1>3. CASE AttachWaits /\ UNCHANGED <<row, dogs>>
  BY <1>1, <1>3, AttachWaitsOut, AttachUnwatched DEF RunInv
<1>4. CASE launch.pc = "settled" /\ Watched /\ AttachOver /\ guard' = None
  <2>1. attach' \in AttachType /\ attach'.pc = "idle" /\ AuthorityIsOwn'
    BY <1>4, AttachOverOut, OutIsOwn DEF RunInv, AttachOut
  <2> QED BY <1>1, <1>4, <2>1, AttachWatched
<1>5. CASE launch.pc = "settled" /\ Watched /\ AttachWaits
  <2>1. attach' \in AttachType /\ attach'.pc \in {"idle", "wants"} /\ AuthorityIsOwn' /\ guard' = None
    BY <1>5, AttachWaitsOut, OutIsOwn DEF RunInv, AttachOut
  <2> QED BY <1>1, <1>5, <2>1, AttachWatched
<1>6. CASE /\ launch.pc = "settled" /\ Watched /\ attach.intent = "selection"
           /\ attach' = [attach EXCEPT !.pc = "stale"] /\ UNCHANGED guard
  <2>1. /\ attach' \in AttachType /\ attach'.pc = "stale" /\ attach'.intent = "selection"
        /\ attach'.own = attach.own /\ attach'.made = attach.made
    BY <1>1, <1>6 DEF AttachType
  <2>2. AuthorityIsOwn'
    BY <2>1 DEF RunInv, AuthorityIsOwn
  <2> QED BY <1>1, <1>6, <2>1, <2>2, AttachWatched
<1> QED BY <1>2, <1>3, <1>4, <1>5, <1>6 DEF AttachLaunched

\* A supervisor that was stopped: it is gone, and it says how.
LEMMA StoppedSup ==
    ASSUME RunInv, NEW s \in Answering, sups' = Stopped(s), UNCHANGED <<file, launch, dogs, obs, create>>
    PROVE  /\ sups' \in [Supervisor -> SupType] /\ FenceIsOne' /\ LegsAreGone' /\ StartsAreCreates'
           /\ \A t \in Supervisor : Alive(t)' => Alive(t)
           /\ Serves' => Serves
           /\ \A t \in Supervisor : ~Alive(t)'
<1>1. s \in Supervisor /\ Alive(s) /\ sups[s] \in SupType /\ sups \in [Supervisor -> SupType]
  BY DEF Answering, Alive, RunInv, TypeOK
<1> DEFINE code == IF sups[s].st = "terminal" THEN "terminal" ELSE "clean"
           x == [sups[s] EXCEPT !.st = "gone", !.code = code]
<1>2. code # None /\ code \in {"clean", "terminal"}
  BY DEF None
<1> HIDE DEF code
<1>3. x \in SupType /\ x.st = "gone" /\ x.code = code /\ x.mode = sups[s].mode
  BY <1>1, <1>2 DEF SupType
<1>4. sups' = [sups EXCEPT ![s] = x]
  BY <1>1 DEF Stopped, code
<1> HIDE DEF x
<1>5. /\ sups' \in [Supervisor -> SupType] /\ FenceIsOne' /\ LegsAreGone' /\ StartsAreCreates'
      /\ \A t \in Supervisor : Alive(t)' => Alive(t)
  BY <1>1, <1>2, <1>3, <1>4, SupSteps
<1>6. sups'[s] = x /\ \A t \in Supervisor : t # s => sups'[t] = sups[t]
  BY <1>1, <1>3, <1>4, SupSet DEF RunInv
<1>7. Serves' => Serves
  BY <1>3, <1>6 DEF Serves, Serving
<1>8. \A t \in Supervisor : ~Alive(t)'
  BY <1>1, <1>3, <1>5, <1>6 DEF RunInv, FenceIsOne, Alive, Live
<1> QED BY <1>5, <1>7, <1>8

\* A step of the activation that holds the guard with no launch: it goes on so, or is over.
LEMMA AttachGoesOn ==
    ASSUME RunInv, attach.pc \in {"stale", "retired", "fresh", "resetting"}, attach' \in AttachType,
           (attach'.pc \in {"retired", "resetting"} /\ guard' = guard) \/ (attach'.pc = "idle" /\ guard' = None),
           gate' \in GateType, PermitsAreCounted', sups' \in [Supervisor -> SupType], asked' \in BOOLEAN,
           FenceIsOne', LegsAreGone', StartsAreCreates', AuthorityIsOwn', EndsAreTrue',
           UNCHANGED <<row, file, launch, dogs, create, ends, obs, load>>
    PROVE  RunInv'
<1>1. guard = "attach" /\ launch.pc = "no"
  BY DEF RunInv, Guarded, LaunchIsGuarded
<1>2. Here
  BY <1>1 DEF RunInv, RowStands, None
<1>3. Turn("attach", attach'.pc \notin {"idle", "wants"}, attach'.pc \in {"launching", "replacing"})
  BY <1>1 DEF Turn
<1>4. guard' \in Holder /\ DogsRest(Dog)
  BY <1>1 DEF Holder, DogsRest
<1> QED BY <1>2, <1>3, <1>4, AttachActs DEF RunInv, TypeOK

LEMMA AttachStopsKeeps ==
    ASSUME RunInv, AttachStops
    PROVE  RunInv'
<1>1. /\ attach.pc = "stale" /\ attach \in AttachType /\ attach.intent = "selection"
      /\ UNCHANGED <<row, file, asked, launch, dogs, create, ends, obs, gate, load>>
  BY DEF AttachStops, RunInv, TypeOK, AuthorityIsOwn
<1>2. asked' \in BOOLEAN /\ gate' \in GateType
  BY <1>1 DEF RunInv, TypeOK
<1>3. CASE (\E s \in Answering : sups' = Stopped(s)) /\ attach' = [attach EXCEPT !.pc = "retired"] /\ UNCHANGED guard
  <2>1. PICK s \in Answering : sups' = Stopped(s)
    BY <1>3
  <2>2. /\ attach' \in AttachType /\ attach'.pc = "retired" /\ attach'.intent = "selection"
        /\ attach'.own = attach.own /\ attach'.made = attach.made
    BY <1>1, <1>3 DEF AttachType
  <2>3. /\ sups' \in [Supervisor -> SupType] /\ FenceIsOne' /\ LegsAreGone' /\ StartsAreCreates'
        /\ Serves' => Serves
    BY <1>1, <2>1, StoppedSup
  <2>4. EndsAreTrue'
    BY <1>1, <2>3, EndsStand
  <2>5. AuthorityIsOwn'
    BY <2>2 DEF RunInv, AuthorityIsOwn
  <2>6. PermitsAreCounted'
    BY <1>1, <2>2 DEF RunInv, PermitsAreCounted, One
  <2> QED BY <1>1, <1>2, <1>3, <2>2, <2>3, <2>4, <2>5, <2>6, AttachGoesOn
<1>4. CASE AttachOver /\ guard' = None /\ UNCHANGED sups
  <2>1. AttachOut /\ attach'.pc = "idle"
    BY <1>4, AttachOverOut DEF RunInv
  <2>2. sups' \in [Supervisor -> SupType] /\ FenceIsOne' /\ LegsAreGone' /\ StartsAreCreates'
    BY <1>1, <1>4, OthersKeep DEF RunInv, TypeOK, FenceIsOne, Forked, StartsAreCreates
  <2>3. AuthorityIsOwn' /\ EndsAreTrue'
    BY <1>1, <1>4, <2>1, OutIsOwn, EndsStand DEF Serves
  <2>4. PermitsAreCounted'
    BY <1>1, <2>1 DEF RunInv, PermitsAreCounted, One
  <2> QED BY <1>1, <1>2, <1>4, <2>1, <2>2, <2>3, <2>4, AttachGoesOn DEF AttachOut
<1> QED BY <1>3, <1>4 DEF AttachStops

LEMMA AttachReplacesKeeps ==
    ASSUME RunInv, AttachReplaces
    PROVE  RunInv'
<1>1. /\ attach.pc = "retired" /\ attach \in AttachType /\ attach.intent = "selection"
      /\ UNCHANGED <<sups, file, asked, dogs, create, ends, obs, load>>
  BY DEF AttachReplaces, RunInv, TypeOK, AuthorityIsOwn
<1>2. guard = "attach" /\ launch.pc = "no" /\ guard # None
  BY <1>1 DEF RunInv, Guarded, LaunchIsGuarded, None
<1>3. Here
  BY <1>2 DEF RunInv, RowStands
<1>4. CASE attach' = [attach EXCEPT !.pc = "replacing"] /\ Begins("resume") /\ UNCHANGED guard
  <2>1. /\ attach' \in AttachType /\ attach'.pc = "replacing" /\ attach'.intent = "selection"
        /\ attach'.own = attach.own /\ attach'.made = attach.made
    BY <1>1, <1>4 DEF AttachType
  <2>2. /\ row' \in RowType /\ launch' \in LaunchType /\ gate' \in GateType
        /\ launch'.pc = "begun" /\ launch'.mode = "resume"
        /\ PermitsAreCounted' /\ FenceIsOne' /\ LegsAreGone' /\ EndsAreTrue'
    BY <1>1, <1>2, <1>3, <1>4, <2>1, BegunKeeps
  <2>3. row'.on = row.on
    BY <1>4, BegunRow DEF RunInv
  <2>4. StartsAreCreates'
    BY <1>1, <2>2 DEF RunInv, StartsAreCreates
  <2>5. AuthorityIsOwn'
    BY <2>1 DEF RunInv, AuthorityIsOwn
  <2>6. Turn("attach", attach'.pc \notin {"idle", "wants"}, attach'.pc \in {"launching", "replacing"})
    BY <1>2, <1>4, <2>1, <2>2 DEF Turn
  <2>7. guard' \in Holder /\ DogsRest(Dog)
    BY <1>1, <1>2, <1>4 DEF Holder, DogsRest
  <2> QED BY <1>1, <1>3, <2>1, <2>2, <2>3, <2>4, <2>5, <2>6, <2>7, AttachActs DEF RunInv, TypeOK
<1>5. CASE AttachOver /\ guard' = None /\ UNCHANGED <<row, launch, gate>>
  <2>1. AttachOut /\ attach'.pc = "idle"
    BY <1>5, AttachOverOut DEF RunInv
  <2>2. Turn("attach", attach'.pc \notin {"idle", "wants"}, FALSE)
    BY <1>2, <1>5, <2>1 DEF Turn
  <2>3. guard' \in Holder
    BY <1>5 DEF Holder
  <2> QED BY <1>1, <1>2, <1>5, <2>1, <2>2, <2>3, OutIsOwn, AttachStays DEF AttachOut
<1> QED BY <1>4, <1>5 DEF AttachReplaces

LEMMA AttachReplacedKeeps ==
    ASSUME RunInv, AttachReplaced
    PROVE  RunInv'
<1>1. /\ attach.pc = "replacing" /\ attach \in AttachType /\ attach.intent = "selection"
      /\ launch' = NoLaunch /\ gate' = Drops(1)
      /\ UNCHANGED <<sups, file, asked, create, ends, obs, load>>
  BY Zenon DEF AttachReplaced, RunInv, TypeOK, AuthorityIsOwn
<1>2. CASE AttachOver /\ guard' = None /\ UNCHANGED <<row, dogs>>
  BY <1>1, <1>2, AttachOverOut, AttachUnwatched DEF RunInv
<1>3. CASE AttachWaits /\ UNCHANGED <<row, dogs>>
  BY <1>1, <1>3, AttachWaitsOut, AttachUnwatched DEF RunInv
<1>4. CASE launch.pc = "settled" /\ Watched /\ AttachOver /\ guard' = None
  <2>1. attach' \in AttachType /\ attach'.pc = "idle" /\ AuthorityIsOwn'
    BY <1>4, AttachOverOut, OutIsOwn DEF RunInv, AttachOut
  <2> QED BY <1>1, <1>4, <2>1, AttachWatched
<1>5. ASSUME launch.pc = "settled", Watched, NEW own \in Answering \cup {None}, NEW pc \in {"fresh", "wants"},
             attach' = [attach EXCEPT !.own = own, !.made = attach.made \cup {launch.sup}, !.pc = pc],
             \/ pc = "fresh" /\ guard' = guard
             \/ pc = "wants" /\ guard' = None
      PROVE  RunInv'
  <2>1. launch.sup \in Supervisor /\ \A s \in Supervisor : Alive(s) => s = launch.sup
    BY <1>5 DEF RunInv, FenceIsOne, Forked
  <2>2. own \in Supervisor \cup {None} /\ (own # None => own = launch.sup)
    BY <2>1 DEF Answering, Alive
  <2>3. /\ attach' \in AttachType /\ attach'.pc = pc /\ attach'.intent = "selection"
        /\ attach'.own = own /\ launch.sup \in attach'.made
    <3>1. attach.made \cup {launch.sup} \in SUBSET Supervisor
      BY <1>1, <2>1 DEF AttachType
    <3> QED BY <1>1, <1>5, <2>2, <3>1 DEF AttachType
  <2>4. AuthorityIsOwn'
    BY <1>1, <2>1, <2>2, <2>3 DEF AuthorityIsOwn, Alive
  <2> QED BY <1>1, <1>5, <2>3, <2>4, AttachWatched
<1>6. CASE /\ launch.pc = "settled" /\ Watched
           /\ \E own \in Answering \cup (IF Answering = {} \/ load.misses THEN {None} ELSE {}) :
              LET mine == [attach EXCEPT !.own = own, !.made = @ \cup {launch.sup}] IN
              IF launch.saw = "ended"
              THEN attach' = [mine EXCEPT !.pc = "fresh"] /\ UNCHANGED guard
              ELSE /\ guard' = None
                   /\ \/ ~Resting(launch.saw, TRUE) /\ attach' = [mine EXCEPT !.pc = "wants"]
                      \/ AttachOver
  <2>1. PICK own \in Answering \cup {None} :
              LET mine == [attach EXCEPT !.own = own, !.made = @ \cup {launch.sup}] IN
              IF launch.saw = "ended"
              THEN attach' = [mine EXCEPT !.pc = "fresh"] /\ UNCHANGED guard
              ELSE /\ guard' = None
                   /\ \/ ~Resting(launch.saw, TRUE) /\ attach' = [mine EXCEPT !.pc = "wants"]
                      \/ AttachOver
    BY <1>6, Zenon
  <2>2. CASE AttachOver /\ guard' = None
    BY <1>4, <1>6, <2>2
  <2>3. CASE \E pc \in {"fresh", "wants"} :
               /\ attach' = [attach EXCEPT !.own = own, !.made = attach.made \cup {launch.sup}, !.pc = pc]
               /\ \/ pc = "fresh" /\ guard' = guard
                  \/ pc = "wants" /\ guard' = None
    BY <1>5, <1>6, <2>3, Zenon
  <2> QED BY <1>1, <2>1, <2>2, <2>3
<1> QED BY <1>2, <1>3, <1>6, Zenon DEF AttachReplaced

LEMMA ResetBeginsKeeps ==
    ASSUME RunInv, ResetBegins
    PROVE  RunInv'
<1>1. /\ attach.pc = "fresh" /\ attach \in AttachType /\ gate \in GateType
      /\ UNCHANGED <<row, sups, file, asked, launch, dogs, create, ends, obs, load>>
  BY DEF ResetBegins, RunInv, TypeOK
<1>2. sups' \in [Supervisor -> SupType] /\ asked' \in BOOLEAN /\ FenceIsOne' /\ LegsAreGone' /\ StartsAreCreates'
  BY <1>1, OthersKeep DEF RunInv, TypeOK, FenceIsOne, Forked, StartsAreCreates
<1>3. EndsAreTrue' /\ launch.pc = "no"
  BY <1>1, EndsStand DEF Serves, RunInv, Guarded, LaunchIsGuarded
<1>4. CASE MayStart
  <2>1. /\ attach' = [attach EXCEPT !.pc = "resetting"] /\ UNCHANGED guard
        /\ gate' = [gate EXCEPT !.inFlight = gate.inFlight + 1] /\ ~gate.closing
    BY <1>4 DEF ResetBegins, MayStart
  <2>2. /\ attach' \in AttachType /\ attach'.pc = "resetting" /\ attach'.intent = attach.intent
        /\ attach'.own = attach.own /\ attach'.made = attach.made
    BY <1>1, <2>1 DEF AttachType
  <2>3. gate.inFlight = One(create.pc \in {"admitted", "inserted", "launching"}) /\ gate.inFlight \in 0..1
    BY <1>1, <1>3 DEF RunInv, PermitsAreCounted, One
  <2>4. gate.inFlight + 1 \in 0..3
    BY <2>3
  <2>5. /\ gate' \in GateType /\ gate'.inFlight = gate.inFlight + 1
        /\ gate'.closing = gate.closing /\ gate'.settled = gate.settled
    BY <1>1, <2>1, <2>4 DEF GateType
  <2>6. gate.settled # None => gate.closing
    BY DEF RunInv, PermitsAreCounted
  <2>7. PermitsAreCounted'
    BY <1>1, <1>3, <2>1, <2>2, <2>3, <2>5, <2>6 DEF PermitsAreCounted, One, None
  <2>8. AuthorityIsOwn'
    BY <1>1, <2>2 DEF RunInv, AuthorityIsOwn, Alive
  <2> QED BY <1>1, <1>2, <1>3, <2>1, <2>2, <2>5, <2>7, <2>8, AttachGoesOn
<1>5. CASE AttachOver /\ guard' = None /\ UNCHANGED gate
  <2>1. AttachOut /\ attach'.pc = "idle"
    BY <1>5, AttachOverOut DEF RunInv
  <2>2. PermitsAreCounted'
    BY <1>1, <1>5, <2>1 DEF RunInv, PermitsAreCounted, One
  <2> QED BY <1>1, <1>2, <1>3, <1>5, <2>1, <2>2, OutIsOwn, AttachGoesOn DEF AttachOut
<1> QED BY <1>4, <1>5 DEF ResetBegins

\* What a reset of the run does: a supervisor this activation made starts again, or
\* nothing does.
LEMMA ResetsStep ==
    ASSUME RunInv, Resets
    PROVE  /\ attach.pc = "resetting" /\ guard = "attach" /\ launch.pc = "no" /\ Here
           /\ attach.intent = "selection"
           /\ \/ sups' = sups /\ asked' = asked
              \/ \E s \in Supervisor, x \in SupType :
                   /\ sups[s].st = "ended" /\ Alive(s) /\ s \in attach.made
                   /\ sups' = [sups EXCEPT ![s] = x] /\ asked' = FALSE
                   /\ x.st = "starting" /\ x.mode = sups[s].mode
<1>1. attach.pc = "resetting" /\ guard = "attach" /\ launch.pc = "no" /\ attach.intent = "selection"
  BY DEF Resets, RunInv, Guarded, LaunchIsGuarded, AuthorityIsOwn
<1>2. Here
  BY <1>1 DEF RunInv, RowStands, None
<1>3. CASE sups' = sups /\ asked' = asked
  BY <1>1, <1>2, <1>3
<1>4. ASSUME NEW s \in Answering, sups[s].st = "ended", sups' = [sups EXCEPT ![s].st = "starting"], asked' = FALSE
      PROVE  \E t \in Supervisor, x \in SupType :
                   /\ sups[t].st = "ended" /\ Alive(t) /\ t \in attach.made
                   /\ sups' = [sups EXCEPT ![t] = x] /\ asked' = FALSE
                   /\ x.st = "starting" /\ x.mode = sups[t].mode
  <2>1. s \in Supervisor /\ Alive(s) /\ sups[s] \in SupType /\ sups \in [Supervisor -> SupType]
    BY <1>4 DEF Answering, Alive, RunInv, TypeOK
  <2>2. s \in attach.made
    BY <1>1, <2>1 DEF RunInv, AuthorityIsOwn
  <2> DEFINE x == [sups[s] EXCEPT !.st = "starting"]
  <2>3. x \in SupType /\ x.st = "starting" /\ x.mode = sups[s].mode /\ sups' = [sups EXCEPT ![s] = x]
    BY <1>4, <2>1 DEF SupType, Live
  <2> HIDE DEF x
  <2> QED BY <1>4, <2>1, <2>2, <2>3
<1> QED BY <1>1, <1>2, <1>3, <1>4 DEF Resets

LEMMA ResetsKeeps ==
    ASSUME RunInv, Resets
    PROVE  RunInv'
<1>1. /\ attach.pc = "resetting" /\ guard = "attach" /\ launch.pc = "no" /\ Here /\ gate' = Drops(1)
      /\ AttachOver /\ guard' = None
      /\ UNCHANGED <<row, file, launch, dogs, create, ends, obs, load>>
  BY ResetsStep DEF Resets
<1>2. AttachOut /\ attach'.pc = "idle"
  BY <1>1, AttachOverOut DEF RunInv
<1>3. /\ sups' \in [Supervisor -> SupType] /\ asked' \in BOOLEAN /\ FenceIsOne' /\ LegsAreGone' /\ StartsAreCreates'
  <2>1. CASE sups' = sups /\ asked' = asked
    BY <1>1, <2>1, OthersKeep DEF RunInv, TypeOK, FenceIsOne, Forked, StartsAreCreates
  <2>2. ASSUME NEW s \in Supervisor, NEW x \in SupType, Alive(s), sups' = [sups EXCEPT ![s] = x], asked' = FALSE,
               x.st = "starting", x.mode = sups[s].mode
        PROVE  /\ sups' \in [Supervisor -> SupType] /\ asked' \in BOOLEAN
               /\ FenceIsOne' /\ LegsAreGone' /\ StartsAreCreates'
    BY <1>1, <2>2, SupSteps
  <2> QED BY <2>1, <2>2, ResetsStep
<1>4. EndsAreTrue'
  <2>1. \A e \in Ending : ends[e].pc \notin {"stopping", "ended", "pruned"} /\ ends[e].result \notin {"row", "forget"}
    BY <1>1 DEF RunInv, Guarded, EndHolds, EndsAreTrue, Here, Ending
  <2> QED BY <1>1, <2>1 DEF RunInv, EndsAreTrue
<1>5. gate.inFlight = One(create.pc \in {"admitted", "inserted", "launching"}) + 1
  BY <1>1 DEF RunInv, PermitsAreCounted, One
<1>6. One(create.pc \in {"admitted", "inserted", "launching"}) \in Nat
  BY DEF One
<1>7. /\ gate' \in GateType /\ gate'.inFlight = gate.inFlight - 1
      /\ gate'.settled # None => gate'.closing
      /\ gate'.settled = "yes" => gate'.inFlight = 0
  BY <1>1, <1>5, <1>6, PermitsDropped
<1>8. PermitsAreCounted'
  BY <1>1, <1>2, <1>5, <1>6, <1>7 DEF PermitsAreCounted, One
<1> QED BY <1>1, <1>2, <1>3, <1>4, <1>7, <1>8, OutIsOwn, AttachGoesOn DEF AttachOut

----------------------------------------------------------------------------
(* The ends' steps.                                                        *)

\* A result is final, or is the deadline's, which the late attempt keeps.
EndIsTrue(e, x) ==
    /\ x.late => e = "close" /\ x.result = "not"
    /\ x.result # None /\ ~x.late => x.pc = "done"

\* One end's step keeps what it keeps of the launch and the fence, if nobody begins to
\* serve in it.
LEMMA EndActs ==
    ASSUME RunInv, NEW e \in Ending, NEW x \in EndType, ends' = [ends EXCEPT ![e] = x], EndIsTrue(e, x),
           x.pc \in {"stopping", "ended", "pruned"} => ~Serves',
           x.result \in {"row", "forget"} => row'.on = "removed" /\ ~Serves',
           row'.on \in {row.on, "removed"}, Serves' => Serves, \A s \in Supervisor : Alive(s)' => Alive(s),
           guard' \in Holder, launch' \in LaunchType, gate' \in GateType, obs' \in ObsType,
           row' \in RowType, dogs' \in [Dog -> DogType], sups' \in [Supervisor -> SupType], asked' \in BOOLEAN,
           Turn(e, EndHolds(x), x.pc = "launching"), DogsRest(Dog),
           PermitsAreCounted', FenceIsOne', LegsAreGone', StartsAreCreates', RowStands',
           UNCHANGED <<file, create, attach, load>>
    PROVE  RunInv'
<1>1. /\ ends' \in [Ending -> EndType] /\ ends'[e] = x
      /\ \A k \in Ending : k # e => ends'[k] = ends[k]
  BY EndSet DEF RunInv
<1>2. TypeOK'
  BY <1>1 DEF RunInv, TypeOK
<1>3. Guarded' /\ LaunchIsGuarded'
  BY <1>1, EndTurn DEF RunInv, CreateRests, AttachRests, EndsRest
<1>4. EndsAreTrue'
  BY <1>1 DEF RunInv, EndsAreTrue, EndIsTrue
<1>5. AuthorityIsOwn'
  BY DEF RunInv, AuthorityIsOwn
<1> QED BY <1>2, <1>3, <1>4, <1>5 DEF RunInv

\* Of the steps that start nothing and remove nothing.
LEMMA EndGoesOn ==
    ASSUME RunInv, NEW e \in Ending, NEW x \in EndType, ends' = [ends EXCEPT ![e] = x], EndIsTrue(e, x),
           x.pc \in {"stopping", "ended", "pruned"} => ~Serves',
           x.result \notin {"row", "forget"},
           Serves' => Serves, \A s \in Supervisor : Alive(s)' => Alive(s),
           guard' \in Holder, sups' \in [Supervisor -> SupType], asked' \in BOOLEAN,
           Turn(e, EndHolds(x), x.pc = "launching"), Here \/ guard' \in {None, guard},
           FenceIsOne', LegsAreGone', StartsAreCreates',
           UNCHANGED <<row, file, launch, dogs, create, attach, obs, gate, load>>
    PROVE  RunInv'
<1>1. PermitsAreCounted'
  BY DEF RunInv, PermitsAreCounted, One
<1>2. RowStands'
  BY DEF RunInv, RowStands, Here
<1>3. DogsRest(Dog)
  BY DEF DogsRest
<1> QED BY <1>1, <1>2, <1>3, EndActs DEF RunInv, TypeOK

\* And that leave the supervisors alone.
LEMMA EndStays ==
    ASSUME RunInv, NEW e \in Ending, NEW x \in EndType, ends' = [ends EXCEPT ![e] = x], EndIsTrue(e, x),
           x.pc \in {"stopping", "ended", "pruned"} => ~Serves,
           x.result \notin {"row", "forget"}, guard' \in Holder,
           Turn(e, EndHolds(x), x.pc = "launching"), Here \/ guard' \in {None, guard},
           UNCHANGED <<row, sups, file, asked, launch, dogs, create, attach, obs, gate, load>>
    PROVE  RunInv'
<1>1. Serves' = Serves /\ \A s \in Supervisor : Alive(s)' => Alive(s)
  BY DEF Serves, Alive
<1>2. FenceIsOne' /\ LegsAreGone'
  BY OthersKeep DEF RunInv, FenceIsOne, Forked
<1>3. StartsAreCreates'
  BY DEF RunInv, StartsAreCreates
<1> QED BY <1>1, <1>2, <1>3, EndGoesOn DEF RunInv, TypeOK

LEMMA EndIs ==
    ASSUME RunInv, NEW e \in Ending
    PROVE  /\ ends[e] \in EndType /\ ends \in [Ending -> EndType] /\ EndIsTrue(e, ends[e])
           /\ ends[e].pc # "done" => ends[e].result \notin {"row", "forget"}
           /\ EndHolds(ends[e]) <=> guard = e
           /\ guard = e => Here /\ (launch.pc = "no" <=> ends[e].pc # "launching")
<1>1. ends[e] \in EndType /\ ends \in [Ending -> EndType] /\ EndIsTrue(e, ends[e])
  BY DEF RunInv, TypeOK, EndsAreTrue, EndIsTrue
<1>2. ends[e].pc # "done" => ends[e].result \notin {"row", "forget"}
  BY <1>1 DEF EndIsTrue, None
<1>3. EndHolds(ends[e]) <=> guard = e
  BY DEF RunInv, Guarded
<1>4. e # None
  BY DEF Ending, None
<1>5. guard = e => Here /\ (launch.pc = "no" <=> ends[e].pc # "launching")
  BY <1>4 DEF RunInv, RowStands, LaunchIsGuarded
<1> QED BY <1>1, <1>2, <1>3, <1>5

\* An end that goes on.
EndPcs == {"wants", "launching", "reading", "asking", "stopping", "halting", "proving", "ended", "pruned"}

LEMMA EndMoved ==
    ASSUME RunInv, NEW e \in Ending, ends[e].pc # "done", NEW pc \in EndPcs,
           ends' = [ends EXCEPT ![e].pc = pc]
    PROVE  \E x \in EndType : /\ ends' = [ends EXCEPT ![e] = x] /\ EndIsTrue(e, x) /\ x.pc = pc
                              /\ x.result \notin {"row", "forget"} /\ x.late = ends[e].late
<1> DEFINE x == [ends[e] EXCEPT !.pc = pc]
<1>1. /\ ends[e] \in EndType /\ ends \in [Ending -> EndType] /\ EndIsTrue(e, ends[e])
      /\ ends[e].result \notin {"row", "forget"}
  BY EndIs
<1>2. ends' = [ends EXCEPT ![e] = x]
  BY <1>1
<1>3. x \in EndType /\ x.pc = pc /\ x.result = ends[e].result /\ x.late = ends[e].late
  BY <1>1 DEF EndType, EndPcs
<1> HIDE DEF x
<1>4. EndIsTrue(e, x)
  BY <1>1, <1>3 DEF EndIsTrue
<1> QED BY <1>1, <1>2, <1>3, <1>4

\* An end that is told.
LEMMA ToldTrue ==
    ASSUME RunInv, NEW e \in Ending, ends[e].pc # "done", NEW r \in {"unlisted", "kept", "gone", "not", "row", "forget"}
    PROVE  LET x == Told(e, r)
           IN  /\ x \in EndType /\ x.pc = "done" /\ EndIsTrue(e, x) /\ x.result \in {r, "not"}
               /\ x.late = ends[e].late
<1> DEFINE x == Told(e, r)
<1>1. /\ x \in EndType /\ x.pc = "done" /\ x.late = ends[e].late
      /\ x.result = IF ends[e].result = None THEN r ELSE ends[e].result
  BY ToldEnd DEF RunInv
<1>2. ends[e] \in EndType /\ EndIsTrue(e, ends[e])
  BY EndIs
<1>3. ends[e].result # None => ends[e].late /\ ends[e].result = "not"
  BY <1>2 DEF EndIsTrue
<1> HIDE DEF x
<1>4. EndIsTrue(e, x)
  BY <1>1, <1>2, <1>3 DEF EndIsTrue, None
<1>5. x.result \in {r, "not"}
  BY <1>1, <1>3
<1> QED BY <1>1, <1>4, <1>5 DEF x

\* An end that keeps its row.
LEMMA KeptEnd ==
    ASSUME RunInv, NEW e \in Ending, ends[e].pc # "done", Keeps(e)
    PROVE  /\ guard' = None
           /\ \E x \in EndType : /\ ends' = [ends EXCEPT ![e] = x] /\ EndIsTrue(e, x) /\ x.pc \in {"wants", "done"}
                                 /\ x.result \notin {"row", "forget"}
                                 /\ x.pc = "done" => ends[e].late \/ x.result # None
<1>1. guard' = None
  BY DEF Keeps
<1>2. CASE e = "close" /\ ~ends[e].late
  <2>1. ends' = [ends EXCEPT ![e].pc = "wants"]
    BY <1>2 DEF Keeps
  <2>2. "wants" \in EndPcs
    BY DEF EndPcs
  <2>3. \E x \in EndType : /\ ends' = [ends EXCEPT ![e] = x] /\ EndIsTrue(e, x) /\ x.pc = "wants"
                           /\ x.result \notin {"row", "forget"}
    BY <2>1, <2>2, EndMoved
  <2> QED BY <1>1, <2>3
<1>3. CASE ~(e = "close" /\ ~ends[e].late)
  <2>1. ends' = [ends EXCEPT ![e] = Told(e, "kept")]
    BY <1>3 DEF Keeps
  <2>2. /\ Told(e, "kept") \in EndType /\ Told(e, "kept").pc = "done" /\ EndIsTrue(e, Told(e, "kept"))
        /\ Told(e, "kept").result \in {"kept", "not"}
    BY ToldTrue
  <2> HIDE DEF Told
  <2> QED BY <1>1, <2>1, <2>2 DEF None
<1> QED BY <1>2, <1>3

LEMMA EndCalledKeeps ==
    ASSUME RunInv, NEW e \in Ending, EndCalled(e)
    PROVE  RunInv'
<1>1. /\ ends[e].pc = "idle"
      /\ UNCHANGED <<row, guard, sups, file, asked, launch, dogs, create, attach, obs, gate, load>>
  BY DEF EndCalled
<1>2. \E x \in EndType : /\ ends' = [ends EXCEPT ![e] = x] /\ EndIsTrue(e, x) /\ x.pc \in {"wants", "done"}
                         /\ x.result \notin {"row", "forget"}
  <2>1. CASE Here
    <3>1. ends' = [ends EXCEPT ![e].pc = "wants"] /\ "wants" \in EndPcs
      BY <2>1 DEF EndCalled, EndPcs
    <3>2. \E x \in EndType : /\ ends' = [ends EXCEPT ![e] = x] /\ EndIsTrue(e, x) /\ x.pc = "wants"
                             /\ x.result \notin {"row", "forget"}
      BY <1>1, <3>1, EndMoved
    <3> QED BY <3>2
  <2>2. CASE ~Here
    <3>1. ends' = [ends EXCEPT ![e] = Told(e, "unlisted")]
      BY <2>2 DEF EndCalled
    <3>2. LET x == Told(e, "unlisted") IN x \in EndType /\ x.pc = "done" /\ EndIsTrue(e, x) /\ x.result \in {"unlisted", "not"}
      BY <1>1, ToldTrue
    <3> HIDE DEF Told
    <3> QED BY <3>1, <3>2
  <2> QED BY <2>1, <2>2
<1>3. PICK x \in EndType : /\ ends' = [ends EXCEPT ![e] = x] /\ EndIsTrue(e, x) /\ x.pc \in {"wants", "done"}
                           /\ x.result \notin {"row", "forget"}
  BY <1>2
<1>4. guard # e /\ guard' \in Holder
  BY <1>1 DEF RunInv, Guarded, EndHolds, TypeOK
<1>5. Turn(e, EndHolds(x), x.pc = "launching")
  BY <1>1, <1>3, <1>4 DEF Turn, EndHolds
<1> QED BY <1>1, <1>3, <1>4, <1>5, EndStays

\* An end in the guard's turn: who it is told to and who holds the guard after it.
LEMMA EndInTurn ==
    ASSUME RunInv, NEW e \in Ending, NEW x \in EndType, guard = e, launch.pc = "no", launch' = launch,
           \/ x.pc \in {"wants", "done"} /\ guard' = None
           \/ x.pc \in {"reading", "asking", "stopping", "halting", "proving", "ended", "pruned"} /\ guard' = guard
    PROVE  Turn(e, EndHolds(x), x.pc = "launching") /\ guard' \in Holder
BY DEF Turn, EndHolds, Holder

LEMMA EndTakesGuardStep ==
    ASSUME RunInv, NEW e \in Ending, EndTakesGuard(e)
    PROVE  /\ ends[e].pc = "wants" /\ guard = None /\ launch.pc = "no"
           /\ \E x \in EndType :
                /\ ends' = [ends EXCEPT ![e] = x] /\ EndIsTrue(e, x) /\ x.result \notin {"row", "forget"}
                /\ \/ x.pc \in {"wants", "done"} /\ guard' = None /\ UNCHANGED <<row, launch, gate>>
                   \/ x.pc = "reading" /\ guard' = e /\ Here /\ UNCHANGED <<row, launch, gate>>
                   \/ /\ x.pc = "launching" /\ guard' = e /\ Here /\ Begins("resume")
                      /\ row.owner = None /\ row.phase # "terminal"
<1>1. ends[e].pc = "wants" /\ guard = None /\ launch.pc = "no"
  BY DEF EndTakesGuard, RunInv, LaunchIsGuarded
<1>2. CASE ends' = [ends EXCEPT ![e] = Told(e, "gone")] /\ UNCHANGED <<row, guard, launch, gate>>
  <2>1. LET x == Told(e, "gone") IN x \in EndType /\ x.pc = "done" /\ EndIsTrue(e, x) /\ x.result \in {"gone", "not"}
    BY <1>1, ToldTrue
  <2> HIDE DEF Told
  <2> QED BY <1>1, <1>2, <2>1
<1>3. CASE ends' = [ends EXCEPT ![e].pc = "reading"] /\ guard' = e /\ Here /\ UNCHANGED <<row, launch, gate>>
  <2>1. "reading" \in EndPcs
    BY DEF EndPcs
  <2>2. \E x \in EndType : /\ ends' = [ends EXCEPT ![e] = x] /\ EndIsTrue(e, x) /\ x.pc = "reading"
                           /\ x.result \notin {"row", "forget"}
    BY <1>1, <1>3, <2>1, EndMoved
  <2> QED BY <1>1, <1>3, <2>2
<1>4. CASE /\ ends' = [ends EXCEPT ![e].pc = "launching"] /\ guard' = e /\ Here /\ Begins("resume")
           /\ \E p \in Probes : MayResume(p)
  <2>1. "launching" \in EndPcs
    BY DEF EndPcs
  <2>2. \E x \in EndType : /\ ends' = [ends EXCEPT ![e] = x] /\ EndIsTrue(e, x) /\ x.pc = "launching"
                           /\ x.result \notin {"row", "forget"}
    BY <1>1, <1>4, <2>1, EndMoved
  <2>3. row.owner = None /\ row.phase # "terminal"
    BY <1>4 DEF MayResume
  <2> QED BY <1>1, <1>4, <2>2, <2>3
<1>5. CASE Keeps(e) /\ UNCHANGED <<row, launch, gate>>
  BY <1>1, <1>5, KeptEnd
<1> QED BY <1>2, <1>3, <1>4, <1>5 DEF EndTakesGuard

LEMMA EndTakesGuardKeeps ==
    ASSUME RunInv, NEW e \in Ending, EndTakesGuard(e)
    PROVE  RunInv'
<1>1. /\ ends[e].pc = "wants" /\ guard = None /\ launch.pc = "no" /\ guard # e
      /\ UNCHANGED <<sups, file, asked, dogs, create, attach, obs, load>>
  BY EndTakesGuardStep, Names DEF EndTakesGuard, Ending, None
<1>2. PICK x \in EndType :
         /\ ends' = [ends EXCEPT ![e] = x] /\ EndIsTrue(e, x) /\ x.result \notin {"row", "forget"}
         /\ \/ x.pc \in {"wants", "done"} /\ guard' = None /\ UNCHANGED <<row, launch, gate>>
            \/ x.pc = "reading" /\ guard' = e /\ Here /\ UNCHANGED <<row, launch, gate>>
            \/ x.pc = "launching" /\ guard' = e /\ Here /\ Begins("resume")
  BY EndTakesGuardStep
<1>3. guard' \in Holder
  BY <1>2 DEF Holder
<1>4. CASE x.pc # "launching"
  <2>1. Turn(e, EndHolds(x), x.pc = "launching")
    BY <1>1, <1>2, <1>4 DEF Turn, EndHolds
  <2>2. UNCHANGED <<row, launch, gate>> /\ x.pc \notin {"stopping", "ended", "pruned"} /\ (Here \/ guard' = None)
    BY <1>2, <1>4
  <2> QED BY <1>1, <1>2, <1>3, <2>1, <2>2, EndStays
<1>5. CASE x.pc = "launching"
  <2>1. guard' = e /\ Here /\ Begins("resume")
    BY <1>2, <1>5
  <2>2. attach.pc # "resetting"
    BY <1>1 DEF RunInv, Guarded, None
  <2>3. /\ row' \in RowType /\ launch' \in LaunchType /\ gate' \in GateType
        /\ launch'.pc = "begun" /\ launch'.mode = "resume"
        /\ PermitsAreCounted' /\ FenceIsOne' /\ LegsAreGone' /\ RowStands'
    BY <1>1, <2>1, <2>2, BegunKeeps
  <2>4. row'.on = row.on
    BY <2>1, BegunRow DEF RunInv
  <2>5. Turn(e, EndHolds(x), x.pc = "launching")
    BY <1>1, <1>5, <2>1, <2>3 DEF Turn, EndHolds
  <2>6. StartsAreCreates' /\ DogsRest(Dog) /\ Serves' = Serves /\ \A s \in Supervisor : Alive(s)' => Alive(s)
    BY <1>1, <2>3 DEF RunInv, StartsAreCreates, DogsRest, Serves, Alive
  <2> QED BY <1>1, <1>2, <1>3, <1>5, <2>3, <2>4, <2>5, <2>6, EndActs DEF RunInv, TypeOK
<1> QED BY <1>4, <1>5

LEMMA EndLaunchedKeeps ==
    ASSUME RunInv, NEW e \in Ending, EndLaunched(e)
    PROVE  RunInv'
<1>1. /\ ends[e].pc = "launching" /\ launch' = NoLaunch /\ gate' = Drops(1)
      /\ UNCHANGED <<sups, file, asked, create, attach, obs, load>>
  BY DEF EndLaunched
<1>2. guard = e /\ Here /\ launch.pc # "no" /\ attach.pc # "resetting"
  BY <1>1, EndIs, LaunchIsAlone DEF EndHolds
<1>3. /\ launch' \in LaunchType /\ launch'.pc = "no" /\ launch'.sup = None /\ launch'.mode = None
      /\ gate' \in GateType /\ PermitsAreCounted'
  BY <1>1, <1>2, LaunchDropped
<1>4. /\ row' \in RowType /\ row'.on = row.on /\ dogs' \in [Dog -> DogType]
      /\ FenceIsOne' /\ LegsAreGone' /\ DogsRest(Dog)
  <2>1. CASE UNCHANGED <<row, dogs>>
    BY <1>1, <1>3, <2>1, OthersKeep DEF DogsRest, RunInv, TypeOK
  <2>2. CASE launch.pc = "settled" /\ Watched
    BY <1>1, <2>2, WatchedKeeps
  <2> QED BY <2>1, <2>2 DEF EndLaunched
<1>5. \E x \in EndType : /\ ends' = [ends EXCEPT ![e] = x] /\ EndIsTrue(e, x) /\ x.result \notin {"row", "forget"}
                         /\ \/ x.pc \in {"wants", "done"} /\ guard' = None
                            \/ x.pc = "reading" /\ guard' = guard
  <2>1. CASE ends' = [ends EXCEPT ![e].pc = "reading"] /\ guard' = guard
    <3>1. "reading" \in EndPcs
      BY DEF EndPcs
    <3>2. \E x \in EndType : /\ ends' = [ends EXCEPT ![e] = x] /\ EndIsTrue(e, x) /\ x.pc = "reading"
                             /\ x.result \notin {"row", "forget"}
      BY <1>1, <2>1, <3>1, EndMoved
    <3> QED BY <2>1, <3>2
  <2>2. CASE Keeps(e)
    BY <1>1, <2>2, KeptEnd
  <2> QED BY <2>1, <2>2 DEF EndLaunched
<1>6. PICK x \in EndType : /\ ends' = [ends EXCEPT ![e] = x] /\ EndIsTrue(e, x) /\ x.result \notin {"row", "forget"}
                           /\ \/ x.pc \in {"wants", "done"} /\ guard' = None
                              \/ x.pc = "reading" /\ guard' = guard
  BY <1>5
<1>7. guard' \in Holder /\ Turn(e, EndHolds(x), x.pc = "launching")
  BY <1>2, <1>3, <1>6 DEF Turn, EndHolds, Holder
<1>8. StartsAreCreates' /\ Serves' = Serves /\ \A s \in Supervisor : Alive(s)' => Alive(s)
  BY <1>1, <1>3 DEF RunInv, StartsAreCreates, Serves, Alive, None
<1>9. RowStands'
  BY <1>1, <1>2, <1>4 DEF RunInv, RowStands, Here
<1>10. x.pc \notin {"stopping", "ended", "pruned"} /\ row'.on \in {row.on, "removed"}
  BY <1>4, <1>6
<1> QED BY <1>1, <1>3, <1>4, <1>6, <1>7, <1>8, <1>9, <1>10, EndActs DEF RunInv, TypeOK

\* What answers that its run ended serves none, and nothing else lives.
LEMMA EndedServesNone ==
    ASSUME RunInv, NEW s \in Supervisor, Alive(s), sups[s].st \notin Serving
    PROVE  ~Serves
BY DEF RunInv, FenceIsOne, Serves, Alive, Live, Serving

\* An end in its locked part that leaves the row, the launch and the supervisors as
\* they are.
LEMMA EndSteps ==
    ASSUME RunInv, NEW e \in Ending, guard = e, launch.pc = "no",
           NEW x \in EndType, ends' = [ends EXCEPT ![e] = x], EndIsTrue(e, x),
           x.pc \in {"stopping", "ended", "pruned"} => ~Serves, x.result \notin {"row", "forget"},
           \/ x.pc \in {"wants", "done"} /\ guard' = None
           \/ x.pc \in {"reading", "asking", "stopping", "halting", "proving", "ended", "pruned"} /\ guard' = guard,
           UNCHANGED <<row, sups, file, asked, launch, dogs, create, attach, obs, gate, load>>
    PROVE  RunInv'
<1>1. Turn(e, EndHolds(x), x.pc = "launching") /\ guard' \in Holder
  BY EndInTurn
<1>2. Here
  BY EndIs
<1> QED BY <1>1, <1>2, EndStays

LEMMA EndReadsKeeps ==
    ASSUME RunInv, NEW e \in Ending, EndReads(e)
    PROVE  RunInv'
<1>1. /\ ends[e].pc = "reading"
      /\ UNCHANGED <<row, sups, file, asked, launch, dogs, create, attach, obs, gate, load>>
  BY DEF EndReads
<1>2. guard = e /\ launch.pc = "no"
  BY <1>1, EndIs DEF EndHolds
<1>3. CASE Keeps(e)
  <2>1. /\ guard' = None
        /\ \E x \in EndType : /\ ends' = [ends EXCEPT ![e] = x] /\ EndIsTrue(e, x) /\ x.pc \in {"wants", "done"}
                              /\ x.result \notin {"row", "forget"}
    BY <1>1, <1>3, KeptEnd
  <2> QED BY <1>1, <1>2, <2>1, EndSteps
<1>4. ASSUME NEW p \in Probes, guard' = guard,
             ends' = [ends EXCEPT ![e].pc =
                          CASE p \in {"stopped", "unreachable"} -> "proving"
                            [] p = "ready" -> "asking"
                            [] p = "ended" -> "stopping"
                            [] p \in {"starting", "terminal"} -> "halting"]
      PROVE  RunInv'
  <2>1. p \in Phases
    BY ProbesSay DEF RunInv
  <2>2. PICK pc \in {"proving", "asking", "stopping", "halting"} :
           ends' = [ends EXCEPT ![e].pc = pc] /\ (pc = "stopping" => p = "ended")
    BY <1>4, <2>1 DEF Phases
  <2>3. p = "ended" => ~Serves
    <3>1. p = "ended" => \E s \in Answering : sups[s].st = "ended"
      BY <1>4 DEF Probes
    <3>2. \A s \in Answering : s \in Supervisor /\ Alive(s)
      BY DEF Answering, Alive
    <3> QED BY <3>1, <3>2, EndedServesNone DEF Serving
  <2>4. pc \in EndPcs
    BY DEF EndPcs
  <2>5. PICK x \in EndType : /\ ends' = [ends EXCEPT ![e] = x] /\ EndIsTrue(e, x) /\ x.pc = pc
                             /\ x.result \notin {"row", "forget"}
    BY <1>1, <2>2, <2>4, EndMoved
  <2> QED BY <1>1, <1>2, <1>4, <2>2, <2>3, <2>5, EndSteps
<1> QED BY <1>3, <1>4 DEF EndReads

\* An end that is confirmed.
LEMMA ConfirmedEnd ==
    ASSUME RunInv, NEW e \in Ending, ends[e].pc # "done", Confirms(e)
    PROVE  \E x \in EndType :
             /\ ends' = [ends EXCEPT ![e] = x] /\ EndIsTrue(e, x) /\ x.result \notin {"row", "forget"}
             /\ \/ x.pc = "done" /\ guard' = None
                \/ x.pc = "ended" /\ guard' = guard
<1>1. CASE guard' = None /\ ends' = [ends EXCEPT ![e] = Told(e, "not")]
  <2>1. LET x == Told(e, "not") IN x \in EndType /\ x.pc = "done" /\ EndIsTrue(e, x) /\ x.result = "not"
    BY ToldTrue
  <2> HIDE DEF Told
  <2> QED BY <1>1, <2>1
<1>2. CASE ends' = [ends EXCEPT ![e].pc = "ended"] /\ guard' = guard
  <2>1. "ended" \in EndPcs
    BY DEF EndPcs
  <2>2. \E x \in EndType : /\ ends' = [ends EXCEPT ![e] = x] /\ EndIsTrue(e, x) /\ x.pc = "ended"
                           /\ x.result \notin {"row", "forget"}
    BY <1>2, <2>1, EndMoved
  <2> QED BY <1>2, <2>2
<1> QED BY <1>1, <1>2 DEF Confirms

LEMMA EndProvesKeeps ==
    ASSUME RunInv, NEW e \in Ending, EndProves(e)
    PROVE  RunInv'
<1>1. /\ ends[e].pc = "proving"
      /\ UNCHANGED <<row, sups, file, asked, launch, dogs, create, attach, obs, gate, load>>
  BY DEF EndProves
<1>2. guard = e /\ launch.pc = "no"
  BY <1>1, EndIs DEF EndHolds
<1>3. CASE Keeps(e)
  <2>1. /\ guard' = None
        /\ \E x \in EndType : /\ ends' = [ends EXCEPT ![e] = x] /\ EndIsTrue(e, x) /\ x.pc \in {"wants", "done"}
                              /\ x.result \notin {"row", "forget"}
    BY <1>1, <1>3, KeptEnd
  <2> QED BY <1>1, <1>2, <2>1, EndSteps
<1>4. CASE (~file \/ ~FenceHeld) /\ Confirms(e)
  <2>1. ~Serves
    BY <1>4 DEF RunInv, FenceIsOne, Serves, Serving, FenceHeld, Alive, Live
  <2>2. PICK x \in EndType :
           /\ ends' = [ends EXCEPT ![e] = x] /\ EndIsTrue(e, x) /\ x.result \notin {"row", "forget"}
           /\ \/ x.pc = "done" /\ guard' = None
              \/ x.pc = "ended" /\ guard' = guard
    BY <1>1, <1>4, ConfirmedEnd
  <2> QED BY <1>1, <1>2, <2>1, <2>2, EndSteps
<1> QED BY <1>3, <1>4 DEF EndProves

\* A step of an end that stops, or ends, what answers.
LEMMA EndStopsIt ==
    ASSUME RunInv, NEW e \in Ending, guard = e, launch.pc = "no",
           NEW x \in EndType, ends' = [ends EXCEPT ![e] = x], EndIsTrue(e, x),
           x.pc \in {"stopping", "ended", "pruned"} => ~Serves', x.result \notin {"row", "forget"},
           \/ x.pc \in {"wants", "done"} /\ guard' = None
           \/ x.pc \in {"reading", "asking", "stopping", "halting", "proving", "ended", "pruned"} /\ guard' = guard,
           Serves' => Serves, \A s \in Supervisor : Alive(s)' => Alive(s),
           sups' \in [Supervisor -> SupType], asked' \in BOOLEAN, FenceIsOne', LegsAreGone', StartsAreCreates',
           UNCHANGED <<row, file, launch, dogs, create, attach, obs, gate, load>>
    PROVE  RunInv'
<1>1. Turn(e, EndHolds(x), x.pc = "launching") /\ guard' \in Holder
  BY EndInTurn
<1>2. Here
  BY EndIs
<1> QED BY <1>1, <1>2, EndGoesOn

LEMMA EndAsksKeeps ==
    ASSUME RunInv, NEW e \in Ending, EndAsks(e)
    PROVE  RunInv'
<1>1. /\ ends[e].pc = "asking"
      /\ UNCHANGED <<row, file, launch, dogs, create, attach, obs, gate, load>>
  BY DEF EndAsks
<1>2. guard = e /\ launch.pc = "no"
  BY <1>1, EndIs DEF EndHolds
<1>3. CASE Keeps(e) /\ UNCHANGED <<sups, asked>>
  <2>1. /\ guard' = None
        /\ \E x \in EndType : /\ ends' = [ends EXCEPT ![e] = x] /\ EndIsTrue(e, x) /\ x.pc \in {"wants", "done"}
                              /\ x.result \notin {"row", "forget"}
    BY <1>1, <1>3, KeptEnd
  <2> QED BY <1>1, <1>2, <1>3, <2>1, EndSteps
<1>4. ASSUME NEW s \in Supervisor, sups[s].st = "ready", sups' = [sups EXCEPT ![s].st = "ended"], asked' = TRUE,
             (ends' = [ends EXCEPT ![e].pc = "stopping"] /\ UNCHANGED guard) \/ Keeps(e)
      PROVE  RunInv'
  <2> DEFINE y == [sups[s] EXCEPT !.st = "ended"]
  <2>1. sups[s] \in SupType /\ sups \in [Supervisor -> SupType] /\ Alive(s) /\ sups[s].st \in Serving
    BY <1>4 DEF RunInv, TypeOK, Alive, Live, Serving
  <2>2. y \in SupType /\ y.st = "ended" /\ y.mode = sups[s].mode /\ sups' = [sups EXCEPT ![s] = y]
    BY <1>4, <2>1 DEF SupType, Live
  <2> HIDE DEF y
  <2>3. /\ sups' \in [Supervisor -> SupType] /\ FenceIsOne' /\ LegsAreGone' /\ StartsAreCreates'
        /\ \A t \in Supervisor : Alive(t)' => Alive(t)
    BY <1>1, <2>1, <2>2, SupSteps
  <2>4. /\ sups'[s] = y /\ \A t \in Supervisor : t # s => sups'[t] = sups[t]
    BY <2>2, SupSet DEF RunInv
  <2>5. ~Serves' /\ asked' \in BOOLEAN
    BY <1>4, <2>1, <2>2, <2>3, <2>4 DEF RunInv, FenceIsOne, Serves, Serving, Alive, Live
  <2>6. \E x \in EndType : /\ ends' = [ends EXCEPT ![e] = x] /\ EndIsTrue(e, x) /\ x.result \notin {"row", "forget"}
                           /\ \/ x.pc \in {"wants", "done"} /\ guard' = None
                              \/ x.pc = "stopping" /\ guard' = guard
    <3>1. CASE ends' = [ends EXCEPT ![e].pc = "stopping"] /\ UNCHANGED guard
      <4>1. "stopping" \in EndPcs
        BY DEF EndPcs
      <4>2. \E x \in EndType : /\ ends' = [ends EXCEPT ![e] = x] /\ EndIsTrue(e, x) /\ x.pc = "stopping"
                               /\ x.result \notin {"row", "forget"}
        BY <1>1, <3>1, <4>1, EndMoved
      <4> QED BY <3>1, <4>2
    <3>2. CASE Keeps(e)
      BY <1>1, <3>2, KeptEnd
    <3> QED BY <1>4, <3>1, <3>2
  <2> QED BY <1>1, <1>2, <2>3, <2>5, <2>6, EndStopsIt
<1> QED BY <1>3, <1>4 DEF EndAsks

LEMMA EndStopsKeeps ==
    ASSUME RunInv, NEW e \in Ending, EndStops(e)
    PROVE  RunInv'
<1>1. /\ ends[e].pc \in {"stopping", "halting"} /\ sups' \in {sups} \cup {Stopped(s) : s \in Answering}
      /\ UNCHANGED <<row, file, asked, launch, dogs, create, attach, obs, gate, load>>
  BY DEF EndStops
<1>2. guard = e /\ launch.pc = "no" /\ (ends[e].pc = "stopping" => ~Serves)
  BY <1>1, EndIs DEF EndHolds, RunInv, EndsAreTrue
<1>3. /\ sups' \in [Supervisor -> SupType] /\ asked' \in BOOLEAN /\ FenceIsOne' /\ LegsAreGone' /\ StartsAreCreates'
      /\ Serves' => Serves
      /\ \A s \in Supervisor : Alive(s)' => Alive(s)
  <2>1. CASE sups' = sups
    <3>1. FenceIsOne' /\ LegsAreGone' /\ StartsAreCreates'
      BY <1>1, <2>1, OthersKeep DEF RunInv, FenceIsOne, Forked, StartsAreCreates
    <3> QED BY <1>1, <2>1, <3>1 DEF RunInv, TypeOK, Serves, Alive
  <2>2. CASE \E s \in Answering : sups' = Stopped(s)
    BY <1>1, <2>2, StoppedSup DEF RunInv, TypeOK
  <2> QED BY <1>1, <2>1, <2>2
<1>4. \E x \in EndType : /\ ends' = [ends EXCEPT ![e] = x] /\ EndIsTrue(e, x) /\ x.result \notin {"row", "forget"}
                         /\ x.pc \in {"stopping", "ended", "pruned"} => ~Serves
                         /\ \/ x.pc \in {"wants", "done"} /\ guard' = None
                            \/ x.pc \in {"ended", "proving"} /\ guard' = guard
  <2>1. CASE ends[e].pc = "stopping" /\ Confirms(e)
    BY <1>2, <2>1, ConfirmedEnd
  <2>2. CASE ends' = [ends EXCEPT ![e].pc = "proving"] /\ guard' = guard
    <3>1. "proving" \in EndPcs
      BY DEF EndPcs
    <3>2. \E x \in EndType : /\ ends' = [ends EXCEPT ![e] = x] /\ EndIsTrue(e, x) /\ x.pc = "proving"
                             /\ x.result \notin {"row", "forget"}
      BY <1>1, <2>2, <3>1, EndMoved
    <3> QED BY <2>2, <3>2
  <2>3. CASE Keeps(e)
    <3>1. /\ guard' = None
          /\ \E x \in EndType : /\ ends' = [ends EXCEPT ![e] = x] /\ EndIsTrue(e, x) /\ x.pc \in {"wants", "done"}
                                /\ x.result \notin {"row", "forget"}
      BY <1>1, <2>3, KeptEnd
    <3> QED BY <3>1
  <2> QED BY <2>1, <2>2, <2>3 DEF EndStops
<1>5. PICK x \in EndType : /\ ends' = [ends EXCEPT ![e] = x] /\ EndIsTrue(e, x) /\ x.result \notin {"row", "forget"}
                           /\ x.pc \in {"stopping", "ended", "pruned"} => ~Serves
                           /\ \/ x.pc \in {"wants", "done"} /\ guard' = None
                              \/ x.pc \in {"ended", "proving"} /\ guard' = guard
  BY <1>4
<1> QED BY <1>1, <1>2, <1>3, <1>5, EndStopsIt

LEMMA EndPrunedKeeps ==
    ASSUME RunInv, NEW e \in Ending, EndPruned(e)
    PROVE  RunInv'
<1>1. /\ ends[e].pc = "ended" /\ ends' = [ends EXCEPT ![e].pc = "pruned"]
      /\ UNCHANGED <<row, guard, sups, file, asked, launch, dogs, create, attach, obs, gate, load>>
  BY DEF EndPruned
<1>2. guard = e /\ launch.pc = "no" /\ ~Serves
  BY <1>1, EndIs DEF EndHolds, RunInv, EndsAreTrue
<1>3. "pruned" \in EndPcs
  BY DEF EndPcs
<1>4. PICK x \in EndType : /\ ends' = [ends EXCEPT ![e] = x] /\ EndIsTrue(e, x) /\ x.pc = "pruned"
                           /\ x.result \notin {"row", "forget"}
  BY <1>1, <1>3, EndMoved
<1> QED BY <1>1, <1>2, <1>4, EndSteps

LEMMA EndRemovesKeeps ==
    ASSUME RunInv, NEW e \in Ending, EndRemoves(e)
    PROVE  RunInv'
<1>1. /\ ends[e].pc = "pruned" /\ row' = NoRow("removed") /\ obs' = Unwatched /\ guard' = None
      /\ UNCHANGED <<sups, file, asked, launch, dogs, create, attach, gate, load>>
  BY DEF EndRemoves
<1>2. guard = e /\ launch.pc = "no" /\ ~Serves /\ Here
  BY <1>1, EndIs DEF EndHolds, RunInv, EndsAreTrue
<1>3. PICK r \in {"row", "forget"} : ends' = [ends EXCEPT ![e] = Told(e, r)]
  BY DEF EndRemoves
<1> DEFINE x == Told(e, r)
<1>4. /\ x \in EndType /\ x.pc = "done" /\ EndIsTrue(e, x) /\ ends' = [ends EXCEPT ![e] = x]
  BY <1>1, <1>3, ToldTrue
<1> HIDE DEF x
<1>5. row' \in RowType /\ row'.on = "removed"
  BY <1>1 DEF NoRow, RowType, Phases
<1>6. obs' \in ObsType /\ obs'.pc = "none"
  BY <1>1, NoRoundIs
<1>7. Turn(e, EndHolds(x), x.pc = "launching") /\ guard' \in Holder
  BY <1>1, <1>2, <1>4 DEF Turn, EndHolds, Holder
<1>8. PermitsAreCounted' /\ FenceIsOne' /\ LegsAreGone' /\ StartsAreCreates' /\ DogsRest(Dog)
  BY <1>1, OthersKeep DEF RunInv, PermitsAreCounted, One, FenceIsOne, Forked, StartsAreCreates, DogsRest
<1>9. ~Serves' /\ \A s \in Supervisor : Alive(s)' => Alive(s)
  BY <1>1, <1>2 DEF Serves, Alive
<1>10. RowStands'
  BY <1>1, <1>2, <1>5, <1>6 DEF RunInv, RowStands, Here
<1> QED BY <1>1, <1>4, <1>5, <1>6, <1>7, <1>8, <1>9, <1>10, EndActs DEF RunInv, TypeOK

LEMMA EndLeavesRowKeeps ==
    ASSUME RunInv, EndLeavesRow
    PROVE  RunInv'
<1>1. /\ "close" \in Ending /\ ends["close"].pc = "ended" /\ guard' = None
      /\ ends' = [ends EXCEPT !["close"] = Told("close", "not")]
      /\ UNCHANGED <<row, sups, file, asked, launch, dogs, create, attach, obs, gate, load>>
  BY DEF EndLeavesRow, Ending
<1>2. guard = "close" /\ launch.pc = "no"
  BY <1>1, EndIs DEF EndHolds
<1>3. LET x == Told("close", "not") IN x \in EndType /\ x.pc = "done" /\ EndIsTrue("close", x) /\ x.result = "not"
  BY <1>1, ToldTrue
<1> HIDE DEF Told
<1> QED BY <1>1, <1>2, <1>3, EndSteps

\* What the deadline does: it tells that the close has not ended the row.
LEMMA EndDeadlineKeeps ==
    ASSUME RunInv, EndDeadline
    PROVE  RunInv'
<1>1. /\ "close" \in Ending /\ ends["close"].pc \notin {"idle", "done"} /\ ends["close"].result = None
      /\ UNCHANGED <<row, guard, sups, file, asked, launch, dogs, create, attach, obs, gate, load>>
  BY DEF EndDeadline, Ending
<1>2. /\ ends["close"] \in EndType /\ (EndHolds(ends["close"]) <=> guard = "close")
      /\ guard = "close" => (launch.pc = "no" <=> ends["close"].pc # "launching")
      /\ ends["close"].pc \in {"stopping", "ended", "pruned"} => ~Serves
      /\ guard' \in Holder
  BY <1>1, EndIs DEF RunInv, EndsAreTrue, TypeOK
<1>3. CASE ends["close"].pc = "wants" /\ ends' = [ends EXCEPT !["close"] = Told("close", "not")]
  <2>1. LET x == Told("close", "not") IN x \in EndType /\ x.pc = "done" /\ EndIsTrue("close", x) /\ x.result = "not"
    BY <1>1, ToldTrue
  <2>2. guard # "close"
    BY <1>2, <1>3 DEF EndHolds
  <2> HIDE DEF Told
  <2>3. Turn("close", EndHolds(Told("close", "not")), Told("close", "not").pc = "launching")
    BY <1>1, <2>1, <2>2 DEF Turn, EndHolds
  <2> QED BY <1>1, <1>2, <1>3, <2>1, <2>3, EndStays
<1>4. CASE ends' = [ends EXCEPT !["close"] = [ends["close"] EXCEPT !.result = "not", !.late = TRUE]]
  <2> DEFINE x == [ends["close"] EXCEPT !.result = "not", !.late = TRUE]
  <2>1. x \in EndType /\ x.pc = ends["close"].pc /\ x.result = "not" /\ x.late
    BY <1>2 DEF EndType
  <2>2. ends' = [ends EXCEPT !["close"] = x]
    BY <1>4
  <2> HIDE DEF x
  <2>3. EndIsTrue("close", x)
    BY <2>1 DEF EndIsTrue
  <2>4. Turn("close", EndHolds(x), x.pc = "launching")
    BY <1>1, <1>2, <2>1 DEF Turn, EndHolds
  <2> QED BY <1>1, <1>2, <2>1, <2>2, <2>3, <2>4, EndStays
<1> QED BY <1>3, <1>4 DEF EndDeadline

----------------------------------------------------------------------------
(* The theorems of every load.                                             *)

LEMMA InitTypes ==
    ASSUME Init
    PROVE  TypeOK
<1>1. load \in LoadType /\ 0 \in 0..(MaxRestarts + 1)
  BY RowRunAssumption DEF Init
<1>2. NoRow("absent") \in RowType /\ NoRow("absent").on = "absent" /\ FreshRow \in RowType
  BY DEF NoRow, FreshRow, RowType, Phases
<1>3. launch \in LaunchType /\ attach \in AttachType /\ guard \in Holder
  BY DEF Init, NoLaunch, LaunchType, NoAttach, AttachType, Holder
<1>4. NoDog \in DogType
  BY <1>1, Zenon DEF NoDog, DogType
<1>5. dogs \in [Dog -> DogType]
  BY <1>4 DEF Init
<1>6. create \in CreateType
  BY <1>2 DEF Init, CreateType
<1>7. ends \in [Ending -> EndType]
  BY DEF Init, EndType
<1>8. gate \in GateType
  BY DEF Init, GateType
<1>9. row \in RowType /\ obs \in ObsType /\ file \in BOOLEAN /\ asked \in BOOLEAN /\ load \in Loads
  BY <1>2, NoRoundIs DEF Init
<1>10. sups \in [Supervisor -> SupType]
  BY DEF Init, SupType, Live
<1> QED BY <1>3, <1>5, <1>6, <1>7, <1>8, <1>9, <1>10 DEF TypeOK

LEMMA InitHolds ==
    ASSUME Init
    PROVE  RunInv
<1>1. /\ guard = None /\ launch.pc = "no" /\ launch.sup = None /\ launch.mode = None
      /\ \A d \in Dog : dogs[d].pc = "unborn" /\ dogs[d].leg = None /\ dogs[d].never = 0
      /\ create.pc = "idle" /\ create.n = 0
      /\ attach.pc = "idle" /\ attach.own = None
      /\ \A e \in Ending : ends[e].pc = "idle" /\ ends[e].result = None /\ ends[e].late = FALSE
      /\ ~gate.closing /\ gate.inFlight = 0 /\ gate.settled = None
  BY DEF Init, NoLaunch, NoDog, NoAttach
<1>2. Guarded /\ LaunchIsGuarded
  BY <1>1, Names DEF Guarded, LaunchIsGuarded, DogHolds, EndHolds, Ending, None
<1>3. PermitsAreCounted
  BY <1>1 DEF PermitsAreCounted, One, None
<1>4. \/ /\ load.boot = "unknown" /\ row.on = "absent" /\ ~file /\ obs.pc = "none"
         /\ \A s \in Supervisor : sups[s].st = "unborn" /\ sups[s].mode = None
      \/ /\ load.boot = "loaded" /\ row.on = "here" /\ file /\ obs.pc = "idle"
         /\ \E s \in Supervisor : /\ sups[s].mode = "resume" /\ (sups[s].st = "gone" => sups[s].code = "crash")
                                  /\ \A t \in Supervisor : t # s => sups[t].st = "unborn" /\ sups[t].mode = None
  BY DEF Init, NoRow, FreshRow, NoRound, Unwatched
<1>5. FenceIsOne
  BY <1>1, <1>4 DEF FenceIsOne, Forked, Alive, Live, None
<1>6. LegsAreGone
  BY <1>1, <1>4, Names DEF LegsAreGone, Active
<1>7. RowStands
  BY <1>1, <1>4 DEF RowStands, Here
<1>8. StartsAreCreates /\ AuthorityIsOwn
  BY <1>1, <1>4 DEF StartsAreCreates, AuthorityIsOwn, None
<1>9. EndsAreTrue
  BY <1>1 DEF EndsAreTrue, None
<1> QED BY InitTypes, <1>2, <1>3, <1>5, <1>6, <1>7, <1>8, <1>9 DEF RunInv

LEMMA NextKeeps ==
    ASSUME RunInv, [Next]_vars
    PROVE  RunInv'
<1>1. CASE UNCHANGED vars
  <2>1. TypeOK' /\ Guarded' /\ LaunchIsGuarded' /\ PermitsAreCounted' /\ FenceIsOne' /\ LegsAreGone'
    BY <1>1 DEF RunInv, TypeOK, Guarded, LaunchIsGuarded, PermitsAreCounted, One, FenceIsOne, Forked, Alive,
                LegsAreGone, Active, vars
  <2>2. RowStands' /\ StartsAreCreates' /\ AuthorityIsOwn' /\ EndsAreTrue'
    BY <1>1 DEF RunInv, RowStands, Here, StartsAreCreates, AuthorityIsOwn, Alive, EndsAreTrue, Serves, vars
  <2> QED BY <2>1, <2>2 DEF RunInv
<1>2. ASSUME NEW s \in Supervisor,
             SupAnswers(s) \/ SupRuns(s) \/ SupTerminal(s) \/ SupDies(s) \/ DialAnswered(s)
      PROVE  RunInv'
  BY <1>2, SupAnswersKeeps, SupRunsKeeps, SupTerminalKeeps, SupDiesKeeps, DialAnsweredKeeps
<1>3. ASSUME Fork \/ Settle \/ CloseGate \/ GateSettles
      PROVE  RunInv'
  BY <1>3, ForkKeeps, SettleKeeps, CloseGateKeeps, GateSettlesKeeps
<1>4. ASSUME CreateChecked \/ CreateAdmitted \/ CreateInserts \/ CreateStarts \/ CreateRefused \/ CreateEnds
      PROVE  RunInv'
  BY <1>4, CreateCheckedKeeps, CreateAdmittedKeeps, CreateInsertsKeeps, CreateStartsKeeps, CreateRefusedKeeps,
     CreateEndsKeeps
<1>5. ASSUME NEW d \in Dog,
             DogTold(d) \/ DogMarks(d) \/ DogRechecks(d) \/ DogRestarts(d) \/ DogRefused(d) \/ DogLaunched(d)
      PROVE  RunInv'
  BY <1>5, DogToldKeeps, DogMarksKeeps, DogRechecksKeeps, DogRestartsKeeps, DogRefusedKeeps, DogLaunchedKeeps
<1>6. ASSUME RoundBegins \/ DialFails \/ WatchTells \/ WatchEnds \/ Adopts
      PROVE  RunInv'
  BY <1>6, RoundBeginsKeeps, DialFailsKeeps, WatchTellsKeeps, WatchEndsKeeps, AdoptsKeeps
<1>7. ASSUME \/ AttachCalled \/ AttachLooks \/ AttachLaunched \/ AttachStops \/ AttachReplaces
             \/ AttachReplaced \/ ResetBegins \/ Resets
      PROVE  RunInv'
  BY <1>7, AttachCalledKeeps, AttachLooksKeeps, AttachLaunchedKeeps, AttachStopsKeeps, AttachReplacesKeeps,
     AttachReplacedKeeps, ResetBeginsKeeps, ResetsKeeps
<1>8. ASSUME NEW e \in Ending,
             \/ EndCalled(e) \/ EndTakesGuard(e) \/ EndLaunched(e) \/ EndReads(e) \/ EndAsks(e)
             \/ EndStops(e) \/ EndProves(e) \/ EndPruned(e) \/ EndRemoves(e)
      PROVE  RunInv'
  BY <1>8, EndCalledKeeps, EndTakesGuardKeeps, EndLaunchedKeeps, EndReadsKeeps, EndAsksKeeps, EndStopsKeeps,
     EndProvesKeeps, EndPrunedKeeps, EndRemovesKeeps
<1>9. ASSUME EndDeadline \/ EndLeavesRow
      PROVE  RunInv'
  BY <1>9, EndDeadlineKeeps, EndLeavesRowKeeps
<1> QED BY <1>1, <1>2, <1>3, <1>4, <1>5, <1>6, <1>7, <1>8, <1>9 DEF Next

\* The row's starts and ends keep RunInv, whatever the loads.
THEOREM RunIsKept == Spec => []RunInv
<1>1. Init => RunInv
  BY InitHolds
<1>2. RunInv /\ [Next]_vars => RunInv'
  BY NextKeeps
<1> QED BY <1>1, <1>2, PTL DEF Spec

\* Every variable of the row keeps its type: the restart count never passes the budget
\* by more than the restart it refuses, and three permits at most are out.
THEOREM RowTypes == Spec => []TypeOK
<1>1. RunInv => TypeOK
  BY DEF RunInv
<1> QED BY <1>1, RunIsKept, PTL

\* EndedRunsNoAgent (rows/run/end.rs, rows/end.rs): an end that removed the row leaves no
\* agent behind it, whatever started the row meanwhile.
THEOREM EndsAreConfirmed == Spec => []EndedRunsNoAgent
<1>1. RunInv => EndedRunsNoAgent
  BY DEF RunInv, EndsAreTrue, EndedRunsNoAgent
<1> QED BY <1>1, RunIsKept, PTL

\* Who moves a supervisor, and who writes the end record.
LEMMA SupsRest ==
    ASSUME [Next]_vars,
           \A s \in Supervisor : ~SupAnswers(s) /\ ~SupRuns(s) /\ ~SupTerminal(s) /\ ~SupDies(s),
           ~Fork, ~AttachStops, ~Resets, \A e \in Ending : ~EndAsks(e) /\ ~EndStops(e)
    PROVE  UNCHANGED <<sups, asked>>
<1>1. CASE UNCHANGED vars
  BY <1>1 DEF vars
<1>2. ASSUME NEW s \in Supervisor, DialAnswered(s) PROVE UNCHANGED <<sups, asked>>
  BY <1>2 DEF DialAnswered
<1>3. CASE Settle \/ CloseGate \/ GateSettles
  BY <1>3, Zenon DEF Settle, CloseGate, GateSettles
<1>4. CASE CreateChecked \/ CreateAdmitted \/ CreateInserts \/ CreateStarts \/ CreateRefused \/ CreateEnds
  BY <1>4, Zenon DEF CreateChecked, CreateAdmitted, CreateInserts, CreateStarts, CreateRefused, CreateEnds
<1>5. ASSUME NEW d \in Dog,
             DogTold(d) \/ DogMarks(d) \/ DogRechecks(d) \/ DogRestarts(d) \/ DogRefused(d) \/ DogLaunched(d)
      PROVE  UNCHANGED <<sups, asked>>
  BY <1>5, Zenon DEF DogTold, DogMarks, DogRechecks, DogRestarts, DogRefused, DogLaunched
<1>6. CASE RoundBegins \/ DialFails \/ WatchTells \/ WatchEnds \/ Adopts
  BY <1>6, Zenon DEF RoundBegins, DialFails, WatchTells, WatchEnds, Adopts
<1>7. CASE AttachCalled \/ AttachLooks \/ AttachLaunched \/ AttachReplaces \/ AttachReplaced \/ ResetBegins
  BY <1>7, Zenon DEF AttachCalled, AttachLooks, AttachLaunched, AttachReplaces, AttachReplaced, ResetBegins
<1>8. ASSUME NEW e \in Ending,
             EndCalled(e) \/ EndTakesGuard(e) \/ EndLaunched(e) \/ EndReads(e) \/ EndProves(e) \/ EndPruned(e)
             \/ EndRemoves(e)
      PROVE  UNCHANGED <<sups, asked>>
  BY <1>8, Zenon DEF EndCalled, EndTakesGuard, EndLaunched, EndReads, EndProves, EndPruned, EndRemoves
<1>9. CASE EndDeadline \/ EndLeavesRow
  BY <1>9 DEF EndDeadline, EndLeavesRow
<1> QED BY <1>1, <1>2, <1>3, <1>4, <1>5, <1>6, <1>7, <1>8, <1>9 DEF Next

\* The steps of a supervisor's life.
SupLives(s) ==
    /\ sups'[s].st = "coming" => sups[s].st = "coming" \/ launch.pc = "begun"
    /\ sups'[s].st = "starting" /\ sups[s].st = "ended" => attach.pc = "resetting" /\ s \in attach.made
    /\ sups'[s].st \in Serving => sups[s].st \in Serving \/ launch.pc = "begun" \/ attach.pc = "resetting"

LEMMA SupsLive ==
    ASSUME RunInv, [Next]_vars, NEW s \in Supervisor
    PROVE  SupLives(s)
<1>1. sups \in [Supervisor -> SupType]
  BY DEF RunInv, TypeOK
<1>2. ASSUME NEW t \in Supervisor, SupAnswers(t) \/ SupRuns(t) \/ SupTerminal(t) \/ SupDies(t)
      PROVE  SupLives(s)
  <2>1. CASE SupAnswers(t)
    BY <1>1, <2>1 DEF SupAnswers, SupLives, Serving
  <2>2. CASE SupRuns(t)
    BY <1>1, <2>2 DEF SupRuns, SupLives, Serving
  <2>3. CASE SupTerminal(t)
    BY <1>1, <2>3 DEF SupTerminal, SupLives, Serving
  <2>4. CASE SupDies(t)
    <3>1. PICK code \in {"crash", "terminal"} : sups' = [sups EXCEPT ![t].st = "gone", ![t].code = code]
      BY <2>4 DEF SupDies
    <3>2. sups'[s].st \in {"gone", sups[s].st}
      BY <1>1, <3>1
    <3> QED BY <3>2 DEF SupLives, Serving
  <2> QED BY <1>2, <2>1, <2>2, <2>3, <2>4
<1>3. CASE Fork
  <2>1. launch.pc = "begun" /\ (sups' = sups
          \/ \E t \in Supervisor : sups' = [sups EXCEPT ![t] = [st |-> "coming", mode |-> launch.mode, code |-> None]])
    BY <1>3, Zenon DEF Fork
  <2> QED BY <1>1, <2>1 DEF SupLives
<1>4. ASSUME sups' = sups \/ \E t \in Answering : sups' = Stopped(t)
      PROVE  SupLives(s)
  <2>1. sups'[s].st \in {"gone", sups[s].st}
    <3>1. ASSUME NEW t \in Answering, sups' = Stopped(t) PROVE sups'[s].st \in {"gone", sups[s].st}
      <4> DEFINE code == IF sups[t].st = "terminal" THEN "terminal" ELSE "clean"
      <4>1. sups' = [sups EXCEPT ![t].st = "gone", ![t].code = code]
        BY <3>1 DEF Stopped
      <4> HIDE DEF code
      <4>2. s # t => sups'[s] = sups[s]
        BY <1>1, <4>1
      <4>3. sups'[t].st = "gone" /\ sups[t] \in SupType
        BY <1>1, <4>1 DEF Answering, SupType
      <4> QED BY <4>2, <4>3
    <3> QED BY <1>4, <3>1
  <2> QED BY <2>1 DEF SupLives, Serving
<1>5. CASE AttachStops
  BY <1>4, <1>5 DEF AttachStops
<1>6. CASE Resets
  <2>1. CASE sups' = sups
    BY <1>4, <2>1
  <2>2. ASSUME NEW t \in Supervisor, NEW x \in SupType, t \in attach.made, attach.pc = "resetting",
               sups' = [sups EXCEPT ![t] = x], x.st = "starting"
        PROVE  SupLives(s)
    <3>1. s = t \/ sups'[s] = sups[s]
      BY <1>1, <2>2
    <3> QED BY <1>1, <2>2, <3>1 DEF SupLives
  <2> QED BY <1>6, <2>1, <2>2, ResetsStep
<1>7. ASSUME NEW e \in Ending, EndAsks(e) \/ EndStops(e)
      PROVE  SupLives(s)
  <2>1. CASE EndStops(e)
    BY <1>4, <2>1 DEF EndStops
  <2>2. CASE EndAsks(e)
    <3>1. sups' = sups \/ \E t \in Supervisor : sups' = [sups EXCEPT ![t].st = "ended"]
      BY <2>2, Zenon DEF EndAsks
    <3>2. ASSUME NEW t \in Supervisor, sups' = [sups EXCEPT ![t].st = "ended"]
          PROVE  sups'[s].st \in {"ended", sups[s].st}
      <4>1. s # t => sups'[s] = sups[s]
        BY <1>1, <3>2
      <4>2. sups[t] \in SupType /\ sups'[t] = [sups[t] EXCEPT !.st = "ended"]
        BY <1>1, <3>2
      <4> QED BY <4>1, <4>2 DEF SupType
    <3>3. sups'[s].st \in {"ended", sups[s].st}
      BY <3>1, <3>2
    <3> QED BY <3>3 DEF SupLives, Serving
  <2> QED BY <1>7, <2>1, <2>2
<1>8. CASE sups' = sups
  BY <1>4, <1>8
<1> QED BY <1>2, <1>3, <1>5, <1>6, <1>7, <1>8, SupsRest

\* SettledStartsNothing (rows/gate.rs, close_gate_and_settle): once the gate has settled
\* no supervisor is born and no run is reset.
THEOREM TheGateIsShut == Spec => SettledStartsNothing
<1>1. ASSUME RunInv, [Next]_vars, gate.settled = "yes", NEW s \in Supervisor
      PROVE  /\ sups'[s].st = "coming" => sups[s].st = "coming"
             /\ sups'[s].st = "starting" => sups[s].st # "ended"
  <2>1. gate.inFlight = 0
    BY <1>1 DEF RunInv, PermitsAreCounted
  <2>2. launch.pc = "no" /\ attach.pc # "resetting"
    BY <1>1, <2>1 DEF RunInv, PermitsAreCounted, One
  <2>3. SupLives(s)
    BY <1>1, SupsLive
  <2> QED BY <2>2, <2>3 DEF SupLives
<1>2. RunInv /\ [Next]_vars =>
        [gate.settled = "yes" =>
            \A s \in Supervisor : /\ sups'[s].st = "coming" => sups[s].st = "coming"
                                  /\ sups'[s].st = "starting" => sups[s].st # "ended"]_vars
  BY <1>1
<1> QED BY <1>2, RunIsKept, PTL DEF Spec, SettledStartsNothing

\* ResetsItsOwn (run/activation.rs, own_spawn): a run is reset only on a supervisor that
\* this activation launched, never on the resident one it found.
THEOREM ResetsAreOwn == Spec => ResetsItsOwn
<1>1. ASSUME RunInv, [Next]_vars, NEW s \in Supervisor, sups[s].st = "ended", sups'[s].st = "starting"
      PROVE  s \in attach.made
  <2>1. SupLives(s)
    BY <1>1, SupsLive
  <2> QED BY <1>1, <2>1 DEF SupLives
<1>2. RunInv /\ [Next]_vars =>
        [attach.pc = "resetting" =>
            \A s \in Supervisor : sups[s].st = "ended" /\ sups'[s].st = "starting" => s \in attach.made]_vars
  BY <1>1
<1> QED BY <1>2, RunIsKept, PTL DEF Spec, ResetsItsOwn

\* OnlyAResetUnasks (supervisor drive, activation.rs start_mode): only a selection's
\* reset, or the start of a create, takes back an end that was asked for.
THEOREM UnaskedByResets == Spec => OnlyAResetUnasks
<1>1. ASSUME RunInv, [Next]_vars, asked, ~asked'
      PROVE  \/ attach.pc = "resetting" /\ attach.intent = "selection"
             \/ create.n > 0 /\ \E s \in Supervisor : sups[s].mode = "start" /\ sups'[s].st # sups[s].st
  <2>1. sups \in [Supervisor -> SupType] /\ create.n \in Nat
    BY <1>1 DEF RunInv, TypeOK, CreateType
  <2>2. ASSUME NEW s \in Supervisor, SupAnswers(s) \/ SupTerminal(s) \/ SupDies(s)
        PROVE  FALSE
    BY <1>1, <2>2 DEF SupAnswers, SupTerminal, SupDies
  <2>3. ASSUME NEW s \in Supervisor, SupRuns(s)
        PROVE  create.n > 0 /\ sups[s].mode = "start" /\ sups'[s].st # sups[s].st
    <3>1. sups[s].st = "starting" /\ sups[s].mode # "resume"
      BY <1>1, <2>3 DEF SupRuns
    <3>2. sups[s] \in SupType /\ sups[s].mode # None
      BY <1>1, <2>1, <3>1 DEF RunInv, FenceIsOne
    <3>3. sups[s].mode = "start"
      BY <3>1, <3>2 DEF SupType
    <3>4. create.n # 0
      BY <1>1, <3>3 DEF RunInv, StartsAreCreates
    <3>5. sups'[s].st # sups[s].st
      BY <2>1, <2>3, <3>1 DEF SupRuns
    <3> QED BY <2>1, <3>3, <3>4, <3>5
  <2>4. CASE Resets
    BY <1>1, <2>4, ResetsStep
  <2>5. CASE Fork \/ AttachStops
    BY <1>1, <2>5, Zenon DEF Fork, AttachStops
  <2>6. ASSUME NEW e \in Ending, EndAsks(e) \/ EndStops(e)
        PROVE  FALSE
    BY <1>1, <2>6 DEF EndAsks, EndStops
  <2> QED BY <1>1, <2>2, <2>3, <2>4, <2>5, <2>6, SupsRest
<1>2. RunInv /\ [Next]_vars =>
        [asked /\ ~asked' =>
            \/ attach.pc = "resetting" /\ attach.intent = "selection"
            \/ create.n > 0 /\ \E s \in Supervisor : sups[s].mode = "start" /\ sups'[s].st # sups[s].st]_vars
  BY <1>1
<1> QED BY <1>2, RunIsKept, PTL DEF Spec, OnlyAResetUnasks

----------------------------------------------------------------------------
(* Who owns the restarts, where no create replaces a row.                  *)

\* One create at most comes to a slug, and to no row that is there.
Lone == load.creates > 0 => load.creates = 1 /\ load.boot = "unknown"

RowIsOne ==
    /\ create.n <= load.creates /\ create.prior.on = "absent"
    /\ create.pc \in {"checked", "admitted"} => row.on = "absent"

\* The generations of the row, its launch and its watchdogs: the owner is the one at the
\* row's own.
GensAreOrdered ==
    /\ launch.pc # "no" => launch.gen = row.gen
    /\ \A d \in Dog :
         /\ Here /\ Active(d) => dogs[d].gen <= row.gen
         /\ Here /\ Active(d) /\ dogs[d].gen = row.gen => row.owner = d
         /\ launch.pc # "no" /\ Active(d) /\ guard # d => dogs[d].gen < row.gen
         /\ guard = d => dogs[d].gen = row.gen

\* What lives is a launch's, a watchdog's leg, or the first there was; at the row's own
\* generation it is its watchdog's.
LivesAreOwned ==
    /\ \A d \in Dog, s \in Supervisor :
         Here /\ Active(d) /\ dogs[d].gen = row.gen /\ Alive(s) => s = dogs[d].leg \/ (Forked /\ guard = d)
    /\ \A s \in Supervisor : Alive(s) =>
         \/ \A t \in Supervisor : t # s => sups[t].st = "unborn"
         \/ Forked /\ s = launch.sup
         \/ \E d \in Dog : dogs[d].pc = "waiting" /\ dogs[d].leg = s

OwnInv == RestartsAreOwned /\ GensAreOrdered /\ LivesAreOwned

\* Nobody is born.
NoBirth == \A s \in Supervisor : /\ Alive(s)' => Alive(s)
                                 /\ sups[s].st = "unborn" => sups'[s].st = "unborn"

\* The launch goes on as it is, or ends unwatched.
LaunchFades ==
    /\ launch'.pc # "no" => launch.pc # "no" /\ launch'.gen = launch.gen
    /\ Forked' = Forked /\ launch'.sup = launch.sup

\* No watchdog takes the guard or lets it go.
NoDogTurns == \A d \in Dog : guard' = d <=> guard = d

\* A step that is nobody's birth and no watchdog's.
LEMMA QuietKeeps ==
    ASSUME RunInv, OwnInv, dogs' = dogs, SameRow(row, row'), NoBirth, LaunchFades, NoDogTurns
    PROVE  OwnInv'
<1>1. RestartsAreOwned'
  BY DEF OwnInv, RestartsAreOwned, OwnerIsALiveWatchdog, ChildIsOwned, SameRow, NoBirth, Here, RunInv, TypeOK,
         LegsAreGone, Active, DogType
<1>2. GensAreOrdered'
  BY DEF OwnInv, GensAreOrdered, SameRow, LaunchFades, NoDogTurns, Here, Active
<1>3. LivesAreOwned'
  BY DEF OwnInv, LivesAreOwned, SameRow, NoBirth, LaunchFades, NoDogTurns, Here, Active
<1> QED BY <1>1, <1>2, <1>3 DEF OwnInv

\* A row that goes takes nothing with it.
LEMMA GoneKeeps ==
    ASSUME RunInv, OwnInv, dogs' = dogs, sups' = sups, row'.on = "removed", row'.owner = None,
           launch'.pc = "no", ~Forked, \A d \in Dog : guard' # d
    PROVE  OwnInv'
<1>1. RestartsAreOwned'
  BY DEF RestartsAreOwned, OwnerIsALiveWatchdog, ChildIsOwned, Here
<1>2. GensAreOrdered'
  BY DEF GensAreOrdered, Here
<1>3. LivesAreOwned'
  BY DEF OwnInv, LivesAreOwned, Here, Forked, Alive
<1> QED BY <1>1, <1>2, <1>3 DEF OwnInv

\* A row that comes finds nobody.
LEMMA FirstKeeps ==
    ASSUME RunInv, row.on = "absent", dogs' = dogs, sups' = sups, launch' = launch, guard' = guard,
           row'.owner = None
    PROVE  OwnInv'
<1>1. \A d \in Dog : dogs[d].pc = "unborn"
  BY DEF RunInv, RowStands
<1>2. \A s \in Supervisor : ~Alive(s)
  BY DEF RunInv, RowStands, FenceIsOne, Alive, Live
<1>3. launch.pc = "no" /\ guard = None
  BY LaunchedRowStands DEF RunInv, RowStands, Here
<1>4. RestartsAreOwned'
  BY <1>1 DEF RestartsAreOwned, OwnerIsALiveWatchdog, ChildIsOwned
<1>5. GensAreOrdered'
  BY <1>1, <1>3, Names DEF GensAreOrdered, Active
<1>6. LivesAreOwned'
  BY <1>2 DEF LivesAreOwned, Alive
<1> QED BY <1>4, <1>5, <1>6 DEF OwnInv

\* A launch that begins, and no watchdog's: its generation is nobody's yet.
LEMMA BegunOwn ==
    ASSUME RunInv, OwnInv, NEW mode \in {"start", "resume"}, Begins(mode), launch.pc = "no", Here,
           dogs' = dogs, sups' = sups, \A d \in Dog : guard # d /\ guard' # d
    PROVE  OwnInv'
<1>1. /\ row'.on = row.on /\ row'.gen = row.gen + 1 /\ row'.owner = row.owner
      /\ launch'.pc = "begun" /\ launch'.gen = row.gen + 1
  BY BegunRow DEF RunInv
<1>2. row.gen \in Nat /\ \A d \in Dog : dogs[d].gen \in Nat
  BY DEF RunInv, TypeOK, RowType, DogType
<1>3. RestartsAreOwned'
  BY <1>1 DEF OwnInv, RestartsAreOwned, OwnerIsALiveWatchdog, ChildIsOwned, Here, Alive
<1>4. GensAreOrdered'
  BY <1>1, <1>2 DEF OwnInv, GensAreOrdered, Here, Active
<1>5. LivesAreOwned'
  <2>1. \A d \in Dog : Here' /\ Active(d)' => dogs'[d].gen # row'.gen
    BY <1>1, <1>2 DEF OwnInv, GensAreOrdered, Here, Active
  <2>2. ~Forked
    BY DEF Forked
  <2>3. \A s \in Supervisor : Alive(s)' <=> Alive(s)
    BY DEF Alive
  <2> QED BY <2>1, <2>2, <2>3 DEF OwnInv, LivesAreOwned
<1> QED BY <1>3, <1>4, <1>5 DEF OwnInv

\* A launch that forked: its child is the only one that lives.
LEMMA ForkedOwn ==
    ASSUME RunInv, OwnInv, launch.pc = "begun", dogs' = dogs, row' = row, guard' = guard,
           launch'.pc = "forked", launch'.gen = launch.gen,
           NEW s \in Supervisor, launch'.sup = s, \A t \in Supervisor : Alive(t)' => t = s,
           \A d \in Dog : dogs[d].leg # s
    PROVE  OwnInv'
<1>1. RestartsAreOwned'
  BY DEF OwnInv, RestartsAreOwned, OwnerIsALiveWatchdog, ChildIsOwned, Here, RunInv, TypeOK, LegsAreGone, Active, DogType
<1>2. GensAreOrdered'
  BY DEF OwnInv, GensAreOrdered, Here, Active
<1>3. Forked'
  BY DEF Forked
<1>4. \A d \in Dog : Here' /\ Active(d)' /\ dogs'[d].gen = row'.gen => guard' = d
  <2>1. row.gen \in Nat /\ \A d \in Dog : dogs[d].gen \in Nat
    BY DEF RunInv, TypeOK, RowType, DogType
  <2> QED BY <2>1 DEF OwnInv, GensAreOrdered, Here, Active
<1>5. LivesAreOwned'
  BY <1>3, <1>4 DEF LivesAreOwned
<1> QED BY <1>1, <1>2, <1>5 DEF OwnInv

\* A launch that settled is watched: every other watchdog is of an older generation.
LEMMA WatchedOwn ==
    ASSUME RunInv, OwnInv, launch.pc = "settled", Watched, launch' = NoLaunch, sups' = sups,
           \A d \in Dog : guard # d /\ guard' # d
    PROVE  OwnInv'
<1>1. PICK k \in Dog :
         /\ dogs[k].pc = "unborn"
         /\ dogs' \in [Dog -> DogType] /\ \A d \in Dog : d # k => dogs'[d] = dogs[d]
         /\ dogs'[k] = [pc |-> "waiting", leg |-> launch.sup, code |-> None, gen |-> launch.gen, never |-> 0]
         /\ row' \in RowType /\ row'.on = row.on /\ row'.gen = row.gen /\ row'.owner = k
  BY WatchedStep
<1>2. dogs'[k].pc = "waiting" /\ dogs'[k].leg = launch.sup /\ dogs'[k].gen = row.gen
  BY <1>1 DEF OwnInv, GensAreOrdered
<1>3. \A d \in Dog : d # k /\ Active(d)' => Active(d) /\ dogs'[d].gen = dogs[d].gen /\ dogs[d].gen < row.gen
  BY <1>1 DEF OwnInv, GensAreOrdered, Active
<1>4. row.gen \in Nat /\ \A d \in Dog : dogs[d].gen \in Nat
  BY DEF RunInv, TypeOK, RowType, DogType
<1>5. /\ \A s \in Supervisor : Alive(s)' => s = launch.sup
      /\ \A d \in Dog : dogs[d].leg # launch.sup
      /\ \A d \in Dog : Active(d) => dogs[d].leg \in Supervisor
  BY DogIs DEF RunInv, FenceIsOne, Forked, Alive
<1>6. launch'.pc = "no"
  BY DEF NoLaunch
<1>7. RestartsAreOwned'
  <2>1. OwnerIsALiveWatchdog'
    BY <1>1, <1>2 DEF OwnerIsALiveWatchdog
  <2>2. ASSUME NEW d \in Dog, dogs'[d].pc = "waiting", Alive(dogs[d].leg)', d # k PROVE FALSE
    BY <1>1, <1>5, <2>2 DEF Active, Alive
  <2> QED BY <1>1, <2>1, <2>2 DEF RestartsAreOwned, ChildIsOwned
<1>8. GensAreOrdered'
  BY <1>1, <1>2, <1>3, <1>4, <1>6 DEF GensAreOrdered
<1>9. LivesAreOwned'
  BY <1>1, <1>2, <1>3, <1>4, <1>5 DEF LivesAreOwned
<1> QED BY <1>7, <1>8, <1>9 DEF OwnInv

\* An exit that nobody handles is adopted: no watchdog is at the row's generation, and
\* nobody lives.
LEMMA AdoptsOwn ==
    ASSUME RunInv, OwnInv, obs.pc = "exited", guard = None, Unhandled,
           NEW k \in Dog, Installs(k, obs.sup, obs.code, obs.gen), UNCHANGED <<guard, sups, launch>>
    PROVE  OwnInv'
<1>1. /\ obs.sup \in Supervisor /\ sups[obs.sup].st = "gone" /\ obs.code \in {None, "crash", "terminal"}
      /\ obs.gen = row.gen /\ row.owner = None /\ obs.gen \in Nat
  BY DEF RunInv, TypeOK, LegsAreGone, ObsType, Unhandled
<1>2. /\ dogs[k].pc = "unborn"
      /\ dogs' \in [Dog -> DogType] /\ \A d \in Dog : d # k => dogs'[d] = dogs[d]
      /\ dogs'[k] = [pc |-> "waiting", leg |-> obs.sup, code |-> obs.code, gen |-> obs.gen, never |-> 0]
      /\ row'.on = row.on /\ row'.gen = row.gen /\ row'.owner = k
  BY <1>1, Installed DEF RunInv
<1>3. launch.pc = "no" /\ ~Forked /\ Here
  BY DEF RunInv, LaunchIsGuarded, Forked, RowStands
<1>4. \A d \in Dog : Active(d) => dogs[d].gen # row.gen
  BY <1>1, <1>3, Names DEF OwnInv, GensAreOrdered
<1>5. \A s \in Supervisor : ~Alive(s)
  <2>1. ASSUME NEW s \in Supervisor, Alive(s) PROVE FALSE
    <3>1. s # obs.sup /\ sups[obs.sup].st # "unborn"
      BY <1>1, <2>1 DEF Alive, Live
    <3>2. PICK d \in Dog : dogs[d].pc = "waiting" /\ dogs[d].leg = s
      BY <1>1, <1>3, <2>1, <3>1 DEF OwnInv, LivesAreOwned
    <3>3. row.owner = d
      BY <1>3, <2>1, <3>2 DEF OwnInv, RestartsAreOwned, ChildIsOwned
    <3> QED BY <1>1, <3>3, Names
  <2> QED BY <2>1
<1>6. \A s \in Supervisor : ~Alive(s)'
  BY <1>5 DEF Alive
<1>7. RestartsAreOwned'
  <2>1. OwnerIsALiveWatchdog'
    BY <1>2 DEF OwnerIsALiveWatchdog
  <2>2. \A d \in Dog : dogs'[d].pc = "waiting" => dogs'[d].leg \in Supervisor
    BY <1>1, <1>2, DogIs DEF Active
  <2> QED BY <1>6, <2>1, <2>2 DEF RestartsAreOwned, ChildIsOwned, Alive
<1>8. GensAreOrdered'
  BY <1>1, <1>2, <1>3, <1>4, Names DEF OwnInv, GensAreOrdered, Here, Active
<1>9. LivesAreOwned'
  BY <1>6 DEF LivesAreOwned
<1> QED BY <1>7, <1>8, <1>9 DEF OwnInv

\* A watchdog moves on, or returns and retracts what it announced.
LEMMA DogMovedOwn ==
    ASSUME RunInv, OwnInv, NEW d \in Dog, NEW x \in DogType, dogs' = [dogs EXCEPT ![d] = x],
           Active(d), x.pc \notin {"unborn", "waiting"}, x.leg = dogs[d].leg, x.gen = dogs[d].gen,
           ~Alive(dogs[d].leg), sups' = sups,
           row'.on = row.on, row'.gen = row.gen,
           row'.owner = row.owner \/ (x.pc = "done" /\ row'.owner = Retracts(d).owner),
           x.pc = "done" => row'.owner = Retracts(d).owner,
           ~(Forked /\ guard = d), launch' = launch \/ (guard = d /\ launch' = NoLaunch),
           \A k \in Dog : k # d => (guard' = k <=> guard = k),
           guard' = d => dogs[d].gen = row.gen, guard = d /\ guard' # d => launch'.pc = "no"
    PROVE  OwnInv'
<1>1. dogs'[d] = x /\ \A k \in Dog : k # d => dogs'[k] = dogs[k]
  BY DogSet DEF RunInv
<1>2. /\ x.pc = "done" => row'.owner = IF row.owner = d THEN None ELSE row.owner
      /\ x.pc # "done" => row'.owner = row.owner
      /\ row.owner \in Dog \cup {None}
  BY RetractedRow DEF RunInv, TypeOK, RowType
<1>3. launch'.pc # "no" => launch' = launch
  BY DEF NoLaunch
<1>4. RestartsAreOwned'
  <2>1. OwnerIsALiveWatchdog'
    BY <1>1, <1>2 DEF OwnInv, RestartsAreOwned, OwnerIsALiveWatchdog
  <2>2. ASSUME NEW k \in Dog, Here', dogs'[k].pc = "waiting", Alive(dogs[k].leg)' PROVE row'.owner = k
    <3>1. k # d /\ dogs[k].pc = "waiting" /\ Alive(dogs[k].leg) /\ Here
      BY <1>1, <2>2 DEF Alive, Here
    <3> QED BY <1>2, <3>1 DEF OwnInv, RestartsAreOwned, ChildIsOwned
  <2> QED BY <2>1, <2>2 DEF RestartsAreOwned, ChildIsOwned
<1>5. GensAreOrdered'
  <2>1. launch'.pc # "no" => launch'.gen = row'.gen
    BY <1>3 DEF OwnInv, GensAreOrdered
  <2>2. ASSUME NEW k \in Dog, Active(k)'
        PROVE  Active(k) /\ dogs'[k].gen = dogs[k].gen
    BY <1>1, <2>2 DEF Active
  <2>3. ASSUME NEW k \in Dog, Active(k)', Here'
        PROVE  dogs'[k].gen <= row'.gen /\ (dogs'[k].gen = row'.gen => row'.owner = k)
    <3>1. dogs[k].gen <= row.gen /\ (dogs[k].gen = row.gen => row.owner = k)
      BY <2>2, <2>3 DEF OwnInv, GensAreOrdered, Here
    <3>2. x.pc = "done" => k # d
      BY <1>1, <2>3 DEF Active
    <3> QED BY <1>2, <2>2, <2>3, <3>1, <3>2
  <2>4. ASSUME NEW k \in Dog, launch'.pc # "no", Active(k)', guard' # k
        PROVE  dogs'[k].gen < row'.gen
    BY <1>3, <2>2, <2>4 DEF OwnInv, GensAreOrdered
  <2>5. ASSUME NEW k \in Dog, guard' = k PROVE dogs'[k].gen = row'.gen
    BY <1>1, <2>5 DEF OwnInv, GensAreOrdered
  <2> QED BY <2>1, <2>3, <2>4, <2>5 DEF GensAreOrdered
<1>6. LivesAreOwned'
  <2>1. \A s \in Supervisor : Alive(s)' <=> Alive(s)
    BY DEF Alive
  <2>2. Forked => launch' = launch /\ Forked'
    BY DEF Forked
  <2>3. ASSUME NEW k \in Dog, NEW s \in Supervisor, Here', Active(k)', dogs'[k].gen = row'.gen, Alive(s)'
        PROVE  s = dogs'[k].leg \/ (Forked' /\ guard' = k)
    <3>1. Active(k) /\ dogs[k].gen = row.gen /\ Here /\ Alive(s) /\ dogs'[k].leg = dogs[k].leg
      BY <1>1, <2>1, <2>3 DEF Active, Here
    <3>2. s = dogs[k].leg \/ (Forked /\ guard = k)
      BY <3>1 DEF OwnInv, LivesAreOwned
    <3> QED BY <2>2, <3>1, <3>2
  <2>4. ASSUME NEW s \in Supervisor, Alive(s)'
        PROVE  \/ \A t \in Supervisor : t # s => sups'[t].st = "unborn"
               \/ Forked' /\ s = launch'.sup
               \/ \E k \in Dog : dogs'[k].pc = "waiting" /\ dogs'[k].leg = s
    <3>1. CASE Forked /\ s = launch.sup
      BY <2>2, <3>1
    <3>2. CASE \E k \in Dog : dogs[k].pc = "waiting" /\ dogs[k].leg = s
      BY <1>1, <2>1, <2>4, <3>2
    <3> QED BY <2>1, <2>4, <3>1, <3>2 DEF OwnInv, LivesAreOwned
  <2> QED BY <2>3, <2>4 DEF LivesAreOwned
<1> QED BY <1>4, <1>5, <1>6 DEF OwnInv

\* A watchdog's restart begins: the generation it takes is nobody else's yet.
LEMMA DogRestartsOwn ==
    ASSUME RunInv, OwnInv, NEW d \in Dog, DogRestarts(d)
    PROVE  OwnInv'
<1>1. /\ dogs[d].pc = "backoff" /\ guard = d /\ launch.pc = "no" /\ Here
      /\ guard' = guard /\ sups' = sups
  BY DogRestartsStep DEF DogRestarts
<1>2. PICK x \in DogType :
         dogs' = [dogs EXCEPT ![d] = x] /\ x.leg = dogs[d].leg /\ x.gen = row.gen + 1 /\ x.pc = "launching"
  BY DogRestartsStep
<1>3. dogs'[d] = x /\ \A k \in Dog : k # d => dogs'[k] = dogs[k]
  BY <1>2, DogSet DEF RunInv
<1>4. /\ row'.on = row.on /\ row'.gen = row.gen + 1 /\ row'.owner = row.owner
      /\ launch'.pc = "begun" /\ launch'.gen = row.gen + 1
  BY BegunRow DEF DogRestarts, RunInv
<1>5. row.gen \in Nat /\ \A k \in Dog : dogs[k].gen \in Nat
  BY DEF RunInv, TypeOK, RowType, DogType
<1>6. Active(d) /\ dogs[d].gen = row.gen /\ row.owner = d /\ ~Forked
  BY <1>1 DEF OwnInv, GensAreOrdered, Active, Forked
<1>7. \A s \in Supervisor : ~Alive(s)
  <2>1. sups[dogs[d].leg].st = "gone"
    BY <1>1, <1>6, DogIs
  <2> QED BY <1>1, <1>6, <2>1 DEF OwnInv, LivesAreOwned, Alive, Live
<1>8. \A k \in Dog : Active(k)' => Active(k)
  BY <1>3, <1>6 DEF Active
<1>9. RestartsAreOwned'
  <2>1. OwnerIsALiveWatchdog'
    BY <1>2, <1>3, <1>4, <1>6 DEF OwnerIsALiveWatchdog
  <2>2. \A k \in Dog : dogs'[k].pc = "waiting" => dogs'[k].leg \in Supervisor
    BY <1>2, <1>3, DogIs DEF Active
  <2> QED BY <1>1, <1>7, <2>1, <2>2 DEF RestartsAreOwned, ChildIsOwned, Alive
<1>10. GensAreOrdered'
  BY <1>1, <1>2, <1>3, <1>4, <1>5, <1>6, <1>8, Names DEF OwnInv, GensAreOrdered, Here
<1>11. LivesAreOwned'
  BY <1>1, <1>7 DEF LivesAreOwned, Alive
<1> QED BY <1>9, <1>10, <1>11 DEF OwnInv

\* The restart's child is its watchdog's next leg, and the only one that lives.
LEMMA NewLegOwn ==
    ASSUME RunInv, OwnInv, NEW d \in Dog, NEW x \in DogType, dogs' = [dogs EXCEPT ![d] = x],
           guard = d, Active(d), launch.pc = "settled", x.pc = "waiting", x.leg = launch.sup, x.gen = dogs[d].gen,
           row'.on = row.on, row'.gen = row.gen, row'.owner = row.owner, launch' = NoLaunch, guard' = None,
           sups' = sups
    PROVE  OwnInv'
<1>1. dogs'[d] = x /\ \A k \in Dog : k # d => dogs'[k] = dogs[k]
  BY DogSet DEF RunInv
<1>2. dogs[d].gen = row.gen /\ row.owner = d /\ Here
  BY LaunchedRowStands, Names DEF OwnInv, GensAreOrdered
<1>3. row.gen \in Nat /\ \A k \in Dog : dogs[k].gen \in Nat
  BY DEF RunInv, TypeOK, RowType, DogType
<1>4. \A k \in Dog : k # d /\ Active(k)' => Active(k) /\ dogs'[k].gen = dogs[k].gen /\ dogs[k].gen < row.gen
  BY <1>1 DEF OwnInv, GensAreOrdered, Active
<1>5. /\ \A s \in Supervisor : Alive(s)' => s = launch.sup
      /\ \A k \in Dog : dogs[k].leg # launch.sup
      /\ \A k \in Dog : Active(k) => dogs[k].leg \in Supervisor
  BY DogIs DEF RunInv, FenceIsOne, Forked, Alive
<1>6. RestartsAreOwned'
  <2>1. OwnerIsALiveWatchdog'
    BY <1>1, <1>2 DEF OwnerIsALiveWatchdog
  <2>2. ASSUME NEW k \in Dog, dogs'[k].pc = "waiting", Alive(dogs[k].leg)', k # d PROVE FALSE
    BY <1>1, <1>5, <2>2 DEF Active, Alive
  <2> QED BY <1>2, <2>1, <2>2 DEF RestartsAreOwned, ChildIsOwned
<1>7. GensAreOrdered'
  BY <1>1, <1>2, <1>3, <1>4, Names DEF GensAreOrdered, NoLaunch
<1>8. LivesAreOwned'
  BY <1>1, <1>2, <1>3, <1>4, <1>5 DEF LivesAreOwned
<1> QED BY <1>6, <1>7, <1>8 DEF OwnInv

----------------------------------------------------------------------------
(* Every step.                                                             *)

\* Nobody is born but by a fork.
LEMMA NoneBorn ==
    ASSUME RunInv, [Next]_vars, ~Fork
    PROVE  NoBirth
<1>1. sups \in [Supervisor -> SupType]
  BY DEF RunInv, TypeOK
<1>2. ASSUME NEW t \in Supervisor, Alive(t), NEW x, sups' = [sups EXCEPT ![t] = x]
      PROVE  NoBirth
  BY <1>1, <1>2 DEF NoBirth, Alive, Live
<1>3. CASE sups' = sups
  BY <1>3 DEF NoBirth, Alive
<1>4. ASSUME NEW t \in Supervisor, SupAnswers(t) \/ SupRuns(t) \/ SupTerminal(t) \/ SupDies(t)
      PROVE  NoBirth
  <2>1. CASE SupAnswers(t)
    BY <1>1, <1>2, <2>1 DEF SupAnswers, Alive, Live
  <2>2. CASE SupRuns(t)
    BY <1>1, <1>2, <2>2 DEF SupRuns, Alive, Live
  <2>3. CASE SupTerminal(t)
    BY <1>1, <1>2, <2>3 DEF SupTerminal, Alive, Live
  <2>4. CASE SupDies(t)
    <3>1. PICK code \in {"crash", "terminal"} : sups' = [sups EXCEPT ![t].st = "gone", ![t].code = code]
      BY <2>4 DEF SupDies
    <3>2. sups' = [sups EXCEPT ![t] = [sups[t] EXCEPT !.st = "gone", !.code = code]]
      BY <1>1, <3>1
    <3> QED BY <1>2, <2>4, <3>2 DEF SupDies
  <2> QED BY <1>4, <2>1, <2>2, <2>3, <2>4
<1>5. ASSUME NEW t \in Answering, sups' = Stopped(t)
      PROVE  NoBirth
  <2>1. t \in Supervisor /\ Alive(t)
    BY DEF Answering, Alive
  <2> DEFINE code == IF sups[t].st = "terminal" THEN "terminal" ELSE "clean"
  <2>2. sups' = [sups EXCEPT ![t].st = "gone", ![t].code = code]
    BY <1>5 DEF Stopped
  <2> HIDE DEF code
  <2>3. sups' = [sups EXCEPT ![t] = [sups[t] EXCEPT !.st = "gone", !.code = code]]
    BY <1>1, <2>1, <2>2
  <2> QED BY <1>2, <2>1, <2>3
<1>6. CASE AttachStops
  BY <1>3, <1>5, <1>6 DEF AttachStops
<1>7. CASE Resets
  BY <1>2, <1>3, <1>7, ResetsStep
<1>8. ASSUME NEW e \in Ending, EndAsks(e) \/ EndStops(e)
      PROVE  NoBirth
  <2>1. CASE EndStops(e)
    BY <1>3, <1>5, <2>1 DEF EndStops
  <2>2. CASE EndAsks(e)
    <3>1. sups' = sups \/ \E t \in Supervisor : sups[t].st = "ready" /\ sups' = [sups EXCEPT ![t].st = "ended"]
      BY <2>2, Zenon DEF EndAsks
    <3>2. ASSUME NEW t \in Supervisor, sups[t].st = "ready", sups' = [sups EXCEPT ![t].st = "ended"]
          PROVE  NoBirth
      <4>1. sups' = [sups EXCEPT ![t] = [sups[t] EXCEPT !.st = "ended"]]
        BY <1>1, <3>2
      <4>2. Alive(t)
        BY <3>2 DEF Alive, Live
      <4> QED BY <1>2, <4>1, <4>2
    <3> QED BY <1>3, <3>1, <3>2
  <2> QED BY <1>8, <2>1, <2>2
<1> QED BY <1>3, <1>4, <1>6, <1>7, <1>8, SupsRest

\* While no row has come, no step but a create's insert makes one.
LEMMA AbsentStays ==
    ASSUME RunInv, row.on = "absent", [Next]_vars, ~CreateInserts
    PROVE  row' = row
<1>1. /\ ~Here /\ guard = None /\ obs.pc = "none" /\ create.pc \in {"idle", "checked", "admitted"}
      /\ \A d \in Dog : dogs[d].pc = "unborn"
  BY DEF RunInv, RowStands, Here
<1>2. attach.pc \in {"idle", "wants"} /\ \A e \in Ending : ~EndHolds(ends[e])
  BY <1>1, Names DEF RunInv, Guarded, None, Ending
<1>3. CASE UNCHANGED vars
  BY <1>3 DEF vars
<1>4. ASSUME NEW s \in Supervisor,
             SupAnswers(s) \/ SupRuns(s) \/ SupTerminal(s) \/ SupDies(s) \/ DialAnswered(s)
      PROVE  row' = row
  BY <1>1, <1>4 DEF SupAnswers, SupRuns, SupTerminal, SupDies, DialAnswered
<1>5. CASE Fork \/ Settle \/ CloseGate \/ GateSettles
  BY <1>5, Zenon DEF Fork, Settle, CloseGate, GateSettles
<1>6. CASE CreateChecked \/ CreateAdmitted
  BY <1>6, Zenon DEF CreateChecked, CreateAdmitted
<1>7. CASE CreateStarts \/ CreateRefused \/ CreateEnds
  BY <1>1, <1>7 DEF CreateStarts, CreateRefused, CreateEnds
<1>8. ASSUME NEW d \in Dog,
             DogTold(d) \/ DogMarks(d) \/ DogRechecks(d) \/ DogRestarts(d) \/ DogRefused(d) \/ DogLaunched(d)
      PROVE  row' = row
  <2>1. dogs[d].pc = "unborn"
    BY <1>1
  <2> QED BY <1>8, <2>1 DEF DogTold, DogMarks, DogRechecks, DogRestarts, DogRefused, DogLaunched
<1>9. CASE RoundBegins \/ DialFails \/ WatchTells \/ WatchEnds \/ Adopts
  BY <1>1, <1>9 DEF RoundBegins, DialFails, WatchTells, WatchEnds, Adopts
<1>10. CASE AttachCalled \/ AttachStops \/ ResetBegins \/ Resets
  BY <1>10, Zenon DEF AttachCalled, AttachStops, ResetBegins, Resets
<1>11. CASE AttachLaunched \/ AttachReplaces \/ AttachReplaced
  BY <1>2, <1>11, Zenon DEF AttachLaunched, AttachReplaces, AttachReplaced
<1>12. CASE AttachLooks
  BY <1>1, <1>12, AttachLooksStep
<1>13. ASSUME NEW e \in Ending, EndCalled(e) \/ EndReads(e) \/ EndAsks(e) \/ EndStops(e) \/ EndProves(e) \/ EndPruned(e)
       PROVE  row' = row
  BY <1>13, Zenon DEF EndCalled, EndReads, EndAsks, EndStops, EndProves, EndPruned
<1>14. ASSUME NEW e \in Ending, EndTakesGuard(e)
       PROVE  row' = row
  BY <1>1, <1>14, EndTakesGuardStep
<1>15. ASSUME NEW e \in Ending, EndLaunched(e) \/ EndRemoves(e)
       PROVE  row' = row
  BY <1>2, <1>15 DEF EndLaunched, EndRemoves, EndHolds
<1>16. CASE EndDeadline \/ EndLeavesRow
  BY <1>16 DEF EndDeadline, EndLeavesRow
<1> QED BY <1>3, <1>4, <1>5, <1>6, <1>7, <1>8, <1>9, <1>10, <1>11, <1>12, <1>13, <1>14, <1>15, <1>16 DEF Next

\* Who moves the create.
LEMMA CreateMoves ==
    ASSUME [Next]_vars, ~CreateChecked, ~CreateAdmitted, ~CreateInserts, ~CreateStarts, ~CreateRefused, ~CreateEnds
    PROVE  create' = create
<1>1. CASE UNCHANGED vars
  BY <1>1 DEF vars
<1>2. ASSUME NEW s \in Supervisor,
             SupAnswers(s) \/ SupRuns(s) \/ SupTerminal(s) \/ SupDies(s) \/ DialAnswered(s)
      PROVE  create' = create
  BY <1>2, Zenon DEF SupAnswers, SupRuns, SupTerminal, SupDies, DialAnswered
<1>3. CASE Fork \/ Settle \/ CloseGate \/ GateSettles
  BY <1>3, Zenon DEF Fork, Settle, CloseGate, GateSettles
<1>4. ASSUME NEW d \in Dog,
             DogTold(d) \/ DogMarks(d) \/ DogRechecks(d) \/ DogRestarts(d) \/ DogRefused(d) \/ DogLaunched(d)
      PROVE  create' = create
  BY <1>4, Zenon DEF DogTold, DogMarks, DogRechecks, DogRestarts, DogRefused, DogLaunched
<1>5. CASE RoundBegins \/ DialFails \/ WatchTells \/ WatchEnds \/ Adopts
  BY <1>5, Zenon DEF RoundBegins, DialFails, WatchTells, WatchEnds, Adopts
<1>6. CASE AttachCalled \/ AttachLooks \/ AttachLaunched \/ AttachStops
  BY <1>6, Zenon DEF AttachCalled, AttachLooks, AttachLaunched, AttachStops
<1>7. CASE AttachReplaces \/ AttachReplaced \/ ResetBegins \/ Resets
  BY <1>7, Zenon DEF AttachReplaces, AttachReplaced, ResetBegins, Resets
<1>8. ASSUME NEW e \in Ending, EndCalled(e) \/ EndTakesGuard(e) \/ EndLaunched(e) \/ EndReads(e) \/ EndAsks(e)
      PROVE  create' = create
  BY <1>8, Zenon DEF EndCalled, EndTakesGuard, EndLaunched, EndReads, EndAsks
<1>9. ASSUME NEW e \in Ending, EndStops(e) \/ EndProves(e) \/ EndPruned(e) \/ EndRemoves(e)
      PROVE  create' = create
  BY <1>9, Zenon DEF EndStops, EndProves, EndPruned, EndRemoves
<1>10. CASE EndDeadline \/ EndLeavesRow
  BY <1>10 DEF EndDeadline, EndLeavesRow
<1> QED BY <1>1, <1>2, <1>3, <1>4, <1>5, <1>6, <1>7, <1>8, <1>9, <1>10 DEF Next

LEMMA LoadStays == [Next]_vars => load' = load
<1> SUFFICES ASSUME [Next]_vars PROVE load' = load
  OBVIOUS
<1>1. CASE UNCHANGED vars
  BY <1>1 DEF vars
<1>2. ASSUME NEW s \in Supervisor,
             SupAnswers(s) \/ SupRuns(s) \/ SupTerminal(s) \/ SupDies(s) \/ DialAnswered(s)
      PROVE  load' = load
  BY <1>2, Zenon DEF SupAnswers, SupRuns, SupTerminal, SupDies, DialAnswered
<1>3. CASE Fork \/ Settle \/ CloseGate \/ GateSettles
  BY <1>3, Zenon DEF Fork, Settle, CloseGate, GateSettles
<1>4. CASE CreateChecked \/ CreateAdmitted \/ CreateInserts \/ CreateStarts \/ CreateRefused \/ CreateEnds
  BY <1>4, Zenon DEF CreateChecked, CreateAdmitted, CreateInserts, CreateStarts, CreateRefused, CreateEnds
<1>5. ASSUME NEW d \in Dog,
             DogTold(d) \/ DogMarks(d) \/ DogRechecks(d) \/ DogRestarts(d) \/ DogRefused(d) \/ DogLaunched(d)
      PROVE  load' = load
  BY <1>5, Zenon DEF DogTold, DogMarks, DogRechecks, DogRestarts, DogRefused, DogLaunched
<1>6. CASE RoundBegins \/ DialFails \/ WatchTells \/ WatchEnds \/ Adopts
  BY <1>6, Zenon DEF RoundBegins, DialFails, WatchTells, WatchEnds, Adopts
<1>7. CASE AttachCalled \/ AttachLooks \/ AttachLaunched \/ AttachStops
  BY <1>7, Zenon DEF AttachCalled, AttachLooks, AttachLaunched, AttachStops
<1>8. CASE AttachReplaces \/ AttachReplaced \/ ResetBegins \/ Resets
  BY <1>8, Zenon DEF AttachReplaces, AttachReplaced, ResetBegins, Resets
<1>9. ASSUME NEW e \in Ending, EndCalled(e) \/ EndTakesGuard(e) \/ EndLaunched(e) \/ EndReads(e) \/ EndAsks(e)
      PROVE  load' = load
  BY <1>9, Zenon DEF EndCalled, EndTakesGuard, EndLaunched, EndReads, EndAsks
<1>10. ASSUME NEW e \in Ending, EndStops(e) \/ EndProves(e) \/ EndPruned(e) \/ EndRemoves(e)
      PROVE  load' = load
  BY <1>10, Zenon DEF EndStops, EndProves, EndPruned, EndRemoves
<1>11. CASE EndDeadline \/ EndLeavesRow
  BY <1>11 DEF EndDeadline, EndLeavesRow
<1> QED BY <1>1, <1>2, <1>3, <1>4, <1>5, <1>6, <1>7, <1>8, <1>9, <1>10, <1>11 DEF Next

\* A lone create comes to no row, and puts back none.
LEMMA OneIsKept ==
    ASSUME RunInv, Lone, RowIsOne, [Next]_vars
    PROVE  Lone' /\ RowIsOne'
<1>1. load' = load /\ create \in CreateType /\ load \in LoadType
  BY LoadStays, Loaded DEF RunInv, TypeOK
<1>2. create.n \in Nat /\ load.creates \in Nat
  BY <1>1 DEF CreateType, LoadType
<1>3. Lone'
  BY <1>1 DEF Lone
<1>4. CASE CreateChecked
  <2>1. create.n < load.creates /\ row' = row /\ create' = [create EXCEPT !.pc = "checked", !.n = create.n + 1]
    BY <1>4 DEF CreateChecked
  <2>2. load.creates = 1 /\ load.boot = "unknown" /\ create.n = 0
    BY <1>2, <2>1 DEF Lone
  <2>3. row.on = "absent"
    BY <2>2 DEF RunInv, RowStands
  <2>4. create'.n = create.n + 1 /\ create'.prior = create.prior
    BY <1>1, <2>1 DEF CreateType
  <2> QED BY <1>1, <1>2, <1>3, <2>1, <2>3, <2>4 DEF RowIsOne
<1>5. CASE CreateAdmitted
  <2>1. /\ create.pc = "checked" /\ row' = row
        /\ \E pc \in {"admitted", "idle"} : create' = [create EXCEPT !.pc = pc]
    BY <1>5 DEF CreateAdmitted
  <2>2. create'.n = create.n /\ create'.prior = create.prior
    BY <1>1, <2>1 DEF CreateType
  <2> QED BY <1>1, <1>3, <2>1, <2>2 DEF RowIsOne
<1>6. CASE CreateInserts
  <2>1. /\ create.pc = "admitted"
        /\ \/ create' = [create EXCEPT !.pc = "inserted", !.prior = row]
           \/ create' = [create EXCEPT !.pc = "idle"]
    BY <1>6 DEF CreateInserts
  <2>2. create'.pc \in {"inserted", "idle"} /\ create'.n = create.n /\ create'.prior \in {create.prior, row}
    BY <1>1, <2>1 DEF CreateType
  <2> QED BY <1>1, <1>3, <2>1, <2>2 DEF RowIsOne
<1>7. CASE CreateStarts \/ CreateRefused \/ CreateEnds
  <2>1. \E pc \in {"launching", "idle"} : create' = [create EXCEPT !.pc = pc]
    BY <1>7, Zenon DEF CreateStarts, CreateRefused, CreateEnds
  <2>2. create'.pc \in {"launching", "idle"} /\ create'.n = create.n /\ create'.prior = create.prior
    BY <1>1, <2>1 DEF CreateType
  <2> QED BY <1>1, <1>3, <2>2 DEF RowIsOne
<1>8. CASE create' = create
  <2>1. ~CreateInserts
    <3>1. CreateInserts => create'.pc \in {"inserted", "idle"} /\ create.pc = "admitted"
      BY <1>1 DEF CreateInserts, CreateType
    <3> QED BY <1>8, <3>1
  <2>2. row.on = "absent" => row' = row
    BY <2>1, AbsentStays
  <2> QED BY <1>1, <1>3, <1>8, <2>2 DEF RowIsOne
<1> QED BY <1>3, <1>4, <1>5, <1>6, <1>7, <1>8, CreateMoves

\* The guard is with no watchdog, before and after.
Others == {None, "create", "attach"} \cup Ending
LEMMA OthersTurn ==
    ASSUME guard \in Others, guard' \in Others
    PROVE  NoDogTurns /\ \A d \in Dog : guard # d /\ guard' # d
BY Names DEF Others, NoDogTurns, Ending

LEMMA SteadyOwn ==
    ASSUME RunInv, OwnInv, dogs' = dogs, SameRow(row, row'), NoBirth, launch' = launch,
           guard' = guard \/ (guard \in Others /\ guard' \in Others)
    PROVE  OwnInv'
<1>1. NoDogTurns
  BY OthersTurn DEF NoDogTurns
<1>2. LaunchFades
  BY DEF LaunchFades, Forked
<1> QED BY <1>1, <1>2, QuietKeeps

\* A launch that made nobody ends.
LEMMA UnwatchedOwn ==
    ASSUME RunInv, OwnInv, dogs' = dogs, row' = row, sups' = sups, launch.pc \in {"contended", "failed"},
           launch' = NoLaunch, guard \in Others, guard' \in Others
    PROVE  OwnInv'
<1>1. launch.sup = None /\ ~Forked
  BY DEF RunInv, FenceIsOne, Forked
<1>2. LaunchFades /\ NoBirth /\ SameRow(row, row')
  BY <1>1 DEF LaunchFades, Forked, NoLaunch, NoBirth, Alive, SameRow
<1> QED BY <1>2, QuietKeeps, OthersTurn

\* An activation, and an end, that holds the guard.
LEMMA AttachHas == RunInv /\ attach.pc \notin {"idle", "wants"} => guard = "attach" /\ guard \in Others /\ Here
BY Names DEF RunInv, Guarded, Others, RowStands, None
LEMMA EndHas == RunInv => \A e \in Ending : EndHolds(ends[e]) => guard = e /\ guard \in Others /\ Here
BY Names DEF RunInv, Guarded, Others, RowStands, None, Ending
LEMMA CreateHas == RunInv /\ create.pc = "launching" => guard = "create" /\ guard \in Others /\ Here /\ launch.pc # "no"
BY Names DEF RunInv, Guarded, LaunchIsGuarded, Others, RowStands, None

\* The supervisors, the launch and the gate.
LEMMA SupsOwn ==
    ASSUME RunInv, OwnInv, NoBirth, UNCHANGED <<row, guard, launch, dogs>>
    PROVE  OwnInv'
BY SteadyOwn DEF SameRow

LEMMA ForkOwn ==
    ASSUME RunInv, OwnInv, Fork
    PROVE  OwnInv'
<1>1. launch.pc = "begun" /\ launch \in LaunchType /\ sups \in [Supervisor -> SupType]
      /\ UNCHANGED <<row, guard, dogs>>
  BY DEF Fork, RunInv, TypeOK
<1>2. ASSUME NEW pc \in {"contended", "failed"}, launch' = [launch EXCEPT !.pc = pc], sups' = sups
      PROVE  OwnInv'
  <2>1. launch'.pc = pc /\ launch'.gen = launch.gen /\ launch'.sup = launch.sup
    BY <1>1, <1>2 DEF LaunchType
  <2>2. LaunchFades /\ NoBirth /\ SameRow(row, row') /\ NoDogTurns
    BY <1>1, <1>2, <2>1 DEF LaunchFades, Forked, NoBirth, Alive, SameRow, NoDogTurns
  <2> QED BY <1>1, <2>2, QuietKeeps
<1>3. ASSUME ~FenceHeld, NEW s \in Supervisor, sups[s].st = "unborn",
             sups' = [sups EXCEPT ![s] = [st |-> "coming", mode |-> launch.mode, code |-> None]],
             launch' = [launch EXCEPT !.pc = "forked", !.sup = s]
      PROVE  OwnInv'
  <2>1. launch'.pc = "forked" /\ launch'.gen = launch.gen /\ launch'.sup = s
    BY <1>1, <1>3 DEF LaunchType
  <2>2. \A t \in Supervisor : Alive(t)' => t = s
    BY <1>1, <1>3 DEF FenceHeld, Alive
  <2>3. \A d \in Dog : dogs[d].leg # s
    BY <1>3, Names DEF RunInv, LegsAreGone
  <2> QED BY <1>1, <2>1, <2>2, <2>3, ForkedOwn
<1> QED BY <1>2, <1>3 DEF Fork

LEMMA SettleOwn ==
    ASSUME RunInv, OwnInv, Settle
    PROVE  OwnInv'
<1>1. launch.pc = "forked" /\ launch \in LaunchType /\ UNCHANGED <<row, guard, sups, dogs>>
      /\ \E p \in Probes : launch' = [launch EXCEPT !.pc = "settled", !.saw = p]
  BY DEF Settle, RunInv, TypeOK
<1>2. launch'.pc = "settled" /\ launch'.gen = launch.gen /\ launch'.sup = launch.sup
  BY <1>1 DEF LaunchType
<1>3. LaunchFades /\ NoBirth /\ SameRow(row, row') /\ NoDogTurns
  BY <1>1, <1>2 DEF LaunchFades, Forked, NoBirth, Alive, SameRow, NoDogTurns
<1> QED BY <1>1, <1>3, QuietKeeps

\* The create.
LEMMA CreateInsertsOwn ==
    ASSUME RunInv, OwnInv, RowIsOne, CreateInserts
    PROVE  OwnInv'
<1>1. create.pc = "admitted" /\ row.on = "absent" /\ UNCHANGED <<guard, sups, launch, dogs>>
  BY DEF CreateInserts, RowIsOne
<1>2. CASE row' = FreshRow
  BY <1>1, <1>2, FirstKeeps DEF FreshRow, NoRow
<1>3. CASE row' = row
  <2>1. NoBirth
    BY <1>1 DEF NoBirth, Alive
  <2> QED BY <1>1, <1>3, <2>1, SupsOwn
<1> QED BY <1>2, <1>3 DEF CreateInserts

LEMMA CreateStartsOwn ==
    ASSUME RunInv, OwnInv, CreateStarts
    PROVE  OwnInv'
<1>1. /\ guard = None /\ guard' = "create" /\ Begins("start") /\ Here /\ UNCHANGED <<sups, dogs>>
  BY DEF CreateStarts
<1>2. launch.pc = "no"
  BY <1>1 DEF RunInv, LaunchIsGuarded
<1>3. \A d \in Dog : guard # d /\ guard' # d
  BY <1>1, OthersTurn DEF Others
<1> QED BY <1>1, <1>2, <1>3, BegunOwn

\* A rollback: of a lone create the row goes.
LEMMA RestoresOwn ==
    ASSUME RunInv, OwnInv, RowIsOne, Restores, Here, UNCHANGED <<sups, dogs>>,
           guard' = None, launch'.pc = "no", ~Forked
    PROVE  OwnInv'
<1>1. row' = NoRow("removed")
  BY DEF Restores, RowIsOne
<1>2. row'.on = "removed" /\ row'.owner = None
  BY <1>1 DEF NoRow
<1> QED BY <1>2, Names, GoneKeeps

LEMMA CreateRefusedOwn ==
    ASSUME RunInv, OwnInv, RowIsOne, CreateRefused
    PROVE  OwnInv'
<1>1. guard = None /\ Restores /\ UNCHANGED <<guard, sups, launch, dogs>>
  BY DEF CreateRefused
<1>2. launch.pc = "no" /\ ~Forked
  BY <1>1 DEF RunInv, LaunchIsGuarded, Forked
<1>3. CASE Here
  BY <1>1, <1>2, <1>3, RestoresOwn
<1>4. CASE ~Here
  <2>1. row' = row /\ NoBirth
    BY <1>1, <1>4 DEF Restores, NoBirth, Alive
  <2> QED BY <1>1, <2>1, SupsOwn
<1> QED BY <1>3, <1>4

LEMMA CreateEndsOwn ==
    ASSUME RunInv, OwnInv, RowIsOne, CreateEnds
    PROVE  OwnInv'
<1>1. /\ create.pc = "launching" /\ launch' = NoLaunch /\ guard' = None /\ sups' = sups
      /\ \/ launch.pc = "settled" /\ Watched
         \/ launch.pc \in {"contended", "failed"} /\ Restores /\ dogs' = dogs
  BY DEF CreateEnds
<1>2. guard \in Others /\ guard' \in Others /\ Here
  BY <1>1, CreateHas DEF Others
<1>3. CASE launch.pc = "settled" /\ Watched
  BY <1>1, <1>2, <1>3, OthersTurn, WatchedOwn
<1>4. CASE launch.pc \in {"contended", "failed"} /\ Restores /\ dogs' = dogs
  <2>1. launch'.pc = "no" /\ ~Forked
    BY <1>1, <1>4 DEF NoLaunch, Forked
  <2> QED BY <1>1, <1>2, <1>4, <2>1, RestoresOwn
<1> QED BY <1>1, <1>3, <1>4

\* The watchdogs.
LEMMA DogToldOwn ==
    ASSUME RunInv, OwnInv, NEW d \in Dog, DogTold(d)
    PROVE  OwnInv'
<1>1. /\ dogs[d].pc = "waiting" /\ sups[dogs[d].leg].st = "gone" /\ Active(d)
      /\ UNCHANGED <<guard, sups, launch>>
  BY DogToldStep DEF DogTold, Active
<1>2. PICK x : DogToldTo(d, x)
  BY DogToldStep
<1>3. guard # d /\ ~Alive(dogs[d].leg)
  BY <1>1 DEF RunInv, Guarded, DogHolds, Alive, Live
<1>4. /\ x \in DogType /\ dogs' = [dogs EXCEPT ![d] = x] /\ x.leg = dogs[d].leg /\ x.gen = dogs[d].gen
      /\ x.pc \in {"terminal", "crashed", "spent", "done"}
      /\ row'.on = row.on /\ row'.gen = row.gen
      /\ row'.owner = row.owner \/ (x.pc = "done" /\ row'.owner = Retracts(d).owner)
      /\ x.pc = "done" => row'.owner = Retracts(d).owner
  BY <1>2, RetractedRow DEF DogToldTo, RunInv
<1> QED BY <1>1, <1>3, <1>4, DogMovedOwn

LEMMA DogMarksOwn ==
    ASSUME RunInv, OwnInv, NEW d \in Dog, DogMarks(d)
    PROVE  OwnInv'
<1>1. /\ dogs[d].pc \in {"terminal", "spent"} /\ guard = None /\ Returns(d) /\ UNCHANGED <<guard, sups, launch>>
      /\ row'.on = row.on /\ row'.gen = row.gen /\ row'.owner = Retracts(d).owner
  BY DogMarksStep DEF DogMarks
<1>2. PICK x \in DogType : dogs' = [dogs EXCEPT ![d] = x] /\ x.pc = "done" /\ x.leg = dogs[d].leg
                           /\ x.gen = dogs[d].gen
  BY <1>1, ReturnedDog
<1>3. Active(d) /\ guard # d /\ ~Alive(dogs[d].leg)
  BY <1>1, DogIs, Names DEF Active, Alive, Live
<1> QED BY <1>1, <1>2, <1>3, DogMovedOwn

LEMMA DogRechecksOwn ==
    ASSUME RunInv, OwnInv, NEW d \in Dog, DogRechecks(d)
    PROVE  OwnInv'
<1>1. dogs[d].pc = "crashed" /\ guard = None /\ UNCHANGED <<sups, launch>>
  BY DogRechecksStep DEF DogRechecks
<1>2. PICK x \in DogType :
         /\ dogs' = [dogs EXCEPT ![d] = x] /\ x.leg = dogs[d].leg /\ x.gen = dogs[d].gen
         /\ \/ StillMine(d) /\ x.pc = "backoff" /\ guard' = d /\ row' = row
            \/ x.pc = "done" /\ guard' = None /\ row' = Retracts(d)
  BY DogRechecksStep
<1>3. Active(d) /\ guard # d /\ ~Alive(dogs[d].leg)
  BY <1>1, DogIs, Names DEF Active, Alive, Live
<1>4. /\ row'.on = row.on /\ row'.gen = row.gen
      /\ row'.owner = row.owner \/ (x.pc = "done" /\ row'.owner = Retracts(d).owner)
      /\ x.pc = "done" => row'.owner = Retracts(d).owner
      /\ guard' = d => dogs[d].gen = row.gen
      /\ \A k \in Dog : k # d => (guard' = k <=> guard = k)
  BY <1>1, <1>2, RetractedRow, Names DEF RunInv, StillMine
<1> QED BY <1>1, <1>2, <1>3, <1>4, DogMovedOwn

LEMMA DogRefusedOwn ==
    ASSUME RunInv, OwnInv, NEW d \in Dog, DogRefused(d)
    PROVE  OwnInv'
<1>1. /\ dogs[d].pc = "backoff" /\ Returns(d) /\ row' = Retracts(d) /\ guard' = None /\ UNCHANGED <<sups, launch>>
  BY DEF DogRefused
<1>2. PICK x \in DogType : dogs' = [dogs EXCEPT ![d] = x] /\ x.pc = "done" /\ x.leg = dogs[d].leg
                           /\ x.gen = dogs[d].gen
  BY <1>1, ReturnedDog
<1>3. Active(d) /\ ~Alive(dogs[d].leg) /\ guard = d /\ launch.pc = "no" /\ ~Forked
  BY <1>1, DogIs DEF RunInv, Guarded, LaunchIsGuarded, DogHolds, Active, Alive, Live, Forked
<1>4. row'.on = row.on /\ row'.gen = row.gen /\ row'.owner = Retracts(d).owner
  BY <1>1, RetractedRow DEF RunInv
<1>5. guard' # d /\ \A k \in Dog : k # d => (guard' = k <=> guard = k)
  BY <1>1, <1>3, Names
<1> QED BY <1>1, <1>2, <1>3, <1>4, <1>5, DogMovedOwn

LEMMA DogLaunchedOwn ==
    ASSUME RunInv, OwnInv, NEW d \in Dog, DogLaunched(d)
    PROVE  OwnInv'
<1>1. dogs[d].pc = "launching" /\ launch' = NoLaunch /\ guard' = None /\ sups' = sups
  BY DEF DogLaunched
<1>2. PICK x : DogLaunchedTo(d, x)
  BY DogLaunchedStep
<1>3. Active(d) /\ ~Alive(dogs[d].leg) /\ guard = d
  BY <1>1, DogIs DEF RunInv, Guarded, DogHolds, Active, Alive, Live
<1>4. /\ x \in DogType /\ dogs' = [dogs EXCEPT ![d] = x] /\ x.gen = dogs[d].gen
      /\ row'.on = row.on /\ row'.gen = row.gen
  BY <1>2 DEF DogLaunchedTo
<1>5. CASE launch.pc = "settled" /\ x.pc = "waiting" /\ x.leg = launch.sup /\ row'.owner = row.owner
  BY <1>1, <1>3, <1>4, <1>5, NewLegOwn
<1>6. CASE /\ launch.pc \in {"contended", "failed"} /\ x.leg = dogs[d].leg
           /\ \/ x.pc \in {"crashed", "spent"} /\ row'.owner = row.owner
              \/ x.pc = "done" /\ row'.owner = Retracts(d).owner
  <2>1. ~Forked /\ launch'.pc = "no"
    BY <1>1, <1>6 DEF Forked, NoLaunch
  <2>2. guard' # d /\ \A k \in Dog : k # d => (guard' = k <=> guard = k)
    BY <1>1, <1>3, Names
  <2>3. /\ x.pc \notin {"unborn", "waiting"}
        /\ row'.owner = row.owner \/ (x.pc = "done" /\ row'.owner = Retracts(d).owner)
        /\ x.pc = "done" => row'.owner = Retracts(d).owner
    BY <1>6
  <2> QED BY <1>1, <1>3, <1>4, <1>6, <2>1, <2>2, <2>3, DogMovedOwn
<1> QED BY <1>2, <1>5, <1>6 DEF DogLaunchedTo

\* The observer.
LEMMA ObsOwn ==
    ASSUME RunInv, OwnInv, SameRow(row, row'), UNCHANGED <<guard, sups, launch, dogs>>
    PROVE  OwnInv'
<1>1. NoBirth
  BY DEF NoBirth, Alive
<1> QED BY <1>1, SteadyOwn

LEMMA RoundOwn ==
    ASSUME RunInv, OwnInv,
           RoundBegins \/ DialFails \/ (\E s \in Supervisor : DialAnswered(s)) \/ WatchTells \/ WatchEnds
    PROVE  OwnInv'
<1>1. UNCHANGED <<guard, sups, launch, dogs>>
  BY Zenon DEF RoundBegins, DialFails, DialAnswered, WatchTells, WatchEnds
<1>2. SameRow(row, row')
  BY RoundBeginsStep, DialFailsStep, DialAnsweredStep, WatchTellsStep, WatchEndsStep
<1> QED BY <1>1, <1>2, ObsOwn

LEMMA AdoptsIsOwn ==
    ASSUME RunInv, OwnInv, Adopts
    PROVE  OwnInv'
<1>1. obs.pc = "exited" /\ guard = None /\ UNCHANGED <<guard, sups, launch>>
  BY DEF Adopts
<1>2. CASE Unhandled /\ \E d \in Dog : Installs(d, obs.sup, obs.code, obs.gen)
  BY <1>1, <1>2, AdoptsOwn
<1>3. CASE UNCHANGED <<row, dogs>>
  BY <1>1, <1>3, ObsOwn DEF SameRow
<1> QED BY <1>2, <1>3 DEF Adopts

\* The activation.
LEMMA AttachLooksOwn ==
    ASSUME RunInv, OwnInv, AttachLooks
    PROVE  OwnInv'
<1>1. attach.pc = "wants" /\ guard = None /\ guard \in Others /\ UNCHANGED <<sups, dogs>> /\ launch.pc = "no"
  BY DEF AttachLooks, Others, RunInv, LaunchIsGuarded
<1>2. NoBirth
  BY <1>1 DEF NoBirth, Alive
<1>3. CASE UNCHANGED <<row, launch>> /\ guard' \in {guard, "attach"}
  BY <1>1, <1>2, <1>3, SteadyOwn DEF SameRow, Others
<1>4. CASE Here /\ guard' = "attach" /\ \E m \in {"start", "resume"} : Begins(m)
  <2>1. \A d \in Dog : guard # d /\ guard' # d
    BY <1>1, <1>4, OthersTurn DEF Others
  <2> QED BY <1>1, <1>4, <2>1, BegunOwn
<1> QED BY <1>3, <1>4, AttachLooksStep

\* What waits on a launch: it was watched, or it made nobody.
LEMMA LaunchedOwn ==
    ASSUME RunInv, OwnInv, launch' = NoLaunch, sups' = sups, guard \in Others, guard' \in Others,
           \/ launch.pc \in {"contended", "failed"} /\ UNCHANGED <<row, dogs>>
           \/ launch.pc = "settled" /\ Watched
    PROVE  OwnInv'
BY UnwatchedOwn, OthersTurn, WatchedOwn

LEMMA AttachLaunchedOwn ==
    ASSUME RunInv, OwnInv, AttachLaunched \/ AttachReplaced
    PROVE  OwnInv'
<1>1. /\ attach.pc \in {"launching", "replacing"} /\ launch' = NoLaunch /\ sups' = sups
      /\ \/ launch.pc \in {"contended", "failed"} /\ UNCHANGED <<row, dogs>>
         \/ launch.pc = "settled" /\ Watched
      /\ guard' = None \/ guard' = guard
  BY Zenon DEF AttachLaunched, AttachReplaced, AttachWaits
<1>2. guard \in Others /\ guard' \in Others
  BY <1>1, AttachHas DEF Others
<1> QED BY <1>1, <1>2, LaunchedOwn

LEMMA AttachReplacesOwn ==
    ASSUME RunInv, OwnInv, AttachReplaces
    PROVE  OwnInv'
<1>1. /\ attach.pc = "retired" /\ UNCHANGED <<sups, dogs>>
      /\ \/ Begins("resume") /\ guard' = guard
         \/ guard' = None /\ UNCHANGED <<row, launch>>
  BY Zenon DEF AttachReplaces
<1>2. guard \in Others /\ guard' \in Others /\ Here /\ launch.pc = "no"
  BY <1>1, AttachHas DEF Others, RunInv, LaunchIsGuarded
<1>3. CASE Begins("resume")
  BY <1>1, <1>2, <1>3, OthersTurn, BegunOwn
<1>4. CASE UNCHANGED <<row, launch>>
  <2>1. NoBirth
    BY <1>1 DEF NoBirth, Alive
  <2> QED BY <1>1, <1>2, <1>4, <2>1, SteadyOwn DEF SameRow
<1> QED BY <1>1, <1>3, <1>4

\* A task in its locked part that goes on, or lets the guard go.
LEMMA TurnsOwn ==
    ASSUME RunInv, OwnInv, NoBirth, guard \in Others, guard' = guard \/ guard' = None, UNCHANGED <<row, launch, dogs>>
    PROVE  OwnInv'
BY SteadyOwn DEF SameRow, Others

LEMMA AttachStepsOwn ==
    ASSUME RunInv, OwnInv, NoBirth, AttachStops \/ ResetBegins \/ Resets
    PROVE  OwnInv'
<1>1. /\ attach.pc \in {"stale", "fresh", "resetting"} /\ UNCHANGED <<row, launch, dogs>>
      /\ guard' = guard \/ guard' = None
  BY Zenon DEF AttachStops, ResetBegins, Resets
<1>2. guard \in Others
  BY <1>1, AttachHas
<1> QED BY <1>1, <1>2, TurnsOwn

\* The ends.
LEMMA EndTakesGuardOwn ==
    ASSUME RunInv, OwnInv, NEW e \in Ending, EndTakesGuard(e)
    PROVE  OwnInv'
<1>1. guard = None /\ launch.pc = "no" /\ UNCHANGED <<sups, dogs>> /\ guard' \in {None, e} /\ guard \in Others
      /\ guard' \in Others
  BY EndTakesGuardStep DEF EndTakesGuard, Others
<1>2. CASE UNCHANGED <<row, launch>>
  <2>1. NoBirth
    BY <1>1 DEF NoBirth, Alive
  <2> QED BY <1>1, <1>2, <2>1, SteadyOwn DEF SameRow
<1>3. CASE Here /\ Begins("resume")
  BY <1>1, <1>3, OthersTurn, BegunOwn
<1> QED BY <1>2, <1>3, EndTakesGuardStep

LEMMA EndLaunchedOwn ==
    ASSUME RunInv, OwnInv, NEW e \in Ending, EndLaunched(e)
    PROVE  OwnInv'
<1>1. /\ ends[e].pc = "launching" /\ launch' = NoLaunch /\ sups' = sups
      /\ \/ launch.pc \in {"contended", "failed"} /\ UNCHANGED <<row, dogs>>
         \/ launch.pc = "settled" /\ Watched
      /\ guard' = None \/ guard' = guard
  BY Zenon DEF EndLaunched, Keeps
<1>2. guard \in Others /\ guard' \in Others
  BY <1>1, EndHas DEF Others, EndHolds
<1> QED BY <1>1, <1>2, LaunchedOwn

LEMMA EndStepsOwn ==
    ASSUME RunInv, OwnInv, NoBirth, NEW e \in Ending, EndReads(e) \/ EndAsks(e) \/ EndStops(e) \/ EndProves(e)
    PROVE  OwnInv'
<1>1. /\ ends[e].pc \in {"reading", "asking", "stopping", "halting", "proving"}
      /\ UNCHANGED <<row, launch, dogs>>
      /\ guard' = guard \/ guard' = None
  BY Zenon DEF EndReads, EndAsks, EndStops, EndProves, Keeps, Confirms
<1>2. guard \in Others
  BY <1>1, EndHas DEF EndHolds
<1> QED BY <1>1, <1>2, TurnsOwn

LEMMA EndLeavesOwn ==
    ASSUME RunInv, OwnInv, NoBirth, EndLeavesRow
    PROVE  OwnInv'
<1>1. ends["close"].pc = "ended" /\ UNCHANGED <<row, launch, dogs>> /\ guard' = None
  BY DEF EndLeavesRow
<1>2. guard \in Others
  BY <1>1, EndHas DEF EndHolds, Ending
<1> QED BY <1>1, <1>2, TurnsOwn

LEMMA EndRemovesOwn ==
    ASSUME RunInv, OwnInv, NEW e \in Ending, EndRemoves(e)
    PROVE  OwnInv'
<1>1. ends[e].pc = "pruned" /\ row' = NoRow("removed") /\ guard' = None /\ UNCHANGED <<sups, launch, dogs>>
  BY DEF EndRemoves
<1>2. launch.pc = "no" /\ ~Forked
  BY <1>1, LaunchIsAlone DEF Forked
<1>3. row'.on = "removed" /\ row'.owner = None
  BY <1>1 DEF NoRow
<1> QED BY <1>1, <1>2, <1>3, Names, GoneKeeps

LEMMA OwnStays ==
    ASSUME RunInv, OwnInv, UNCHANGED vars
    PROVE  OwnInv'
BY ObsOwn DEF vars, SameRow

LEMMA OwnIsKept ==
    ASSUME RunInv, Lone, RowIsOne, OwnInv, [Next]_vars
    PROVE  OwnInv'
<1>1. CASE UNCHANGED vars
  BY <1>1, OwnStays
<1>2. ~Fork => NoBirth
  BY NoneBorn
<1>3. CASE Fork \/ Settle
  BY <1>3, ForkOwn, SettleOwn
<1>4. ASSUME ~Fork, NEW s \in Supervisor, SupAnswers(s) \/ SupRuns(s) \/ SupTerminal(s) \/ SupDies(s)
      PROVE  OwnInv'
  <2>1. UNCHANGED <<row, guard, launch, dogs>>
    BY <1>4, Zenon DEF SupAnswers, SupRuns, SupTerminal, SupDies
  <2> QED BY <1>2, <1>4, <2>1, SupsOwn
<1>5. ASSUME ~Fork, CloseGate \/ GateSettles \/ CreateChecked \/ CreateAdmitted \/ AttachCalled \/ EndDeadline
      PROVE  OwnInv'
  <2>1. UNCHANGED <<row, guard, launch, dogs>>
    BY <1>5, Zenon DEF CloseGate, GateSettles, CreateChecked, CreateAdmitted, AttachCalled, EndDeadline
  <2> QED BY <1>2, <1>5, <2>1, SupsOwn
<1>6. ASSUME ~Fork, NEW e \in Ending, EndCalled(e) \/ EndPruned(e)
      PROVE  OwnInv'
  <2>1. UNCHANGED <<row, guard, launch, dogs>>
    BY <1>6, Zenon DEF EndCalled, EndPruned
  <2> QED BY <1>2, <1>6, <2>1, SupsOwn
<1>7. ASSUME CreateInserts \/ CreateStarts \/ CreateRefused \/ CreateEnds
      PROVE  OwnInv'
  BY <1>7, CreateInsertsOwn, CreateStartsOwn, CreateRefusedOwn, CreateEndsOwn
<1>8. ASSUME NEW d \in Dog,
             DogTold(d) \/ DogMarks(d) \/ DogRechecks(d) \/ DogRestarts(d) \/ DogRefused(d) \/ DogLaunched(d)
      PROVE  OwnInv'
  BY <1>8, DogToldOwn, DogMarksOwn, DogRechecksOwn, DogRestartsOwn, DogRefusedOwn, DogLaunchedOwn
<1>9. ASSUME \/ RoundBegins \/ DialFails \/ WatchTells \/ WatchEnds \/ Adopts
             \/ \E s \in Supervisor : DialAnswered(s)
      PROVE  OwnInv'
  BY <1>9, RoundOwn, AdoptsIsOwn
<1>10. ASSUME AttachLooks \/ AttachLaunched \/ AttachReplaces \/ AttachReplaced
       PROVE  OwnInv'
  BY <1>10, AttachLooksOwn, AttachLaunchedOwn, AttachReplacesOwn
<1>11. ASSUME ~Fork, AttachStops \/ ResetBegins \/ Resets
       PROVE  OwnInv'
  BY <1>2, <1>11, AttachStepsOwn
<1>12. ASSUME NEW e \in Ending, EndTakesGuard(e) \/ EndLaunched(e) \/ EndRemoves(e)
       PROVE  OwnInv'
  BY <1>12, EndTakesGuardOwn, EndLaunchedOwn, EndRemovesOwn
<1>13. ASSUME ~Fork, NEW e \in Ending, EndReads(e) \/ EndAsks(e) \/ EndStops(e) \/ EndProves(e)
       PROVE  OwnInv'
  BY <1>2, <1>13, EndStepsOwn
<1>14. ASSUME ~Fork, EndLeavesRow
       PROVE  OwnInv'
  BY <1>2, <1>14, EndLeavesOwn
<1> QED BY <1>1, <1>3, <1>4, <1>5, <1>6, <1>7, <1>8, <1>9, <1>10, <1>11, <1>12, <1>13, <1>14 DEF Next

LEMMA InitOwned ==
    ASSUME Init
    PROVE  RowIsOne /\ OwnInv
<1>1. /\ guard = None /\ launch.pc = "no" /\ \A d \in Dog : dogs[d].pc = "unborn"
      /\ create.pc = "idle" /\ create.n = 0 /\ create.prior.on = "absent" /\ row.owner = None
  BY DEF Init, NoLaunch, NoDog, NoRow, FreshRow
<1>2. load \in LoadType
  BY InitTypes, Loaded
<1>3. RowIsOne
  BY <1>1, <1>2 DEF RowIsOne, LoadType
<1>4. \A s \in Supervisor : Alive(s) => \A t \in Supervisor : t # s => sups[t].st = "unborn"
  <2>1. \/ \A s \in Supervisor : sups[s].st = "unborn"
        \/ \E s \in Supervisor : \A t \in Supervisor : t # s => sups[t].st = "unborn"
    BY DEF Init
  <2> QED BY <2>1 DEF Alive, Live
<1>5. RestartsAreOwned
  BY <1>1 DEF RestartsAreOwned, OwnerIsALiveWatchdog, ChildIsOwned
<1>6. GensAreOrdered
  BY <1>1, Names DEF GensAreOrdered, Active
<1>7. LivesAreOwned
  BY <1>1, <1>4 DEF LivesAreOwned, Active
<1> QED BY <1>3, <1>5, <1>6, <1>7 DEF OwnInv

\* Where one create at most comes to the slug, and to no row that is there.
THEOREM OwnersAreKept == Spec /\ Lone => [](Lone /\ RowIsOne /\ OwnInv)
<1>1. Init /\ Lone => Lone /\ RowIsOne /\ OwnInv
  BY InitOwned
<1>2. RunInv /\ (Lone /\ RowIsOne /\ OwnInv) /\ [Next]_vars => (Lone /\ RowIsOne /\ OwnInv)'
  BY OneIsKept, OwnIsKept
<1> QED BY <1>1, <1>2, RunIsKept, PTL DEF Spec

\* RestartsAreOwned (watchdog.rs WatchdogOwnerGuard): the row's owner is
\* a watchdog that runs, and the live child of a watchdog is owned by it.
THEOREM RestartsHaveAnOwner == Spec /\ Lone => []RestartsAreOwned
<1>1. OwnInv => RestartsAreOwned
  BY DEF OwnInv
<1> QED BY <1>1, OwnersAreKept, PTL

----------------------------------------------------------------------------
(* Who marks the row terminal.                                             *)

\* A watchdog at the row's generation, its leg gone and its launch not forked, knows
\* that nobody lives.
LEMMA MineIsAll ==
    ASSUME RunInv, OwnInv, Here, NEW d \in Dog, Active(d), dogs[d].pc # "waiting", dogs[d].gen = row.gen,
           guard = d => ~Forked
    PROVE  ~Serves
<1>1. sups[dogs[d].leg].st = "gone"
  BY DogIs
<1>2. ASSUME NEW s \in Supervisor, Alive(s) PROVE FALSE
  BY <1>1, <1>2 DEF OwnInv, LivesAreOwned, Alive, Live
<1> QED BY <1>2 DEF Serves, Serving, Alive, Live

LEMMA WatchedPhase ==
    ASSUME RunInv, launch.pc = "settled", Watched
    PROVE  row'.phase = row.phase
BY WatchedStep

\* Every step that leaves the row marked terminal found it so, or nobody to serve it.
LEMMA MarksAreTrue ==
    ASSUME RunInv, RowIsOne, OwnInv, [Next]_vars, row'.phase = "terminal"
    PROVE  row.phase = "terminal" \/ ~Serves
<1>1. CASE row' = row
  BY <1>1
<1>2. ASSUME NEW m \in {"start", "resume"}, Begins(m)
      PROVE  row'.phase = row.phase
  BY <1>2, BegunRow DEF RunInv
<1>3. ASSUME NEW s \in Supervisor,
             SupAnswers(s) \/ SupRuns(s) \/ SupTerminal(s) \/ SupDies(s) \/ DialAnswered(s)
      PROVE  row.phase = "terminal" \/ ~Serves
  <2>1. CASE DialAnswered(s)
    <3>1. Alive(s) /\ (row.phase = "terminal" \/ sups[s].st = "terminal")
      BY <2>1, DialAnsweredStep
    <3> QED BY <3>1, EndedServesNone DEF Serving
  <2>2. CASE SupAnswers(s) \/ SupRuns(s) \/ SupTerminal(s) \/ SupDies(s)
    BY <2>2, Zenon DEF SupAnswers, SupRuns, SupTerminal, SupDies
  <2> QED BY <1>3, <2>1, <2>2
<1>4. CASE Fork \/ Settle \/ CloseGate \/ GateSettles \/ CreateChecked \/ CreateAdmitted
  BY <1>4, Zenon DEF Fork, Settle, CloseGate, GateSettles, CreateChecked, CreateAdmitted
<1>5. ASSUME Restores
      PROVE  row.phase = "terminal"
  BY <1>5, RestoredRow DEF RunInv, RowIsOne
<1>6. CASE CreateInserts \/ CreateStarts \/ CreateRefused \/ CreateEnds
  <2>1. CASE CreateInserts
    BY <2>1 DEF CreateInserts, FreshRow, NoRow
  <2>2. CASE CreateStarts
    BY <1>2, <2>2 DEF CreateStarts
  <2>3. CASE CreateRefused
    BY <1>5, <2>3 DEF CreateRefused
  <2>4. CASE CreateEnds
    BY <1>5, <2>4, WatchedPhase DEF CreateEnds
  <2> QED BY <1>6, <2>1, <2>2, <2>3, <2>4
<1>7. ASSUME NEW d \in Dog,
             DogTold(d) \/ DogMarks(d) \/ DogRechecks(d) \/ DogRestarts(d) \/ DogRefused(d) \/ DogLaunched(d)
      PROVE  row.phase = "terminal" \/ ~Serves
  <2>1. CASE DogTold(d)
    BY <2>1, DogToldStep, RetractedRow DEF DogToldTo, RunInv
  <2>2. CASE DogMarks(d)
    <3>1. dogs[d].pc \in {"terminal", "spent"} /\ guard = None /\ (row.phase = "terminal" \/ StillMine(d))
      BY <2>2, DogMarksStep
    <3>2. Active(d) /\ guard # d
      BY <3>1, Names DEF Active
    <3>3. row.phase = "terminal" \/ (Here /\ dogs[d].gen = row.gen /\ dogs[d].pc # "waiting")
      BY <3>1 DEF StillMine
    <3> QED BY <3>2, <3>3, MineIsAll, Zenon
  <2>3. CASE DogRechecks(d)
    BY <2>3, DogRechecksStep, RetractedRow DEF RunInv
  <2>4. CASE DogRestarts(d)
    BY <1>2, <2>4 DEF DogRestarts
  <2>5. CASE DogRefused(d)
    BY <2>5, RetractedRow DEF DogRefused, RunInv
  <2>6. CASE DogLaunched(d)
    <3>1. dogs[d].pc = "launching" /\ (row.phase = "terminal" \/ launch.pc = "failed")
      BY <2>6, DogLaunchedStep, Zenon DEF DogLaunched, DogLaunchedTo
    <3>2. Active(d) /\ guard = d /\ dogs[d].gen = row.gen /\ (launch.pc = "failed" => ~Forked)
      BY <3>1 DEF Active, RunInv, Guarded, DogHolds, OwnInv, GensAreOrdered, Forked
    <3>3. Here
      BY <3>2, Names DEF RunInv, RowStands
    <3>4. CASE row.phase = "terminal"
      BY <3>4, Zenon
    <3>5. CASE launch.pc = "failed"
      <4>1. ~Forked /\ dogs[d].pc # "waiting"
        BY <3>1, <3>2, <3>5
      <4> QED BY <3>2, <3>3, <4>1, MineIsAll, Zenon
    <3>6. row.phase = "terminal" \/ launch.pc = "failed"
      BY <3>1
    <3> QED BY <3>4, <3>5, <3>6, Zenon
  <2> QED BY <1>7, <2>1, <2>2, <2>3, <2>4, <2>5, <2>6
<1>8. CASE RoundBegins \/ DialFails \/ WatchTells \/ WatchEnds \/ Adopts
  <2>1. CASE RoundBegins \/ DialFails \/ WatchEnds
    BY <2>1, RoundBeginsStep, DialFailsStep, WatchEndsStep
  <2>2. CASE WatchTells
    <3>1. obs.sup \in Supervisor /\ Alive(obs.sup) /\ (row.phase = "terminal" \/ sups[obs.sup].st = "terminal")
      BY <2>2, WatchTellsStep
    <3> QED BY <3>1, EndedServesNone DEF Serving
  <2>3. CASE Adopts
    <3>1. row' = row \/ \E d \in Dog : row' = [row EXCEPT !.owner = d]
      BY <2>3 DEF Adopts, Installs
    <3> QED BY <3>1 DEF RunInv, TypeOK, RowType
  <2> QED BY <1>8, <2>1, <2>2, <2>3
<1>9. CASE AttachCalled \/ AttachStops \/ ResetBegins \/ Resets
  BY <1>9, Zenon DEF AttachCalled, AttachStops, ResetBegins, Resets
<1>10. CASE AttachLooks
  BY <1>2, <1>10, AttachLooksStep
<1>11. CASE AttachLaunched \/ AttachReplaced
  <2>1. row' = row \/ (launch.pc = "settled" /\ Watched)
    BY <1>11, Zenon DEF AttachLaunched, AttachReplaced
  <2> QED BY <2>1, WatchedPhase
<1>12. CASE AttachReplaces
  BY <1>2, <1>12 DEF AttachReplaces
<1>13. ASSUME NEW e \in Ending, EndCalled(e) \/ EndReads(e) \/ EndAsks(e) \/ EndStops(e) \/ EndProves(e) \/ EndPruned(e)
       PROVE  row' = row
  BY <1>13, Zenon DEF EndCalled, EndReads, EndAsks, EndStops, EndProves, EndPruned
<1>14. ASSUME NEW e \in Ending, EndTakesGuard(e)
       PROVE  row.phase = "terminal"
  BY <1>2, <1>14, EndTakesGuardStep
<1>15. ASSUME NEW e \in Ending, EndLaunched(e) \/ EndRemoves(e)
       PROVE  row.phase = "terminal"
  <2>1. row' = row \/ (launch.pc = "settled" /\ Watched) \/ row' = NoRow("removed")
    BY <1>15, Zenon DEF EndLaunched, EndRemoves
  <2> QED BY <2>1, WatchedPhase DEF NoRow
<1>16. CASE EndDeadline \/ EndLeavesRow
  BY <1>16 DEF EndDeadline, EndLeavesRow
<1>17. CASE UNCHANGED vars
  BY <1>17 DEF vars
<1> QED BY <1>1, <1>3, <1>4, <1>6, <1>7, <1>8, <1>9, <1>10, <1>11, <1>12, <1>13, <1>14, <1>15, <1>16, <1>17 DEF Next

\* TerminalIsTrue (watchdog.rs still_mine and latch, workspace.rs record_watch): the row
\* is marked terminal only when no supervisor serves it, or is about to.
THEOREM MarksAreEarned == Spec /\ Lone => TerminalIsTrue
<1>1. RunInv /\ RowIsOne /\ OwnInv /\ [Next]_vars =>
        [row.phase # "terminal" /\ row'.phase = "terminal" => ~Serves]_vars
  BY MarksAreTrue
<1> QED BY <1>1, RunIsKept, OwnersAreKept, PTL DEF Spec, TerminalIsTrue

----------------------------------------------------------------------------
(* What the close may report.                                              *)

\* Who moves the launch, the ends, and the activation.
LEMMA LaunchStays ==
    ASSUME [Next]_vars, ~Fork, ~Settle, ~CreateStarts, ~CreateEnds,
           \A d \in Dog : ~DogRestarts(d) /\ ~DogLaunched(d),
           ~AttachLooks, ~AttachLaunched, ~AttachReplaces, ~AttachReplaced,
           \A e \in Ending : ~EndTakesGuard(e) /\ ~EndLaunched(e)
    PROVE  launch' = launch
<1>1. CASE UNCHANGED vars
  BY <1>1 DEF vars
<1>2. ASSUME NEW s \in Supervisor,
             SupAnswers(s) \/ SupRuns(s) \/ SupTerminal(s) \/ SupDies(s) \/ DialAnswered(s)
      PROVE  launch' = launch
  BY <1>2, Zenon DEF SupAnswers, SupRuns, SupTerminal, SupDies, DialAnswered
<1>3. CASE CloseGate \/ GateSettles \/ CreateChecked \/ CreateAdmitted \/ CreateInserts \/ CreateRefused
  BY <1>3, Zenon DEF CloseGate, GateSettles, CreateChecked, CreateAdmitted, CreateInserts, CreateRefused
<1>4. ASSUME NEW d \in Dog, DogTold(d) \/ DogMarks(d) \/ DogRechecks(d) \/ DogRefused(d)
      PROVE  launch' = launch
  BY <1>4, Zenon DEF DogTold, DogMarks, DogRechecks, DogRefused
<1>5. CASE RoundBegins \/ DialFails \/ WatchTells \/ WatchEnds \/ Adopts
  BY <1>5, Zenon DEF RoundBegins, DialFails, WatchTells, WatchEnds, Adopts
<1>6. CASE AttachCalled \/ AttachStops \/ ResetBegins \/ Resets
  BY <1>6, Zenon DEF AttachCalled, AttachStops, ResetBegins, Resets
<1>7. ASSUME NEW e \in Ending, EndCalled(e) \/ EndReads(e) \/ EndAsks(e) \/ EndStops(e)
      PROVE  launch' = launch
  BY <1>7, Zenon DEF EndCalled, EndReads, EndAsks, EndStops
<1>8. ASSUME NEW e \in Ending, EndProves(e) \/ EndPruned(e) \/ EndRemoves(e)
      PROVE  launch' = launch
  BY <1>8, Zenon DEF EndProves, EndPruned, EndRemoves
<1>9. CASE EndDeadline \/ EndLeavesRow
  BY <1>9 DEF EndDeadline, EndLeavesRow
<1> QED BY <1>1, <1>2, <1>3, <1>4, <1>5, <1>6, <1>7, <1>8, <1>9 DEF Next

LEMMA EndsStay ==
    ASSUME [Next]_vars, ~EndDeadline, ~EndLeavesRow,
           \A e \in Ending : /\ ~EndCalled(e) /\ ~EndTakesGuard(e) /\ ~EndLaunched(e) /\ ~EndReads(e) /\ ~EndAsks(e)
                             /\ ~EndStops(e) /\ ~EndProves(e) /\ ~EndPruned(e) /\ ~EndRemoves(e)
    PROVE  ends' = ends
<1>1. CASE UNCHANGED vars
  BY <1>1 DEF vars
<1>2. ASSUME NEW s \in Supervisor,
             SupAnswers(s) \/ SupRuns(s) \/ SupTerminal(s) \/ SupDies(s) \/ DialAnswered(s)
      PROVE  ends' = ends
  BY <1>2, Zenon DEF SupAnswers, SupRuns, SupTerminal, SupDies, DialAnswered
<1>3. CASE Fork \/ Settle \/ CloseGate \/ GateSettles
  BY <1>3, Zenon DEF Fork, Settle, CloseGate, GateSettles
<1>4. CASE CreateChecked \/ CreateAdmitted \/ CreateInserts \/ CreateStarts \/ CreateRefused \/ CreateEnds
  BY <1>4, Zenon DEF CreateChecked, CreateAdmitted, CreateInserts, CreateStarts, CreateRefused, CreateEnds
<1>5. ASSUME NEW d \in Dog,
             DogTold(d) \/ DogMarks(d) \/ DogRechecks(d) \/ DogRestarts(d) \/ DogRefused(d) \/ DogLaunched(d)
      PROVE  ends' = ends
  BY <1>5, Zenon DEF DogTold, DogMarks, DogRechecks, DogRestarts, DogRefused, DogLaunched
<1>6. CASE RoundBegins \/ DialFails \/ WatchTells \/ WatchEnds \/ Adopts
  BY <1>6, Zenon DEF RoundBegins, DialFails, WatchTells, WatchEnds, Adopts
<1>7. CASE AttachCalled \/ AttachLooks \/ AttachLaunched \/ AttachStops
  BY <1>7, Zenon DEF AttachCalled, AttachLooks, AttachLaunched, AttachStops
<1>8. CASE AttachReplaces \/ AttachReplaced \/ ResetBegins \/ Resets
  BY <1>8, Zenon DEF AttachReplaces, AttachReplaced, ResetBegins, Resets
<1> QED BY <1>1, <1>2, <1>3, <1>4, <1>5, <1>6, <1>7, <1>8 DEF Next

LEMMA AttachRemains ==
    ASSUME [Next]_vars, ~AttachCalled, ~AttachLooks, ~AttachLaunched, ~AttachStops, ~AttachReplaces,
           ~AttachReplaced, ~ResetBegins, ~Resets
    PROVE  attach' = attach
<1>1. CASE UNCHANGED vars
  BY <1>1 DEF vars
<1>2. ASSUME NEW s \in Supervisor,
             SupAnswers(s) \/ SupRuns(s) \/ SupTerminal(s) \/ SupDies(s) \/ DialAnswered(s)
      PROVE  attach' = attach
  BY <1>2, Zenon DEF SupAnswers, SupRuns, SupTerminal, SupDies, DialAnswered
<1>3. CASE Fork \/ Settle \/ CloseGate \/ GateSettles
  BY <1>3, Zenon DEF Fork, Settle, CloseGate, GateSettles
<1>4. CASE CreateChecked \/ CreateAdmitted \/ CreateInserts \/ CreateStarts \/ CreateRefused \/ CreateEnds
  BY <1>4, Zenon DEF CreateChecked, CreateAdmitted, CreateInserts, CreateStarts, CreateRefused, CreateEnds
<1>5. ASSUME NEW d \in Dog,
             DogTold(d) \/ DogMarks(d) \/ DogRechecks(d) \/ DogRestarts(d) \/ DogRefused(d) \/ DogLaunched(d)
      PROVE  attach' = attach
  BY <1>5, Zenon DEF DogTold, DogMarks, DogRechecks, DogRestarts, DogRefused, DogLaunched
<1>6. CASE RoundBegins \/ DialFails \/ WatchTells \/ WatchEnds \/ Adopts
  BY <1>6, Zenon DEF RoundBegins, DialFails, WatchTells, WatchEnds, Adopts
<1>7. ASSUME NEW e \in Ending, EndCalled(e) \/ EndTakesGuard(e) \/ EndLaunched(e) \/ EndReads(e) \/ EndAsks(e)
      PROVE  attach' = attach
  BY <1>7, Zenon DEF EndCalled, EndTakesGuard, EndLaunched, EndReads, EndAsks
<1>8. ASSUME NEW e \in Ending, EndStops(e) \/ EndProves(e) \/ EndPruned(e) \/ EndRemoves(e)
      PROVE  attach' = attach
  BY <1>8, Zenon DEF EndStops, EndProves, EndPruned, EndRemoves
<1>9. CASE EndDeadline \/ EndLeavesRow
  BY <1>9 DEF EndDeadline, EndLeavesRow
<1> QED BY <1>1, <1>2, <1>3, <1>4, <1>5, <1>6, <1>7, <1>8, <1>9 DEF Next

LEMMA FileStays ==
    ASSUME [Next]_vars, ~Fork
    PROVE  file' = file
<1>1. CASE UNCHANGED vars
  BY <1>1 DEF vars
<1>2. ASSUME NEW s \in Supervisor,
             SupAnswers(s) \/ SupRuns(s) \/ SupTerminal(s) \/ SupDies(s) \/ DialAnswered(s)
      PROVE  file' = file
  BY <1>2, Zenon DEF SupAnswers, SupRuns, SupTerminal, SupDies, DialAnswered
<1>3. CASE Settle \/ CloseGate \/ GateSettles
  BY <1>3, Zenon DEF Settle, CloseGate, GateSettles
<1>4. CASE CreateChecked \/ CreateAdmitted \/ CreateInserts \/ CreateStarts \/ CreateRefused \/ CreateEnds
  BY <1>4, Zenon DEF CreateChecked, CreateAdmitted, CreateInserts, CreateStarts, CreateRefused, CreateEnds
<1>5. ASSUME NEW d \in Dog,
             DogTold(d) \/ DogMarks(d) \/ DogRechecks(d) \/ DogRestarts(d) \/ DogRefused(d) \/ DogLaunched(d)
      PROVE  file' = file
  BY <1>5, Zenon DEF DogTold, DogMarks, DogRechecks, DogRestarts, DogRefused, DogLaunched
<1>6. CASE RoundBegins \/ DialFails \/ WatchTells \/ WatchEnds \/ Adopts
  BY <1>6, Zenon DEF RoundBegins, DialFails, WatchTells, WatchEnds, Adopts
<1>7. CASE AttachCalled \/ AttachLooks \/ AttachLaunched \/ AttachStops
  BY <1>7, Zenon DEF AttachCalled, AttachLooks, AttachLaunched, AttachStops
<1>8. CASE AttachReplaces \/ AttachReplaced \/ ResetBegins \/ Resets
  BY <1>8, Zenon DEF AttachReplaces, AttachReplaced, ResetBegins, Resets
<1>9. ASSUME NEW e \in Ending, EndCalled(e) \/ EndTakesGuard(e) \/ EndLaunched(e) \/ EndReads(e) \/ EndAsks(e)
      PROVE  file' = file
  BY <1>9, Zenon DEF EndCalled, EndTakesGuard, EndLaunched, EndReads, EndAsks
<1>10. ASSUME NEW e \in Ending, EndStops(e) \/ EndProves(e) \/ EndPruned(e) \/ EndRemoves(e)
       PROVE  file' = file
  BY <1>10, Zenon DEF EndStops, EndProves, EndPruned, EndRemoves
<1>11. CASE EndDeadline \/ EndLeavesRow
  BY <1>11 DEF EndDeadline, EndLeavesRow
<1> QED BY <1>1, <1>2, <1>3, <1>4, <1>5, <1>6, <1>7, <1>8, <1>9, <1>10, <1>11 DEF Next

\* A launch begins through the gate, and for a row that had one, unless it is a create's
\* own.
LEMMA LaunchBegun ==
    ASSUME RunInv, [Next]_vars, launch.pc = "no", launch'.pc # "no"
    PROVE  /\ ~gate.closing
           /\ CreateStarts \/ attach.pc # "idle" \/ (\E d \in Dog : dogs[d].pc # "unborn") \/ file
<1>1. launch' # launch
  OBVIOUS
<1>2. ~Fork /\ ~Settle /\ ~CreateEnds
  <2>1. create.pc # "launching"
    BY CreateHas
  <2> QED BY <2>1 DEF Fork, Settle, CreateEnds
<1>3. CASE CreateStarts
  BY <1>3 DEF CreateStarts, Begins, MayStart
<1>4. ASSUME NEW d \in Dog, DogRestarts(d) \/ DogLaunched(d)
      PROVE  ~gate.closing /\ dogs[d].pc # "unborn"
  <2>1. CASE DogRestarts(d)
    BY <2>1 DEF DogRestarts, Begins, MayStart
  <2>2. CASE DogLaunched(d)
    <3>1. launch' = NoLaunch
      BY <2>2, Zenon DEF DogLaunched
    <3> QED BY <3>1 DEF NoLaunch
  <2> QED BY <1>4, <2>1, <2>2
<1>5. CASE AttachLooks
  <2>1. attach.pc = "wants" /\ (launch' = launch \/ Begins("start") \/ Begins("resume"))
    BY <1>5, AttachLooksStep, Zenon
  <2> QED BY <1>1, <2>1 DEF Begins, MayStart
<1>6. CASE AttachLaunched \/ AttachReplaced
  <2>1. launch' = NoLaunch
    BY <1>6, Zenon DEF AttachLaunched, AttachReplaced
  <2> QED BY <2>1 DEF NoLaunch
<1>7. CASE AttachReplaces
  <2>1. attach.pc = "retired" /\ (launch' = launch \/ Begins("resume"))
    BY <1>7, Zenon DEF AttachReplaces
  <2> QED BY <1>1, <2>1 DEF Begins, MayStart
<1>8. ASSUME NEW e \in Ending, EndTakesGuard(e)
      PROVE  ~gate.closing /\ file
  <2>1. launch' = launch \/ (Begins("resume") /\ \E p \in Probes : MayResume(p))
    BY <1>8, Zenon DEF EndTakesGuard
  <2> QED BY <1>1, <2>1 DEF Begins, MayStart, MayResume, Probes
<1>9. ASSUME NEW e \in Ending, EndLaunched(e)
      PROVE  FALSE
  <2>1. launch' = NoLaunch
    BY <1>9, Zenon DEF EndLaunched
  <2> QED BY <2>1 DEF NoLaunch
<1> QED BY <1>1, <1>2, <1>3, <1>4, <1>5, <1>6, <1>7, <1>8, <1>9, LaunchStays

\* A gate that is closing does so to the end.
GateCounts == \E n : gate' = [gate EXCEPT !.inFlight = n]
LEMMA GateStaysShut ==
    ASSUME RunInv, [Next]_vars, gate.closing
    PROVE  gate'.closing
<1>1. gate \in GateType
  BY DEF RunInv, TypeOK
<1>2. CASE GateCounts
  BY <1>1, <1>2 DEF GateCounts, GateType
<1>3. CASE gate' = gate
  BY <1>3
<1>4. \A n : gate' = Drops(n) => GateCounts
  BY Zenon DEF Drops, GateCounts
<1>5. \A m : Begins(m) => GateCounts
  BY Zenon DEF Begins, GateCounts
<1>6. CASE UNCHANGED vars
  BY <1>6 DEF vars
<1>7. ASSUME NEW s \in Supervisor,
             SupAnswers(s) \/ SupRuns(s) \/ SupTerminal(s) \/ SupDies(s) \/ DialAnswered(s)
      PROVE  gate' = gate
  BY <1>7, Zenon DEF SupAnswers, SupRuns, SupTerminal, SupDies, DialAnswered
<1>8. CASE Fork \/ Settle \/ CreateChecked \/ RoundBegins \/ DialFails \/ WatchTells \/ WatchEnds \/ Adopts
           \/ AttachCalled \/ AttachStops \/ EndDeadline \/ EndLeavesRow
  BY <1>3, <1>8, Zenon DEF Fork, Settle, CreateChecked, RoundBegins, DialFails, WatchTells, WatchEnds, Adopts,
     AttachCalled, AttachStops, EndDeadline, EndLeavesRow
<1>9. CASE CloseGate \/ GateSettles
  BY <1>1, <1>9 DEF CloseGate, GateSettles, GateType
<1>10. CASE CreateAdmitted \/ CreateInserts \/ CreateStarts \/ CreateRefused \/ CreateEnds
  <2>1. gate' = gate \/ GateCounts
    BY <1>4, <1>5, <1>10, Zenon DEF CreateAdmitted, CreateInserts, CreateStarts, CreateRefused, CreateEnds, GateCounts
  <2> QED BY <1>2, <1>3, <2>1
<1>11. ASSUME NEW d \in Dog,
              DogTold(d) \/ DogMarks(d) \/ DogRechecks(d) \/ DogRestarts(d) \/ DogRefused(d) \/ DogLaunched(d)
       PROVE  gate' = gate \/ GateCounts
  BY <1>4, <1>5, <1>11, Zenon DEF DogTold, DogMarks, DogRechecks, DogRestarts, DogRefused, DogLaunched
<1>12. CASE AttachLooks
  <2>1. gate' = gate \/ GateCounts
    BY <1>5, <1>12, AttachLooksStep, Zenon
  <2> QED BY <1>2, <1>3, <2>1
<1>13. CASE AttachLaunched \/ AttachReplaces \/ AttachReplaced \/ ResetBegins \/ Resets
  <2>1. gate' = gate \/ GateCounts
    BY <1>4, <1>5, <1>13, Zenon DEF AttachLaunched, AttachReplaces, AttachReplaced, ResetBegins, Resets, GateCounts
  <2> QED BY <1>2, <1>3, <2>1
<1>14. ASSUME NEW e \in Ending, EndCalled(e) \/ EndTakesGuard(e) \/ EndLaunched(e) \/ EndReads(e) \/ EndAsks(e)
       PROVE  gate' = gate \/ GateCounts
  BY <1>4, <1>5, <1>14, Zenon DEF EndCalled, EndTakesGuard, EndLaunched, EndReads, EndAsks
<1>15. ASSUME NEW e \in Ending, EndStops(e) \/ EndProves(e) \/ EndPruned(e) \/ EndRemoves(e)
       PROVE  gate' = gate
  BY <1>15, Zenon DEF EndStops, EndProves, EndPruned, EndRemoves
<1> QED BY <1>2, <1>3, <1>6, <1>7, <1>8, <1>9, <1>10, <1>11, <1>12, <1>13, <1>14, <1>15 DEF Next

\* A reset begins through the gate; an activation begins while the load has one.
LEMMA AttachBegun ==
    ASSUME RunInv, [Next]_vars
    PROVE  /\ attach'.pc = "resetting" /\ gate.closing => attach.pc = "resetting"
           /\ attach.pc = "idle" /\ load.attaches = 0 => attach'.pc = "idle"
<1>1. attach \in AttachType
  BY DEF RunInv, TypeOK
<1>2. CASE attach' = attach
  BY <1>2
<1>4. AttachOver => attach'.pc = "idle"
  BY AttachOverOut DEF RunInv
<1>5. AttachWaits => attach'.pc \in {"idle", "wants"}
  BY AttachWaitsOut DEF RunInv, AttachOut
<1>6. CASE AttachCalled
  <2>1. attach.n < load.attaches /\ \E i \in load.intents : attach' = [NoAttach EXCEPT !.pc = "wants", !.intent = i, !.n = attach.n + 1]
    BY <1>6 DEF AttachCalled
  <2>2. attach'.pc = "wants"
    BY <2>1 DEF NoAttach
  <2>3. attach.n \in Nat
    BY <1>1 DEF AttachType
  <2> QED BY <2>1, <2>2, <2>3
<1>7. CASE AttachLooks
  <2>1. attach.pc = "wants"
    BY <1>7, AttachLooksStep
  <2>2. \/ AttachOut \/ attach' = [attach EXCEPT !.pc = "launching"]
        \/ attach' = [attach EXCEPT !.pc = IF Fresh THEN "fresh" ELSE "stale"]
    BY <1>7, AttachLooksStep, Zenon
  <2>3. attach'.pc \in {"idle", "wants", "launching", "fresh", "stale"}
    BY <1>1, <2>2 DEF AttachOut, AttachType
  <2> QED BY <2>1, <2>3, Zenon
<1>8. CASE AttachLaunched
  <2>1. attach.pc = "launching" /\ (AttachOver \/ AttachWaits \/ attach' = [attach EXCEPT !.pc = "stale"])
    BY <1>8, Zenon DEF AttachLaunched
  <2>2. attach'.pc # "resetting"
    BY <1>1, <1>4, <1>5, <2>1 DEF AttachType
  <2> QED BY <2>1, <2>2, Zenon
<1>9. CASE AttachStops \/ AttachReplaces
  <2>1. /\ attach.pc \in {"stale", "retired"}
        /\ AttachOver \/ attach' = [attach EXCEPT !.pc = "retired"] \/ attach' = [attach EXCEPT !.pc = "replacing"]
    BY <1>9, Zenon DEF AttachStops, AttachReplaces
  <2>2. attach'.pc # "resetting"
    BY <1>1, <1>4, <2>1 DEF AttachType
  <2> QED BY <2>1, <2>2, Zenon
<1>10. CASE AttachReplaced
  <2> DEFINE mine(own) == [attach EXCEPT !.own = own, !.made = @ \cup {launch.sup}]
  <2>1. attach.pc = "replacing"
    BY <1>10 DEF AttachReplaced
  <2>2. \/ AttachOver \/ AttachWaits
        \/ \E own : \/ attach' = [mine(own) EXCEPT !.pc = "fresh"]
                   \/ attach' = [mine(own) EXCEPT !.pc = "wants"]
    BY <1>10, Zenon DEF AttachReplaced
  <2>3. ASSUME NEW own, \/ attach' = [mine(own) EXCEPT !.pc = "fresh"]
                        \/ attach' = [mine(own) EXCEPT !.pc = "wants"]
        PROVE  attach'.pc \in {"fresh", "wants"}
    BY <1>1, <2>3 DEF AttachType
  <2> HIDE DEF mine
  <2>4. attach'.pc # "resetting"
    BY <1>4, <1>5, <2>2, <2>3
  <2> QED BY <2>1, <2>4, Zenon
<1>11. CASE ResetBegins
  BY <1>4, <1>11 DEF ResetBegins, MayStart
<1>12. CASE Resets
  BY <1>4, <1>12 DEF Resets
<1> QED BY <1>2, <1>6, <1>7, <1>8, <1>9, <1>10, <1>11, <1>12, AttachRemains

\* The close is called behind the gate, and reports an end only of a row that is gone.
LEMMA CloseStays ==
    ASSUME RunInv, NEW e \in Ending,
           \/ \E pc : ends' = [ends EXCEPT ![e].pc = pc]
           \/ Keeps(e)
           \/ Confirms(e)
    PROVE  ends'["close"].result \in {ends["close"].result, "not"}
<1>1. ends \in [Ending -> EndType] /\ "close" \in Ending
  BY DEF RunInv, TypeOK, Ending
<1>2. CASE \E pc : ends' = [ends EXCEPT ![e].pc = pc]
  <2>1. PICK pc : ends' = [ends EXCEPT ![e].pc = pc]
    BY <1>2
  <2>2. ends' = [ends EXCEPT ![e] = [ends[e] EXCEPT !.pc = pc]]
    BY <1>1, <2>1
  <2>3. [ends[e] EXCEPT !.pc = pc].result = ends[e].result
    BY <1>1 DEF EndType
  <2> QED BY <1>1, <2>2, <2>3
<1>3. CASE ends' = [ends EXCEPT ![e] = Told(e, "not")]
  <2>1. Told(e, "not").result \in {ends[e].result, "not"}
    BY ToldEnd DEF RunInv
  <2> HIDE DEF Told
  <2> QED BY <1>1, <1>3, <2>1
<1>4. CASE Keeps(e)
  <2>1. CASE e = "close" /\ ~ends[e].late
    <3>1. ends' = [ends EXCEPT ![e].pc = "wants"]
      BY <1>4, <2>1 DEF Keeps
    <3> QED BY <1>2, <3>1
  <2>2. CASE ~(e = "close" /\ ~ends[e].late)
    <3>1. ends' = [ends EXCEPT ![e] = Told(e, "kept")]
      BY <1>4, <2>2 DEF Keeps
    <3>2. e = "close" => ends[e].result = "not"
      BY <2>2 DEF RunInv, EndsAreTrue
    <3>3. ends[e].result = "not" => Told(e, "kept").result = "not"
      BY ToldEnd DEF RunInv, None
    <3> HIDE DEF Told
    <3> QED BY <1>1, <3>1, <3>2, <3>3
  <2> QED BY <2>1, <2>2
<1>5. CASE Confirms(e)
  <2>1. ends' = [ends EXCEPT ![e] = Told(e, "not")] \/ ends' = [ends EXCEPT ![e].pc = "ended"]
    BY <1>5, Zenon DEF Confirms
  <2> QED BY <1>2, <1>3, <2>1
<1> QED BY <1>2, <1>4, <1>5

LEMMA CloseAnswers ==
    ASSUME RunInv, [Next]_vars, Here'
    PROVE  ends'["close"].result \in {ends["close"].result, "not"}
<1>1. ends \in [Ending -> EndType] /\ "close" \in Ending
  BY DEF RunInv, TypeOK, Ending
<1>2. ASSUME NEW e \in Ending, EndCalled(e)
      PROVE  ends'["close"].result \in {ends["close"].result, "not"}
  <2>1. row' = row /\ ends' = [ends EXCEPT ![e] = IF Here THEN [@ EXCEPT !.pc = "wants"] ELSE Told(e, "unlisted")]
    BY <1>2 DEF EndCalled
  <2>2. Here
    BY <2>1 DEF Here
  <2>3. ends' = [ends EXCEPT ![e].pc = "wants"]
    BY <2>1, <2>2
  <2> QED BY <2>3, CloseStays
<1>3. ASSUME NEW e \in Ending, EndTakesGuard(e)
      PROVE  ends'["close"].result \in {ends["close"].result, "not"}
  <2>1. \/ ~Here /\ row' = row
        \/ \E pc : ends' = [ends EXCEPT ![e].pc = pc]
        \/ Keeps(e)
    BY <1>3, Zenon DEF EndTakesGuard
  <2> QED BY <2>1, CloseStays DEF Here
<1>4. ASSUME NEW e \in Ending, EndLaunched(e) \/ EndReads(e) \/ EndAsks(e) \/ EndStops(e) \/ EndProves(e) \/ EndPruned(e)
      PROVE  ends'["close"].result \in {ends["close"].result, "not"}
  <2>1. \/ \E pc : ends' = [ends EXCEPT ![e].pc = pc]
        \/ Keeps(e)
        \/ Confirms(e)
    BY <1>4, Zenon DEF EndLaunched, EndReads, EndAsks, EndStops, EndProves, EndPruned
  <2> QED BY <2>1, CloseStays
<1>5. ASSUME NEW e \in Ending, EndRemoves(e)
      PROVE  FALSE
  BY <1>5 DEF EndRemoves, NoRow, Here
<1>6. CASE EndLeavesRow \/ EndDeadline
  <2>1. \/ ends' = [ends EXCEPT !["close"] = Told("close", "not")]
        \/ ends' = [ends EXCEPT !["close"] = [ends["close"] EXCEPT !.result = "not", !.late = TRUE]]
    BY <1>6, Zenon DEF EndLeavesRow, EndDeadline
  <2>2. Told("close", "not").result \in {ends["close"].result, "not"}
    BY <1>1, ToldEnd DEF RunInv
  <2>3. [ends["close"] EXCEPT !.result = "not", !.late = TRUE].result = "not"
    BY <1>1 DEF EndType
  <2> HIDE DEF Told
  <2> QED BY <1>1, <2>1, <2>2, <2>3
<1> QED BY <1>2, <1>3, <1>4, <1>5, <1>6, EndsStay

LEMMA CloseCalled ==
    ASSUME RunInv, [Next]_vars, ends["close"].pc = "idle", ends'["close"].pc # "idle"
    PROVE  "close" \in load.ends /\ gate.closing
<1>1. ends \in [Ending -> EndType] /\ "close" \in Ending
  BY DEF RunInv, TypeOK, Ending
<1>2. ASSUME NEW e \in Ending, e # "close", NEW x, ends' = [ends EXCEPT ![e] = x]
      PROVE  FALSE
  BY <1>1, <1>2
<1>3. CASE EndCalled("close")
  BY <1>3 DEF EndCalled, RunInv, PermitsAreCounted
<1>4. ASSUME NEW e \in Ending, e # "close", EndCalled(e) \/ EndRemoves(e)
      PROVE  FALSE
  <2>1. \E x : ends' = [ends EXCEPT ![e] = x]
    BY <1>4, Zenon DEF EndCalled, EndRemoves
  <2> QED BY <1>2, <1>4, <2>1
<1>5. ASSUME NEW e \in Ending, EndTakesGuard(e) \/ EndLaunched(e) \/ EndReads(e) \/ EndAsks(e) \/ EndStops(e)
                               \/ EndProves(e) \/ EndPruned(e) \/ EndRemoves(e)
      PROVE  ends[e].pc # "idle"
  BY <1>5 DEF EndTakesGuard, EndLaunched, EndReads, EndAsks, EndStops, EndProves, EndPruned, EndRemoves
<1>6. ASSUME NEW e \in Ending, e # "close",
             EndTakesGuard(e) \/ EndLaunched(e) \/ EndReads(e) \/ EndAsks(e) \/ EndStops(e) \/ EndProves(e) \/ EndPruned(e)
      PROVE  FALSE
  <2>1. \/ \E pc : ends' = [ends EXCEPT ![e].pc = pc]
        \/ Keeps(e) \/ Confirms(e) \/ \E r : ends' = [ends EXCEPT ![e] = Told(e, r)]
    BY <1>6, Zenon DEF EndTakesGuard, EndLaunched, EndReads, EndAsks, EndStops, EndProves, EndPruned
  <2>2. \/ \E pc : ends' = [ends EXCEPT ![e].pc = pc]
        \/ \E r : ends' = [ends EXCEPT ![e] = Told(e, r)]
    BY <2>1, Zenon DEF Keeps, Confirms
  <2>3. \A pc : ends' = [ends EXCEPT ![e].pc = pc] => ends' = [ends EXCEPT ![e] = [ends[e] EXCEPT !.pc = pc]]
    BY <1>1
  <2> HIDE DEF Told
  <2> QED BY <1>2, <1>6, <2>2, <2>3
<1>7. ~EndDeadline /\ ~EndLeavesRow
  BY DEF EndDeadline, EndLeavesRow
<1>8. CASE ends' = ends
  BY <1>8
<1> QED BY <1>3, <1>4, <1>5, <1>6, <1>7, <1>8, EndsStay

\* A row goes by an end's removal, or by the rollback of its create.
LEMMA RowGoes ==
    ASSUME RunInv, [Next]_vars, row.on # "removed", row'.on = "removed"
    PROVE  \/ CreateRefused
           \/ CreateEnds /\ launch.pc \in {"contended", "failed"}
           \/ \E e \in Ending : EndRemoves(e)
<1>1. row \in RowType /\ TypeOK
  BY DEF RunInv, TypeOK
<1>2. ~(row'.on = row.on)
  OBVIOUS
<1>3. CASE UNCHANGED vars
  BY <1>3 DEF vars
<1>4. ASSUME NEW s \in Supervisor,
             SupAnswers(s) \/ SupRuns(s) \/ SupTerminal(s) \/ SupDies(s) \/ DialAnswered(s)
      PROVE  row'.on = row.on
  <2>1. CASE DialAnswered(s)
    BY <2>1, DialAnsweredStep DEF SameRow
  <2>2. CASE SupAnswers(s) \/ SupRuns(s) \/ SupTerminal(s) \/ SupDies(s)
    BY <2>2, Zenon DEF SupAnswers, SupRuns, SupTerminal, SupDies
  <2> QED BY <1>4, <2>1, <2>2
<1>5. CASE Fork \/ Settle \/ CloseGate \/ GateSettles \/ CreateChecked \/ CreateAdmitted
           \/ AttachCalled \/ AttachStops \/ ResetBegins \/ Resets \/ EndDeadline \/ EndLeavesRow
  <2>1. row' = row
    BY <1>5, Zenon DEF Fork, Settle, CloseGate, GateSettles, CreateChecked, CreateAdmitted, AttachCalled, AttachStops,
       ResetBegins, Resets, EndDeadline, EndLeavesRow
  <2> QED BY <1>2, <2>1
<1>6. ~CreateInserts
  BY CreateInsertsStep
<1>7. \A m \in {"start", "resume"} : ~Begins(m)
  BY <1>1, <1>2, BegunRow
<1>8. ~CreateStarts
  BY <1>7 DEF CreateStarts
<1>9. ~(launch.pc = "settled" /\ Watched)
  BY <1>2, WatchedStep
<1>10. CASE CreateEnds
  BY <1>9, <1>10 DEF CreateEnds
<1>11. ASSUME NEW d \in Dog,
              DogTold(d) \/ DogMarks(d) \/ DogRechecks(d) \/ DogRestarts(d) \/ DogRefused(d) \/ DogLaunched(d)
       PROVE  row'.on = row.on
  <2>1. Retracts(d).on = row.on
    BY <1>1, RetractedRow
  <2>2. CASE DogTold(d)
    BY <2>1, <2>2, DogToldStep DEF DogToldTo
  <2>3. CASE DogMarks(d)
    BY <2>3, DogMarksStep
  <2>4. CASE DogRechecks(d)
    BY <2>1, <2>4, DogRechecksStep
  <2>5. CASE DogRestarts(d)
    BY <1>7, <2>5 DEF DogRestarts
  <2>6. CASE DogRefused(d)
    BY <2>1, <2>6 DEF DogRefused
  <2>7. CASE DogLaunched(d)
    BY <2>1, <2>7, DogLaunchedStep DEF DogLaunchedTo
  <2> QED BY <1>11, <2>2, <2>3, <2>4, <2>5, <2>6, <2>7
<1>12. CASE RoundBegins \/ DialFails \/ WatchTells \/ WatchEnds \/ Adopts
  <2>1. row'.on = row.on
    BY <1>12, RoundBeginsStep, DialFailsStep, WatchTellsStep, WatchEndsStep, AdoptsStep DEF SameRow
  <2> QED BY <1>2, <2>1
<1>13. CASE AttachLooks
  <2>1. row' = row \/ Begins("start") \/ Begins("resume")
    BY <1>13, AttachLooksStep, Zenon
  <2> QED BY <1>2, <1>7, <2>1
<1>14. CASE AttachLaunched \/ AttachReplaces \/ AttachReplaced
  <2>1. row' = row \/ (launch.pc = "settled" /\ Watched) \/ Begins("resume")
    BY <1>14, Zenon DEF AttachLaunched, AttachReplaces, AttachReplaced
  <2> QED BY <1>2, <1>7, <1>9, <2>1
<1>15. ASSUME NEW e \in Ending, EndTakesGuard(e) \/ EndLaunched(e)
       PROVE  FALSE
  <2>1. row' = row \/ (launch.pc = "settled" /\ Watched) \/ Begins("resume")
    BY <1>15, Zenon DEF EndTakesGuard, EndLaunched
  <2> QED BY <1>2, <1>7, <1>9, <2>1
<1>16. ASSUME NEW e \in Ending, EndCalled(e) \/ EndReads(e) \/ EndAsks(e) \/ EndStops(e) \/ EndProves(e) \/ EndPruned(e)
       PROVE  row' = row
  BY <1>16, Zenon DEF EndCalled, EndReads, EndAsks, EndStops, EndProves, EndPruned
<1> QED BY <1>2, <1>3, <1>4, <1>5, <1>6, <1>8, <1>10, <1>11, <1>12, <1>13, <1>14, <1>15, <1>16 DEF Next

----------------------------------------------------------------------------
(* Where no activation meets the lone create.                              *)

\* No activation is called where a create is.
Sole == load.creates > 0 => load.attaches = 0

\* Nothing was started for the row, which its create has yet to launch.
Untouched == (\A s \in Supervisor : sups[s].st = "unborn") /\ (\A d \in Dog : dogs[d].pc = "unborn")
NewRow ==
    \/ row.on = "absent" \/ create.pc = "inserted"
    \/ create.pc = "launching" /\ launch.pc \in {"begun", "failed"}

CreateLeads ==
    /\ NewRow => Untouched
    /\ create.pc = "launching" => launch.pc # "contended"
    /\ create.pc = "inserted" => launch.pc = "no" /\ ~file
    /\ attach.pc = "idle"
CreateIsFirst == load.creates > 0 => CreateLeads

GoneServesNone == row.on = "removed" => ~Serves

\* Behind a close that has answered for the row, nothing is started.
CloseIsLast ==
    /\ ends["close"].pc # "idle" => gate.closing
    /\ ends["close"].result \notin {None, "not"} => ~Serves /\ launch.pc = "no" /\ attach.pc # "resetting"

CoverInv == CreateIsFirst /\ GoneServesNone /\ CloseIsLast

LEMMA ServesOn ==
    ASSUME RunInv, [Next]_vars, ~Serves, launch.pc # "begun", attach.pc # "resetting"
    PROVE  ~Serves'
BY SupsLive DEF Serves, SupLives

LEMMA UntouchedServesNone == Untouched => ~Serves
BY DEF Untouched, Serves, Serving

LEMMA AwayServesNone ==
    ASSUME RunInv, GoneServesNone, ~Here
    PROVE  ~Serves /\ launch.pc = "no" /\ attach.pc # "resetting"
<1>1. launch.pc = "no" /\ attach.pc # "resetting"
  BY AttachHas, LaunchedRowStands
<1>2. row.on = "removed" \/ row.on = "absent"
  BY DEF RunInv, TypeOK, RowType, Here
<1>3. row.on = "absent" => \A s \in Supervisor : sups[s].st = "unborn"
  BY DEF RunInv, RowStands, FenceIsOne
<1> QED BY <1>1, <1>2, <1>3 DEF GoneServesNone, Serves, Serving

\* A row that nothing was started for has no watchdog to come but its create's.
LEMMA UntouchedDogs ==
    ASSUME RunInv, [Next]_vars, Untouched
    PROVE  dogs' = dogs
<1>1. launch.pc \notin {"forked", "settled"} /\ obs.pc # "exited"
  BY DEF RunInv, FenceIsOne, Forked, LegsAreGone, Untouched, TypeOK, ObsType
<1>2. CASE UNCHANGED vars
  BY <1>2 DEF vars
<1>3. ASSUME NEW s \in Supervisor,
             SupAnswers(s) \/ SupRuns(s) \/ SupTerminal(s) \/ SupDies(s) \/ DialAnswered(s)
      PROVE  dogs' = dogs
  BY <1>3, Zenon DEF SupAnswers, SupRuns, SupTerminal, SupDies, DialAnswered
<1>4. CASE Fork \/ Settle \/ CloseGate \/ GateSettles \/ CreateChecked \/ CreateAdmitted \/ CreateInserts
           \/ CreateStarts \/ CreateRefused
  BY <1>4, Zenon DEF Fork, Settle, CloseGate, GateSettles, CreateChecked, CreateAdmitted, CreateInserts,
     CreateStarts, CreateRefused
<1>5. CASE CreateEnds
  BY <1>1, <1>5, Zenon DEF CreateEnds
<1>6. ASSUME NEW d \in Dog,
             DogTold(d) \/ DogMarks(d) \/ DogRechecks(d) \/ DogRestarts(d) \/ DogRefused(d) \/ DogLaunched(d)
      PROVE  FALSE
  BY <1>6 DEF Untouched, DogTold, DogMarks, DogRechecks, DogRestarts, DogRefused, DogLaunched
<1>7. CASE RoundBegins \/ DialFails \/ WatchTells \/ WatchEnds
  BY <1>7, Zenon DEF RoundBegins, DialFails, WatchTells, WatchEnds
<1>8. ~Adopts
  BY <1>1 DEF Adopts
<1>9. CASE AttachCalled \/ AttachLooks \/ AttachStops \/ AttachReplaces \/ ResetBegins \/ Resets
  BY <1>9, Zenon DEF AttachCalled, AttachLooks, AttachStops, AttachReplaces, ResetBegins, Resets
<1>10. CASE AttachLaunched \/ AttachReplaced
  BY <1>1, <1>10, Zenon DEF AttachLaunched, AttachReplaced
<1>11. ASSUME NEW e \in Ending, EndCalled(e) \/ EndTakesGuard(e) \/ EndLaunched(e) \/ EndReads(e) \/ EndAsks(e)
       PROVE  dogs' = dogs
  BY <1>1, <1>11, Zenon DEF EndCalled, EndTakesGuard, EndLaunched, EndReads, EndAsks
<1>12. ASSUME NEW e \in Ending, EndStops(e) \/ EndProves(e) \/ EndPruned(e) \/ EndRemoves(e)
       PROVE  dogs' = dogs
  BY <1>12, Zenon DEF EndStops, EndProves, EndPruned, EndRemoves
<1>13. CASE EndDeadline \/ EndLeavesRow
  BY <1>13 DEF EndDeadline, EndLeavesRow
<1> QED BY <1>2, <1>3, <1>4, <1>5, <1>6, <1>7, <1>8, <1>9, <1>10, <1>11, <1>12, <1>13 DEF Next

LEMMA LaunchNext ==
    ASSUME RunInv, [Next]_vars, launch.pc # "no"
    PROVE  launch' = launch \/ launch' = NoLaunch \/ Fork \/ Settle
<1>1. guard # None
  BY DEF RunInv, LaunchIsGuarded
<1>2. ~CreateStarts /\ ~AttachLooks /\ \A e \in Ending : ~EndTakesGuard(e)
  BY <1>1 DEF CreateStarts, AttachLooks, EndTakesGuard
<1>3. CASE CreateEnds \/ AttachLaunched \/ AttachReplaced
  BY <1>3, Zenon DEF CreateEnds, AttachLaunched, AttachReplaced
<1>4. ASSUME NEW d \in Dog, DogRestarts(d)
      PROVE  FALSE
  BY <1>4 DEF DogRestarts, RunInv, Guarded, LaunchIsGuarded, DogHolds
<1>5. ~AttachReplaces
  BY DEF AttachReplaces, RunInv, Guarded, LaunchIsGuarded
<1>6. ASSUME NEW d \in Dog, DogLaunched(d)
      PROVE  launch' = NoLaunch
  BY <1>6, Zenon DEF DogLaunched
<1>7. ASSUME NEW e \in Ending, EndLaunched(e)
      PROVE  launch' = NoLaunch
  BY <1>7, Zenon DEF EndLaunched
<1> QED BY <1>2, <1>3, <1>4, <1>5, <1>6, <1>7, LaunchStays

\* A create's row is inserted, and its launch made, by the create alone.
LEMMA CreateSteps ==
    ASSUME RunInv, [Next]_vars
    PROVE  /\ create'.pc = "inserted" => create.pc = "inserted" \/ CreateInserts
           /\ create'.pc = "launching" => create.pc = "launching" \/ CreateStarts
<1>1. create \in CreateType
  BY DEF RunInv, TypeOK
<1>2. CASE CreateChecked
  <2>1. create' = [create EXCEPT !.pc = "checked", !.n = @ + 1]
    BY <1>2 DEF CreateChecked
  <2> QED BY <1>1, <2>1 DEF CreateType
<1>3. CASE CreateAdmitted
  <2>1. create' = [create EXCEPT !.pc = "admitted"] \/ create' = [create EXCEPT !.pc = "idle"]
    BY <1>3, Zenon DEF CreateAdmitted
  <2> QED BY <1>1, <2>1 DEF CreateType
<1>4. CASE CreateInserts
  BY <1>1, <1>4 DEF CreateInserts, CreateType
<1>5. CASE CreateRefused \/ CreateEnds
  <2>1. create' = [create EXCEPT !.pc = "idle"]
    BY <1>5, Zenon DEF CreateRefused, CreateEnds
  <2> QED BY <1>1, <2>1 DEF CreateType
<1>6. CASE CreateStarts
  BY <1>1, <1>6 DEF CreateStarts, CreateType
<1> QED BY <1>2, <1>3, <1>4, <1>5, <1>6, CreateMoves

\* The lone create keeps ahead of everything else that could start its row.
LEMMA CreateLeadsOn ==
    ASSUME RunInv, RunInv', RowIsOne, CreateLeads, load.attaches = 0, [Next]_vars
    PROVE  CreateLeads'
<1>1. attach'.pc = "idle"
  BY AttachBegun DEF CreateLeads
<1>2. ASSUME create'.pc = "inserted"
      PROVE  /\ launch'.pc = "no" /\ ~file'
             /\ \A d \in Dog : dogs'[d].pc = "unborn"
  <2>1. CASE create.pc = "inserted"
    <3>1. Untouched /\ launch.pc = "no" /\ ~file /\ attach.pc = "idle"
      BY <2>1 DEF CreateLeads, NewRow
    <3>2. ~Fork /\ ~CreateStarts
      <4>1. ~Fork
        BY <3>1 DEF Fork
      <4>2. ASSUME CreateStarts
            PROVE  FALSE
        <5>1. create \in CreateType /\ create' = [create EXCEPT !.pc = "launching"]
          BY <4>2 DEF CreateStarts, RunInv, TypeOK
        <5> QED BY <1>2, <5>1 DEF CreateType
      <4> QED BY <4>1, <4>2
    <3>3. ~file'
      BY <3>1, <3>2, FileStays
    <3>4. launch'.pc = "no"
      BY <3>1, <3>2, LaunchBegun DEF Untouched
    <3> QED BY <3>1, <3>3, <3>4, UntouchedDogs DEF Untouched
  <2>2. CASE CreateInserts
    <3>1. row.on = "absent"
      BY <2>2 DEF CreateInserts, RowIsOne
    <3>2. ~file /\ launch.pc = "no" /\ \A d \in Dog : dogs[d].pc = "unborn"
      BY <3>1, LaunchedRowStands DEF RunInv, RowStands, Here
    <3> QED BY <2>2, <3>2 DEF CreateInserts
  <2> QED BY <1>2, <2>1, <2>2, CreateSteps
<1>3. ASSUME create'.pc = "launching", ~CreateStarts
      PROVE  /\ launch'.pc # "contended"
             /\ launch'.pc \in {"begun", "failed"} => Untouched'
  <2>1. create.pc = "launching" /\ launch.pc \notin {"no", "contended"}
    BY <1>3, CreateSteps, CreateHas DEF CreateLeads
  <2>2. launch.pc \in {"begun", "failed"} => Untouched
    BY <2>1 DEF CreateLeads, NewRow
  <2>3. CASE Fork
    <3>1. launch.pc = "begun" /\ launch \in LaunchType
      BY <2>3, Zenon DEF Fork, RunInv, TypeOK
    <3>2. ~FenceHeld
      BY <2>2, <3>1 DEF Untouched, FenceHeld, Alive, Live
    <3>3. launch'.pc = "forked" \/ (launch'.pc = "failed" /\ sups' = sups /\ dogs' = dogs)
      BY <2>3, <3>1, <3>2, Zenon DEF Fork, LaunchType
    <3> QED BY <2>2, <3>1, <3>3 DEF Untouched
  <2>4. CASE Settle
    <3>1. launch \in LaunchType /\ \E p \in Probes : launch' = [launch EXCEPT !.pc = "settled", !.saw = p]
      BY <2>4, Zenon DEF Settle, RunInv, TypeOK
    <3>2. launch'.pc = "settled"
      BY <3>1 DEF LaunchType
    <3> QED BY <3>2
  <2>5. CASE launch' = NoLaunch
    BY <2>5 DEF NoLaunch
  <2>6. CASE launch' = launch /\ ~Fork
    <3>1. ASSUME Untouched
          PROVE  Untouched'
      <4>1. dogs' = dogs /\ NoBirth
        BY <2>6, <3>1, UntouchedDogs, NoneBorn
      <4> QED BY <3>1, <4>1 DEF Untouched, NoBirth
    <3> QED BY <2>1, <2>2, <2>6, <3>1
  <2> QED BY <2>1, <2>3, <2>4, <2>5, <2>6, LaunchNext
<1>4. ASSUME CreateStarts
      PROVE  launch'.pc = "begun" /\ Untouched'
  <2>1. Untouched
    BY <1>4 DEF CreateStarts, CreateLeads, NewRow
  <2>2. sups' = sups /\ dogs' = dogs /\ Begins("start")
    BY <1>4 DEF CreateStarts
  <2> QED BY <2>1, <2>2 DEF Untouched, Begins, NoLaunch
<1>5. ~file' => \A s \in Supervisor : sups'[s].st = "unborn"
  BY DEF RunInv, FenceIsOne
<1>6. row'.on = "absent" => Untouched'
  <2>1. row'.on = "absent" => ~file' /\ \A d \in Dog : dogs'[d].pc = "unborn"
    BY DEF RunInv, RowStands
  <2> QED BY <1>5, <2>1 DEF Untouched
<1>7. create'.pc = "inserted" => Untouched'
  BY <1>2, <1>5 DEF Untouched
<1> QED BY <1>1, <1>2, <1>3, <1>4, <1>6, <1>7 DEF CreateLeads, NewRow

LEMMA CreateIsFirstOn ==
    ASSUME RunInv, RunInv', Lone, Sole, RowIsOne, CreateIsFirst, [Next]_vars
    PROVE  CreateIsFirst'
<1>1. load' = load
  BY LoadStays
<1> SUFFICES ASSUME load.creates > 0 PROVE CreateLeads'
  BY <1>1 DEF CreateIsFirst
<1> QED BY CreateLeadsOn DEF CreateIsFirst, Sole

\* A row that goes leaves no agent.
LEMMA GoneServesNoneOn ==
    ASSUME RunInv, RunInv', RowIsOne, CreateIsFirst, GoneServesNone, [Next]_vars
    PROVE  GoneServesNone'
<1> SUFFICES ASSUME row'.on = "removed" PROVE ~Serves'
  BY DEF GoneServesNone
<1>1. CASE row.on = "removed"
  <2>1. ~Serves /\ launch.pc = "no" /\ attach.pc # "resetting"
    BY <1>1, AwayServesNone DEF Here
  <2> QED BY <2>1, ServesOn
<1>2. create.pc # "idle" => load.creates > 0
  <2>1. create.n \in Nat /\ load.creates \in Nat
    BY Loaded DEF RunInv, TypeOK, CreateType, LoadType
  <2> QED BY <2>1 DEF RunInv, RowStands, RowIsOne
<1>3. sups' = sups /\ ~Serves => ~Serves'
  BY DEF Serves
<1>4. CASE CreateRefused
  <2>1. Untouched
    BY <1>2, <1>4 DEF CreateRefused, CreateIsFirst, CreateLeads, NewRow
  <2> QED BY <1>3, <1>4, <2>1, UntouchedServesNone DEF CreateRefused
<1>5. CASE CreateEnds /\ launch.pc \in {"contended", "failed"}
  <2>1. create.pc = "launching" /\ sups' = sups
    BY <1>5, Zenon DEF CreateEnds
  <2>2. Untouched
    BY <1>2, <1>5, <2>1 DEF CreateIsFirst, CreateLeads, NewRow
  <2> QED BY <1>3, <2>1, <2>2, UntouchedServesNone
<1>6. ASSUME NEW e \in Ending, EndRemoves(e)
      PROVE  ~Serves'
  <2>1. ends[e].pc = "pruned" /\ sups' = sups
    BY <1>6 DEF EndRemoves
  <2>2. ~Serves
    BY <2>1 DEF RunInv, EndsAreTrue
  <2> QED BY <1>3, <2>1, <2>2
<1> QED BY <1>1, <1>4, <1>5, <1>6, RowGoes

LEMMA CloseIsLastOn ==
    ASSUME RunInv, RunInv', GoneServesNone', CloseIsLast, [Next]_vars
    PROVE  CloseIsLast'
<1>1. ends'["close"].pc # "idle" => gate'.closing
  BY CloseCalled, GateStaysShut DEF CloseIsLast
<1>2. ASSUME ends'["close"].result \notin {None, "not"}
      PROVE  ~Serves' /\ launch'.pc = "no" /\ attach'.pc # "resetting"
  <2>1. CASE ~Here'
    <3>1. guard' = None
      BY <2>1 DEF RunInv, RowStands
    <3>2. launch'.pc = "no" /\ attach'.pc # "resetting"
      BY <3>1 DEF RunInv, LaunchIsGuarded, Guarded, None
    <3>3. row'.on \in {"removed", "absent"}
      BY <2>1 DEF RunInv, TypeOK, RowType, Here
    <3>4. row'.on = "absent" => \A s \in Supervisor : sups'[s].st = "unborn"
      BY DEF RunInv, RowStands, FenceIsOne
    <3> QED BY <3>2, <3>3, <3>4 DEF GoneServesNone, Serves, Serving
  <2>2. CASE Here'
    <3>1. ends["close"].result \notin {None, "not"}
      BY <1>2, <2>2, CloseAnswers
    <3>2. ~Serves /\ launch.pc = "no" /\ attach.pc # "resetting"
      BY <3>1 DEF CloseIsLast
    <3>3. ends["close"].pc # "idle"
      BY <3>1 DEF RunInv, EndsAreTrue, Ending
    <3>4. gate.closing
      BY <3>3 DEF CloseIsLast
    <3> QED BY <3>2, <3>4, ServesOn, LaunchBegun, AttachBegun
  <2> QED BY <2>1, <2>2
<1> QED BY <1>1, <1>2 DEF CloseIsLast

LEMMA InitCovers ==
    ASSUME Init, Sole
    PROVE  CoverInv
<1>1. /\ launch.pc = "no" /\ \A d \in Dog : dogs[d].pc = "unborn"
      /\ create.pc = "idle" /\ attach.pc = "idle" /\ row.on \in {"absent", "here"}
      /\ ends["close"].pc = "idle" /\ ends["close"].result = None
  BY DEF Init, NoLaunch, NoDog, NoAttach, NoRow, FreshRow, Ending
<1>2. row.on = "absent" => \A s \in Supervisor : sups[s].st = "unborn"
  BY DEF Init, NoRow, FreshRow
<1> QED BY <1>1, <1>2 DEF CoverInv, CreateIsFirst, CreateLeads, NewRow, Untouched, GoneServesNone, CloseIsLast

THEOREM CoverIsKept == Spec /\ Lone /\ Sole => []CoverInv
<1>1. Init /\ Sole => CoverInv
  BY InitCovers
<1>2. Sole /\ [Next]_vars => Sole'
  BY LoadStays DEF Sole
<1>3. /\ RunInv /\ RunInv' /\ Lone /\ Sole /\ RowIsOne /\ CoverInv /\ [Next]_vars
      => CoverInv'
  BY CreateIsFirstOn, GoneServesNoneOn, CloseIsLastOn DEF CoverInv
<1> QED BY <1>1, <1>2, <1>3, RunIsKept, OwnersAreKept, PTL DEF Spec

\* What comes to a row that the close may end: at most one create, of no row that is
\* there, and no activation beside it.
Alone == "close" \in load.ends => Lone /\ Sole

\* Where no close may come, none has answered.
Unclosed == "close" \notin load.ends /\ ends["close"].pc = "idle"

LEMMA UnclosedOn ==
    ASSUME RunInv, [Next]_vars, Unclosed
    PROVE  Unclosed'
BY CloseCalled, LoadStays DEF Unclosed

\* ReportCoversRuns (shutdown.rs, rows/end.rs end_every): a close that does not count the
\* row not ended leaves no agent of it, where at most one create comes to the
\* slug, to no row that is there, and no activation comes beside it.
THEOREM ReportsCover == Spec /\ Alone => []ReportCoversRuns
<1>1. CoverInv => ReportCoversRuns
  BY DEF CoverInv, CloseIsLast, ReportCoversRuns
<1>2. Init /\ "close" \notin load.ends => Unclosed
  BY DEF Init, Ending, Unclosed
<1>3. RunInv /\ [Next]_vars /\ Unclosed => Unclosed'
  BY UnclosedOn
<1>4. RunInv /\ Unclosed => ReportCoversRuns
  BY DEF RunInv, EndsAreTrue, ReportCoversRuns, Ending, Unclosed
<1>5. Alone => (Lone /\ Sole) \/ "close" \notin load.ends
  BY DEF Alone
<1>6. Spec /\ "close" \notin load.ends => []Unclosed
  BY <1>2, <1>3, RunIsKept, PTL DEF Spec
<1> QED BY <1>1, <1>4, <1>5, <1>6, RunIsKept, CoverIsKept, PTL
=============================================================================
