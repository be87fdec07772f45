------------------------------ MODULE RowRun ------------------------------
(***************************************************************************)
(* One capsule row of a daemon: who may start its supervisor, who restarts *)
(* it, who ends it (src/rust/backend/src/rows).                            *)
(*                                                                         *)
(* The row is an entry of the registry; its supervisor is a detached       *)
(* process that holds the row's fence for its whole life.  These act on    *)
(* it at the same time, and each takes the row's guard before it starts,   *)
(* ends or removes anything:                                               *)
(*                                                                         *)
(*   - workspace.create, which may replace a same-slug row still stopped;  *)
(*   - an activation (ensure_started, or resume_if_absent / resume_all);   *)
(*   - the watchdogs, one task per supervisor this daemon launched or      *)
(*     adopted the exit of;                                                *)
(*   - the ends: workspace.destroy, and the window close's end_row;        *)
(*   - the observer, which watches the supervisor and feeds the cell;      *)
(*   - the shutdown, which closes the run gate and waits for the starts.   *)
(*                                                                         *)
(* A launch happens only under the guard, so one is in flight at a time.   *)
(***************************************************************************)
EXTENDS Integers, FiniteSets

CONSTANTS
    Supervisor,     \* the supervisor processes that may ever be launched
    Dog,            \* the watchdog tasks that may ever be installed
    MaxRestarts,    \* MAX_RESTARTS_PER_WINDOW, the restart budget
    Loads           \* the loads the row may be under, each a LoadType

\* What may come to the row: how the daemon finds it, the ends, activations
\* (each intent) and creates, whether a status query of an answering supervisor
\* may time out, whether the daemon shuts down, and the bounds on creates,
\* activations, begun spawns and supervisors.
LoadType ==
    [boot : {"unknown", "loaded"}, ends : SUBSET {"destroy", "close"},
     intents : SUBSET {"selection", "reconnect", "resume"}, misses : BOOLEAN, closes : BOOLEAN,
     creates : Nat, attaches : Nat, gens : Nat, sups : Nat]

None == "none"
Ending == {"destroy", "close"}

\* Processes are not confused with the row's other actors, or with no one.
ASSUME RowRunAssumption ==
    /\ MaxRestarts \in Nat /\ Loads \subseteq LoadType
    /\ None \notin Supervisor
    /\ Dog \cap ({None, "create", "attach", "observer"} \cup Ending) = {}

VARIABLES
    row,     \* the registered Workspace object, or that none is (yet, or any more)
    guard,   \* who holds the row's guard
    sups,    \* the supervisor processes
    file,    \* whether the fence file exists: a start was made
    asked,   \* the end record on disk: the last run's end was asked for
    launch,  \* the launch in flight, made by the guard's holder
    dogs,    \* the watchdog tasks
    create,  \* the workspace.create in flight (one per slug: claim_create)
    attach,  \* the activation in flight
    ends,    \* the ends in flight
    obs,     \* the row's observer
    gate,    \* the run gate
    load     \* the load of this behaviour, which never changes

vars == <<row, guard, sups, file, asked, launch, dogs, create, attach, ends, obs, gate, load>>

----------------------------------------------------------------------------
Holder  == {None, "create", "attach", "observer"} \cup Ending \cup Dog
Phases  == {"stopped", "starting", "ready", "ended", "terminal", "unreachable"}
Live    == {"coming", "starting", "ready", "ended", "terminal"}
Serving == {"coming", "starting", "ready"}      \* has a run, or is about to

NoRow(on) == [on |-> on, gen |-> 0, watched |-> None, ready |-> FALSE, owner |-> None,
              phase |-> "stopped", sup |-> None]
FreshRow  == NoRow("here")      \* Workspace::meta_only
NoLaunch  == [pc |-> "no", mode |-> None, gen |-> 0, sup |-> None, saw |-> None]
NoDog     == [pc |-> "unborn", leg |-> None, code |-> None, gen |-> 0, never |-> 0]
NoAttach  == [pc |-> "idle", intent |-> None, own |-> None, made |-> {}, n |-> 0]
NoRound   == [pc |-> "idle", gen |-> 0, sup |-> None, code |-> None]
Unwatched == [NoRound EXCEPT !.pc = "none"]

Here      == row.on = "here"
Alive(s)  == sups[s].st \in Live
Born      == {s \in Supervisor : sups[s].st # "unborn"}
FenceHeld == \E s \in Supervisor : Alive(s)
Answering == {s \in Supervisor : sups[s].st \in Live \ {"coming"}}

\* phase_of: the phases one status round trip may read now.
Probes ==
    IF ~file THEN {"stopped"}
    ELSE {sups[s].st : s \in Answering} \cup
         (IF Answering = {} \/ load.misses THEN {"unreachable"} ELSE {})

Resting(p, owned) == p \in {"stopped", "ready", "ended", "terminal"} \/ (p = "unreachable" /\ ~owned)

Init ==
    /\ guard = None /\ launch = NoLaunch
    /\ dogs = [d \in Dog |-> NoDog]
    /\ create = [pc |-> "idle", prior |-> NoRow("absent"), n |-> 0]
    /\ attach = NoAttach
    /\ ends = [e \in Ending |-> [pc |-> "idle", result |-> None, late |-> FALSE]]
    /\ gate = [closing |-> FALSE, inFlight |-> 0, settled |-> None]
    /\ load \in Loads
    /\ \/ \* no such row yet
          /\ load.boot = "unknown"
          /\ row = NoRow("absent") /\ file = FALSE /\ asked = FALSE /\ obs = Unwatched
          /\ sups = [s \in Supervisor |-> [st |-> "unborn", mode |-> None, code |-> None]]
       \/ \* a row loaded at boot, its supervisor alive from an earlier daemon, or gone
          /\ load.boot = "loaded"
          /\ row = FreshRow /\ file = TRUE /\ asked \in BOOLEAN /\ obs = NoRound
          /\ \E s \in Supervisor, st \in {"starting", "gone"} :
                sups = [t \in Supervisor |-> IF t = s
                           THEN [st |-> st, mode |-> "resume", code |-> IF st = "gone" THEN "crash" ELSE None]
                           ELSE [st |-> "unborn", mode |-> None, code |-> None]]

----------------------------------------------------------------------------
(* The supervisor process (src/rust/capsule/src/supervisor).               *)

\* The row socket is bound; the supervisor says starting.
SupAnswers(s) ==
    /\ sups[s].st = "coming"
    /\ sups' = [sups EXCEPT ![s].st = "starting"]
    /\ UNCHANGED <<row, guard, file, asked, launch, dogs, create, attach, ends, obs, gate, load>>

\* drive: a resume over an end that was asked for rests; a start clears a
\* stale record at its run's start.
SupRuns(s) ==
    /\ sups[s].st = "starting"
    /\ LET rests == sups[s].mode = "resume" /\ asked IN
       /\ sups' = [sups EXCEPT ![s].st = IF rests THEN "ended" ELSE "ready"]
       /\ asked' = (asked /\ rests)
    /\ UNCHANGED <<row, guard, file, launch, dogs, create, attach, ends, obs, gate, load>>

\* It can serve no run: it says so, until a stop or its grace ends it.
SupTerminal(s) ==
    /\ sups[s].st \in {"starting", "ready"}
    /\ sups' = [sups EXCEPT ![s].st = "terminal"]
    /\ UNCHANGED <<row, guard, file, asked, launch, dogs, create, attach, ends, obs, gate, load>>

\* It exits unasked: killed, its agent ended or did not start (75, 76), or
\* terminal (69), which a supervisor that never answered may leave with too.
SupDies(s) ==
    /\ Alive(s)
    /\ \E code \in {"crash", "terminal"} :
        /\ code = "terminal" => sups[s].st \in {"coming", "terminal"}
        /\ sups' = [sups EXCEPT ![s].st = "gone", ![s].code = code]
    /\ UNCHANGED <<row, guard, file, asked, launch, dogs, create, attach, ends, obs, gate, load>>

\* supervisor_client::stop, answered and waited out: the exit says whether the
\* supervisor was terminal.
Stopped(s) == [sups EXCEPT ![s].st = "gone", ![s].code = IF sups[s].st = "terminal" THEN "terminal" ELSE "clean"]

----------------------------------------------------------------------------
(* The run gate and the launch all starts share.                           *)

\* Mutant of MayStart: a start is admitted whatever the gate says.
AnyStart == TRUE

\* RunGate::refusal
MayStart == ~gate.closing

\* start_supervisor, or the watchdog's restart, up to begin_spawn: a permit,
\* and a new generation.
Begins(mode) ==
    /\ MayStart
    /\ row.gen < load.gens
    /\ gate' = [gate EXCEPT !.inFlight = @ + 1]
    /\ row' = [row EXCEPT !.gen = @ + 1, !.watched = None, !.ready = FALSE]
    /\ launch' = [NoLaunch EXCEPT !.pc = "begun", !.mode = mode, !.gen = row.gen + 1]

\* Mutant of Fork: the launch does not claim the fence first.
ForkUnfenced ==
    /\ launch.pc = "begun"
    /\ \/ /\ \E s \in Supervisor :
                /\ sups[s].st = "unborn" /\ Cardinality(Born) < load.sups
                /\ guard \in Dog \/ \E d \in Dog : dogs[d].pc = "unborn"
                /\ sups' = [sups EXCEPT ![s] = [st |-> "coming", mode |-> launch.mode, code |-> None]]
                /\ launch' = [launch EXCEPT !.pc = "forked", !.sup = s]
          /\ file' = TRUE
       \/ /\ launch' = [launch EXCEPT !.pc = "failed"]
          /\ file' \in {file, TRUE}
          /\ UNCHANGED sups
    /\ UNCHANGED <<row, guard, asked, dogs, create, attach, ends, obs, gate, load>>

\* spawn_detached_supervisor: the fence is claimed before anything is forked.
Fork ==
    /\ launch.pc = "begun"
    /\ \/ /\ FenceHeld
          /\ launch' = [launch EXCEPT !.pc = "contended"]
          /\ UNCHANGED <<sups, file>>
       \/ /\ ~FenceHeld
          /\ \E s \in Supervisor :
                /\ sups[s].st = "unborn" /\ Cardinality(Born) < load.sups
                /\ guard \in Dog \/ \E d \in Dog : dogs[d].pc = "unborn"
                /\ sups' = [sups EXCEPT ![s] = [st |-> "coming", mode |-> launch.mode, code |-> None]]
                /\ launch' = [launch EXCEPT !.pc = "forked", !.sup = s]
          /\ file' = TRUE
       \/ /\ launch' = [launch EXCEPT !.pc = "failed"]
          /\ file' \in {file, TRUE}
          /\ UNCHANGED sups
    /\ UNCHANGED <<row, guard, asked, dogs, create, attach, ends, obs, gate, load>>

\* settle_after_spawn: the first answer, or the deadline with none.
Settle ==
    /\ launch.pc = "forked"
    /\ \E p \in Probes : launch' = [launch EXCEPT !.pc = "settled", !.saw = p]
    /\ UNCHANGED <<row, guard, sups, file, asked, dogs, create, attach, ends, obs, gate, load>>

\* install_watchdog: the row's owner is announced before it returns.
Installs(d, leg, code, gen) ==
    /\ dogs[d].pc = "unborn"
    /\ dogs' = [dogs EXCEPT ![d] = [pc |-> "waiting", leg |-> leg, code |-> code, gen |-> gen, never |-> 0]]
    /\ row' = [row EXCEPT !.owner = d]

\* spawn_and_watch, from the settle's end.
Watched == \E d \in Dog : Installs(d, launch.sup, None, launch.gen)

\* StartPermit's Drop, for n of them.
Drops(n) == [gate EXCEPT !.inFlight = @ - n]

\* CloseGate and Settled: close_gate_and_settle.
CloseGate ==
    /\ load.closes /\ ~gate.closing
    /\ gate' = [gate EXCEPT !.closing = TRUE]
    /\ UNCHANGED <<row, guard, sups, file, asked, launch, dogs, create, attach, ends, obs, load>>

\* Every permit has dropped, or the deadline passes first.
GateSettles ==
    /\ gate.closing /\ gate.settled = None
    /\ gate' = [gate EXCEPT !.settled = IF gate.inFlight = 0 THEN "yes" ELSE "no"]
    /\ UNCHANGED <<row, guard, sups, file, asked, launch, dogs, create, attach, ends, obs, load>>

----------------------------------------------------------------------------
(* workspace.create, for a name with no row or with a row still stopped.   *)

\* The claim on the slug, and check_create_root's in-use gate.
CreateChecked ==
    /\ create.pc = "idle" /\ create.n < load.creates
    /\ row.on = "absent" \/ (Here /\ row.phase = "stopped")
    /\ create' = [create EXCEPT !.pc = "checked", !.n = @ + 1]
    /\ UNCHANGED <<row, guard, sups, file, asked, launch, dogs, attach, ends, obs, gate, load>>

\* The run gate, before the row exists.
CreateAdmitted ==
    /\ create.pc = "checked"
    /\ IF MayStart
       THEN /\ create' = [create EXCEPT !.pc = "admitted"]
            /\ gate' = [gate EXCEPT !.inFlight = @ + 1]
       ELSE create' = [create EXCEPT !.pc = "idle"] /\ UNCHANGED gate
    /\ UNCHANGED <<row, guard, sups, file, asked, launch, dogs, attach, ends, obs, load>>

\* insert_replacing, or its earlier registration cannot be read.  A row removed
\* since is another row: the new one has an id, a guard, a folder of its own.
CreateInserts ==
    /\ create.pc = "admitted"
    /\ \/ /\ row.on # "removed"
          /\ create' = [create EXCEPT !.pc = "inserted", !.prior = row]
          /\ row' = FreshRow
          /\ UNCHANGED gate
       \/ /\ create' = [create EXCEPT !.pc = "idle"]
          /\ gate' = Drops(1) /\ UNCHANGED row
    /\ UNCHANGED <<guard, sups, file, asked, launch, dogs, attach, ends, obs, load>>

\* Prior::restore: undo_insert, when the registry still holds this create's row.
Restores ==
    IF ~Here THEN UNCHANGED <<row, obs>>
    ELSE IF create.prior.on = "here" THEN row' = create.prior /\ UNCHANGED obs
    ELSE row' = NoRow("removed") /\ obs' = Unwatched

\* Mutant of CreateStarts: the membership is not asked again under the guard.
CreateStartsBlindly ==
    /\ create.pc = "inserted" /\ guard = None
    /\ guard' = "create"
    /\ create' = [create EXCEPT !.pc = "launching"]
    /\ Begins("start")
    /\ UNCHANGED <<sups, file, asked, dogs, attach, ends, obs, load>>

\* Under the guard, the row still registered: start_supervisor.
CreateStarts ==
    /\ create.pc = "inserted" /\ guard = None
    /\ Here
    /\ guard' = "create"
    /\ create' = [create EXCEPT !.pc = "launching"]
    /\ Begins("start")
    /\ UNCHANGED <<sups, file, asked, dogs, attach, ends, obs, load>>

\* Removed meanwhile, refused by the gate, or sot-capsule not found.
CreateRefused ==
    /\ create.pc = "inserted" /\ guard = None
    /\ Restores
    /\ gate' = Drops(1)
    /\ create' = [create EXCEPT !.pc = "idle"]
    /\ UNCHANGED <<guard, sups, file, asked, launch, dogs, attach, ends, load>>

\* The launch's end; a failed one is rolled back, still under the guard.
CreateEnds ==
    /\ create.pc = "launching"
    /\ \/ /\ launch.pc = "settled" /\ Watched
          /\ obs' = IF obs.pc = "none" THEN NoRound ELSE obs
       \/ /\ launch.pc \in {"contended", "failed"} /\ Restores
          /\ UNCHANGED dogs
    /\ gate' = Drops(2)
    /\ launch' = NoLaunch /\ guard' = None
    /\ create' = [create EXCEPT !.pc = "idle"]
    /\ UNCHANGED <<sups, file, asked, attach, ends, load>>

----------------------------------------------------------------------------
(* The watchdog: install_watchdog's task.                                  *)

\* Mutant of Retracts: a return that does not clear.
RetractsNothing(d) == row

\* Mutant of Retracts: a plain clear.
RetractsAny(d) == [row EXCEPT !.owner = None]

\* WatchdogOwnerGuard's drop: compare and clear, on the row registered now.
Retracts(d) == [row EXCEPT !.owner = IF @ = d THEN None ELSE @]

\* The task returns; it lets go of the guard when it holds it.
Returns(d) == dogs' = [dogs EXCEPT ![d].pc = "done"]

\* watch_said_ready
SaidReady(d) == Here /\ row.gen = dogs[d].gen /\ row.ready

\* Mutant of Judged: one restart too many.
JudgedLate(d, ready) ==
    LET never == IF ready THEN 0 ELSE dogs[d].never + 1
        may   == IF ready THEN {"crashed", "spent"}
                 ELSE IF never - 1 <= MaxRestarts THEN {"crashed"} ELSE {"spent"}
    IN {[dogs[d] EXCEPT !.never = never]} \X may

\* Budget::on_exit: the consecutive restarts that never reached ready are
\* counted; those that did are counted within a window of time, so either
\* answer may come.
Judged(d, ready) ==
    LET never == IF ready THEN 0 ELSE dogs[d].never + 1
        may   == IF ready THEN {"crashed", "spent"}
                 ELSE IF never - 1 < MaxRestarts THEN {"crashed"} ELSE {"spent"}
    IN {[dogs[d] EXCEPT !.never = never]} \X may

\* The exit is known: its child's wait returned, or the observer told it.
DogTold(d) ==
    /\ dogs[d].pc = "waiting"
    /\ sups[dogs[d].leg].st = "gone"
    /\ LET code == IF dogs[d].code # None THEN dogs[d].code ELSE sups[dogs[d].leg].code IN
       CASE code = "clean" -> Returns(d) /\ row' = Retracts(d)
         [] code = "terminal" -> dogs' = [dogs EXCEPT ![d].pc = "terminal"] /\ UNCHANGED row
         [] code = "crash" ->
              /\ \E v \in Judged(d, SaidReady(d)) : dogs' = [dogs EXCEPT ![d] = [v[1] EXCEPT !.pc = v[2]]]
              /\ UNCHANGED row
    /\ UNCHANGED <<guard, sups, file, asked, launch, create, attach, ends, obs, gate, load>>

\* Mutant of StillMine: any registered row is the watchdog's.
StillRegistered(d) == Here

\* still_mine
StillMine(d) == Here /\ row.gen = dogs[d].gen

\* apply_phase_observation of what supervisor s says; an unclaimed cell takes
\* its first prover, and terminal latches.
Fed(r, s, p) ==
    LET claimed == IF r.sup = None THEN [r EXCEPT !.sup = s, !.phase = "stopped"] ELSE r IN
    IF claimed.sup # s \/ (claimed.phase = "terminal" /\ p # "terminal") THEN claimed
    ELSE [claimed EXCEPT !.phase = p]

\* latch_terminal_if_nothing_answers
Latched(p) == IF p \in {"unreachable", "stopped"} THEN [row EXCEPT !.phase = "terminal"] ELSE row

\* Exit 69, or a spent budget: the mark, under the guard, at this exit's own
\* generation.  A 69 of a supervisor the watch named is its own word.
DogMarks(d) ==
    /\ dogs[d].pc \in {"terminal", "spent"} /\ guard = None
    /\ \E p \in Probes :
        LET marked == IF ~StillMine(d) THEN row
                      ELSE IF dogs[d].pc = "terminal" /\ row.watched # None
                           THEN Fed(row, row.watched, "terminal")
                      ELSE Latched(p)
        IN row' = [marked EXCEPT !.owner = Retracts(d).owner]
    /\ Returns(d)
    /\ UNCHANGED <<guard, sups, file, asked, launch, create, attach, ends, obs, gate, load>>

\* A crash within the budget: under the guard, still_mine and
\* watchdog_may_act; then the backoff, the guard held.
DogRechecks(d) ==
    /\ dogs[d].pc = "crashed" /\ guard = None
    /\ \E p \in Probes :
        IF StillMine(d) /\ row.phase # "terminal" /\ p = "unreachable"
        THEN guard' = d /\ dogs' = [dogs EXCEPT ![d].pc = "backoff"] /\ UNCHANGED row
        ELSE Returns(d) /\ row' = Retracts(d) /\ UNCHANGED guard
    /\ UNCHANGED <<sups, file, asked, launch, create, attach, ends, obs, gate, load>>

\* Mutant of DogRestarts: the restart is a start.
DogRestartsFresh(d) ==
    /\ dogs[d].pc = "backoff"
    /\ Begins("start")
    /\ dogs' = [dogs EXCEPT ![d].pc = "launching", ![d].gen = row.gen + 1]
    /\ UNCHANGED <<guard, sups, file, asked, create, attach, ends, obs, load>>

\* The backoff is over and the run gate admits the restart.
DogRestarts(d) ==
    /\ dogs[d].pc = "backoff"
    /\ Begins("resume")
    /\ dogs' = [dogs EXCEPT ![d].pc = "launching", ![d].gen = row.gen + 1]
    /\ UNCHANGED <<guard, sups, file, asked, create, attach, ends, obs, load>>

\* Mutant of DogRefused: a refused restart waits for the gate.
DogAwaitsGate(d) ==
    /\ dogs[d].pc = "backoff"
    /\ row.gen = load.gens
    /\ Returns(d) /\ row' = Retracts(d) /\ guard' = None
    /\ UNCHANGED <<sups, file, asked, launch, create, attach, ends, obs, gate, load>>

\* The gate closed during the backoff (or the bound on generations).
DogRefused(d) ==
    /\ dogs[d].pc = "backoff"
    /\ ~MayStart \/ row.gen = load.gens
    /\ Returns(d) /\ row' = Retracts(d) /\ guard' = None
    /\ UNCHANGED <<sups, file, asked, launch, create, attach, ends, obs, gate, load>>

\* The restart's launch ended: its child is the next leg; a claimed fence ends
\* the watchdog; a failed spawn counts as another crash; an unqualified state
\* root is terminal.
DogLaunched(d) ==
    /\ dogs[d].pc = "launching"
    /\ \/ /\ launch.pc = "settled"
          /\ dogs' = [dogs EXCEPT ![d].pc = "waiting", ![d].leg = launch.sup, ![d].code = None]
          /\ UNCHANGED row
       \/ /\ launch.pc = "contended"
          /\ Returns(d) /\ row' = Retracts(d)
       \/ /\ launch.pc = "failed"
          /\ \E v \in Judged(d, SaidReady(d)) : dogs' = [dogs EXCEPT ![d] = [v[1] EXCEPT !.pc = v[2]]]
          /\ UNCHANGED row
       \/ /\ launch.pc = "failed"
          /\ \E p \in Probes : row' = [Latched(p) EXCEPT !.owner = Retracts(d).owner]
          /\ Returns(d)
    /\ gate' = Drops(1)
    /\ launch' = NoLaunch /\ guard' = None
    /\ UNCHANGED <<sups, file, asked, create, attach, ends, obs, load>>

----------------------------------------------------------------------------
(* The observer: one task per row, round after round.                      *)

\* A cell that rests is not moved by what the observer failed to read.
Unlatched(p) == IF row.phase \in {"terminal", "ended"} THEN row ELSE [row EXCEPT !.phase = p]

\* watch_round reads the generation before it dials; with no fence file there
\* is nothing to dial.
RoundBegins ==
    /\ obs.pc = "idle" /\ Here
    /\ IF file THEN obs' = [NoRound EXCEPT !.pc = "dialing", !.gen = row.gen] /\ UNCHANGED row
       ELSE row' = Unlatched("stopped") /\ UNCHANGED obs
    /\ UNCHANGED <<guard, sups, file, asked, launch, dogs, create, attach, ends, gate, load>>

\* A dial that failed; the second in a row makes the row unreachable.
DialFails ==
    /\ obs.pc = "dialing"
    /\ Answering = {} \/ load.misses
    /\ row' \in {row, Unlatched("unreachable")}
    /\ obs' = NoRound
    /\ UNCHANGED <<guard, sups, file, asked, launch, dogs, create, attach, ends, gate, load>>

\* feed_first: record_watch, then the cell; refused once a spawn began a newer
\* generation.  The set of the row it makes.
Recorded(s) ==
    LET epoch == IF row.sup = s THEN row ELSE [row EXCEPT !.sup = s, !.phase = "stopped"]
    IN IF row.gen # obs.gen THEN {}
       ELSE {[Fed(epoch, s, sups[s].st) EXCEPT
                !.watched = s, !.ready = (sups[s].st = "ready" \/ (row.watched = s /\ row.ready))]}

\* The watch's first reply.
DialAnswered(s) ==
    /\ obs.pc = "dialing" /\ s \in Answering
    /\ IF Recorded(s) = {} THEN obs' = NoRound /\ UNCHANGED row
       ELSE obs' = [obs EXCEPT !.pc = "watching", !.sup = s] /\ row' \in Recorded(s)
    /\ UNCHANGED <<guard, sups, file, asked, launch, dogs, create, attach, ends, gate, load>>

\* feed_event: a row.phase, fed to the row registered now.
WatchTells ==
    /\ obs.pc = "watching" /\ obs.sup \in Answering
    /\ LET said == sups[obs.sup].st IN
       row' = [Fed(row, obs.sup, said) EXCEPT !.ready = @ \/ (said = "ready" /\ row.watched = obs.sup)]
    /\ UNCHANGED <<guard, sups, file, asked, launch, dogs, create, attach, ends, obs, gate, load>>

\* exit_is_unhandled
Unhandled == row.gen = obs.gen /\ row.owner = None

\* The watch ended: cut, or with the supervisor's process.  The code it told
\* may not have been heard; nothing restarts after a clean stop's.
WatchEnds ==
    /\ obs.pc = "watching"
    /\ \/ Alive(obs.sup) /\ obs' = NoRound /\ UNCHANGED row
       \/ /\ ~Alive(obs.sup)
          /\ row' = IF row.gen = obs.gen /\ row.phase # "terminal"
                    THEN [row EXCEPT !.phase = "unreachable"] ELSE row
          /\ \E code \in {sups[obs.sup].code, "crash"} :
                obs' = IF code # "clean" /\ Unhandled
                       THEN [obs EXCEPT !.pc = "exited", !.code = code] ELSE NoRound
    /\ UNCHANGED <<guard, sups, file, asked, launch, dogs, create, attach, ends, gate, load>>

\* Mutant of Adopts: the exit is adopted as it was judged before the guard.
AdoptsBlindly ==
    /\ obs.pc = "exited" /\ guard = None
    /\ \E d \in Dog : Installs(d, obs.sup, obs.code, obs.gen)
    /\ obs' = NoRound
    /\ UNCHANGED <<guard, sups, file, asked, launch, create, attach, ends, gate, load>>

\* adopt_exit: under the guard, still unhandled.  The row's recipe may not be
\* built any more, and then nothing restarts it.
Adopts ==
    /\ obs.pc = "exited" /\ guard = None
    /\ \/ Unhandled /\ \E d \in Dog : Installs(d, obs.sup, obs.code, obs.gen)
       \/ UNCHANGED <<row, dogs>>
    /\ obs' = NoRound
    /\ UNCHANGED <<guard, sups, file, asked, launch, create, attach, ends, gate, load>>

----------------------------------------------------------------------------
(* The activation: ensure_started (selection, reconnect), and              *)
(* resume_if_absent and resume_all (resume).                               *)

AttachCalled ==
    /\ attach.pc = "idle" /\ attach.n < load.attaches /\ Here
    /\ \E i \in load.intents :
        attach' = [NoAttach EXCEPT !.pc = "wants", !.intent = i, !.n = attach.n + 1]
    /\ UNCHANGED <<row, guard, sups, file, asked, launch, dogs, create, ends, obs, gate, load>>

\* The activation answers: done, refused or unsettled.
AttachOver == attach' = [NoAttach EXCEPT !.n = attach.n]

\* A pass that decides nothing: the guard is let go, and after the last pass
\* the activation fails.
AttachWaits ==
    /\ guard' = None
    /\ attach' = [attach EXCEPT !.pc = "wants"] \/ AttachOver

\* resume_locked_spawned: only an unreachable lane of a row not latched
\* terminal and with no watchdog is resumed.
MayResume(p) == p = "unreachable" /\ row.phase # "terminal" /\ row.owner = None

\* An unreachable row is left to its watchdog.
Defers == row.owner # None /\ row.phase # "terminal"

\* The mode a pass that read phase p may start the row in.
Wants(p) ==
    IF p = "stopped" /\ attach.intent = "selection" THEN {"start"}
    ELSE IF MayResume(p) THEN {"resume"} ELSE {}

\* Mutant of Fresh: the resident authority is reset whoever launched it.
FreshAlways == TRUE

\* already_fresh: an earlier pass of this activation launched who answers now.
Fresh == attach.own \in Answering

\* ensure_started_locked (or resume_locked), up to its first launch, from one
\* probe under the guard; the launch may be refused before it begins.
AttachLooks ==
    /\ attach.pc = "wants" /\ guard = None
    /\ UNCHANGED <<sups, file, asked, dogs, create, ends, obs, load>>
    /\ \/ ~Here /\ AttachOver /\ UNCHANGED <<row, guard, launch, gate>>
       \/ \E p \in Probes :
           /\ Here
           /\ \/ /\ attach.intent # "resume" /\ ~Resting(p, row.owner # None)
                 /\ AttachWaits /\ UNCHANGED <<row, launch, gate>>
              \/ /\ attach.intent = "resume" \/ Resting(p, row.owner # None)
                 /\ \/ /\ Wants(p) # {}
                       /\ guard' = "attach"
                       /\ attach' = [attach EXCEPT !.pc = "launching"]
                       /\ \E m \in Wants(p) : Begins(m)
                    \/ /\ p # "ended" \/ attach.intent # "selection"
                       /\ AttachOver /\ UNCHANGED <<row, guard, launch, gate>>
                    \/ /\ p = "ended" /\ attach.intent = "selection"
                       /\ guard' = "attach"
                       /\ attach' = [attach EXCEPT !.pc = IF Fresh THEN "fresh" ELSE "stale"]
                       /\ UNCHANGED <<row, launch, gate>>

\* The first launch's end.
AttachLaunched ==
    /\ attach.pc = "launching"
    /\ launch' = NoLaunch /\ gate' = Drops(1)
    /\ \/ launch.pc = "failed" /\ AttachOver /\ guard' = None /\ UNCHANGED <<row, dogs>>
       \/ launch.pc = "contended" /\ AttachWaits /\ UNCHANGED <<row, dogs>>
       \/ /\ launch.pc = "settled" /\ Watched
          /\ \/ attach.intent = "resume" /\ AttachOver /\ guard' = None
             \/ /\ attach.intent # "resume" /\ ~Resting(launch.saw, TRUE)
                /\ AttachWaits
             \/ /\ attach.intent # "resume" /\ Resting(launch.saw, TRUE)
                /\ IF launch.saw = "ended" /\ attach.intent = "selection"
                   THEN attach' = [attach EXCEPT !.pc = "stale"] /\ UNCHANGED guard
                   ELSE AttachOver /\ guard' = None
    /\ UNCHANGED <<sups, file, asked, create, ends, obs, load>>

\* The retire: a confirmed stop of the resting supervisor, or nothing is
\* replaced.
AttachStops ==
    /\ attach.pc = "stale"
    /\ \/ /\ \E s \in Answering : sups' = Stopped(s)
          /\ attach' = [attach EXCEPT !.pc = "retired"] /\ UNCHANGED guard
       \/ AttachOver /\ guard' = None /\ UNCHANGED sups
    /\ UNCHANGED <<row, file, asked, launch, dogs, create, ends, obs, gate, load>>

\* And the supervisor that replaces it; it may be refused.
AttachReplaces ==
    /\ attach.pc = "retired"
    /\ \/ /\ attach' = [attach EXCEPT !.pc = "replacing"]
          /\ Begins("resume") /\ UNCHANGED guard
       \/ AttachOver /\ guard' = None /\ UNCHANGED <<row, launch, gate>>
    /\ UNCHANGED <<sups, file, asked, dogs, create, ends, obs, load>>

\* own_spawn takes whoever answers now, or no one.
AttachReplaced ==
    /\ attach.pc = "replacing"
    /\ launch' = NoLaunch /\ gate' = Drops(1)
    /\ \/ launch.pc = "failed" /\ AttachOver /\ guard' = None /\ UNCHANGED <<row, dogs>>
       \/ launch.pc = "contended" /\ AttachWaits /\ UNCHANGED <<row, dogs>>
       \/ /\ launch.pc = "settled" /\ Watched
          /\ \E own \in Answering \cup (IF Answering = {} \/ load.misses THEN {None} ELSE {}) :
              LET mine == [attach EXCEPT !.own = own, !.made = @ \cup {launch.sup}] IN
              IF launch.saw = "ended"
              THEN attach' = [mine EXCEPT !.pc = "fresh"] /\ UNCHANGED guard
              ELSE /\ guard' = None
                   /\ \/ ~Resting(launch.saw, TRUE) /\ attach' = [mine EXCEPT !.pc = "wants"]
                      \/ AttachOver
    /\ UNCHANGED <<sups, file, asked, create, ends, obs, load>>

\* Mutant of ResetBegins: the reset takes no permit.
ResetBeginsFreely ==
    /\ attach.pc = "fresh"
    /\ attach' = [attach EXCEPT !.pc = "resetting"] /\ UNCHANGED <<guard, gate>>
    /\ UNCHANGED <<row, sups, file, asked, launch, dogs, create, ends, obs, load>>

\* reset_run: a run start, so it passes the gate first.
ResetBegins ==
    /\ attach.pc = "fresh"
    /\ IF MayStart
       THEN /\ attach' = [attach EXCEPT !.pc = "resetting"] /\ UNCHANGED guard
            /\ gate' = [gate EXCEPT !.inFlight = @ + 1]
       ELSE AttachOver /\ guard' = None /\ UNCHANGED gate
    /\ UNCHANGED <<row, sups, file, asked, launch, dogs, create, ends, obs, load>>

\* The supervisor that answers begins another run: its end record asks for no
\* end before it answers.  Or the reset failed.
Resets ==
    /\ attach.pc = "resetting"
    /\ \/ \E s \in Answering :
            /\ sups[s].st = "ended"
            /\ sups' = [sups EXCEPT ![s].st = "starting"]
            /\ asked' = FALSE
       \/ UNCHANGED <<sups, asked>>
    /\ gate' = Drops(1)
    /\ AttachOver /\ guard' = None
    /\ UNCHANGED <<row, file, launch, dogs, create, ends, obs, load>>

----------------------------------------------------------------------------
(* The ends: workspace.destroy, and the close's end_row, which the         *)
(* shutdown's end_every runs by the rows deadline.                         *)

Told(e, result) == [ends[e] EXCEPT !.pc = "done", !.result = IF @ = None THEN result ELSE @]

\* destroy is called; end_every lists the registered rows, the gate behind it.
EndCalled(e) ==
    /\ ends[e].pc = "idle" /\ e \in load.ends
    /\ e = "close" => gate.settled # None
    /\ e = "destroy" => Here
    /\ ends' = [ends EXCEPT ![e] = IF Here THEN [@ EXCEPT !.pc = "wants"] ELSE Told(e, "unlisted")]
    /\ UNCHANGED <<row, guard, sups, file, asked, launch, dogs, create, attach, obs, gate, load>>

\* An end not confirmed keeps the row; the close tries again.
Keeps(e) ==
    /\ guard' = None
    /\ ends' = [ends EXCEPT ![e] =
                    IF e = "close" /\ ~ends[e].late THEN [@ EXCEPT !.pc = "wants"] ELSE Told(e, "kept")]

\* destroy_capsule_workspace: the guard, the membership, and the destroy's
\* resume of an unreachable row first, whose refusal end_run then judges.
EndTakesGuard(e) ==
    /\ ends[e].pc = "wants" /\ guard = None
    /\ UNCHANGED <<sups, file, asked, dogs, create, attach, obs, load>>
    /\ \/ /\ ~Here
          /\ ends' = [ends EXCEPT ![e] = Told(e, "gone")]
          /\ UNCHANGED <<row, guard, launch, gate>>
       \/ /\ Here
          /\ e = "close" \/ Probes # {"unreachable"} \/ ~Defers
          /\ guard' = e
          /\ ends' = [ends EXCEPT ![e].pc = "reading"]
          /\ UNCHANGED <<row, launch, gate>>
       \/ /\ Here /\ e = "destroy"
          /\ \E p \in Probes : MayResume(p)
          /\ guard' = e
          /\ ends' = [ends EXCEPT ![e].pc = "launching"]
          /\ Begins("resume")
       \/ \* supervisor_starting: its watchdog restarts an unreachable row
          /\ Here /\ e = "destroy"
          /\ "unreachable" \in Probes /\ Defers
          /\ Keeps(e)
          /\ UNCHANGED <<row, launch, gate>>

\* The resume settled, or failed; one that did not answer in time is kept.
EndLaunched(e) ==
    /\ ends[e].pc = "launching"
    /\ launch' = NoLaunch /\ gate' = Drops(1)
    /\ \/ /\ launch.pc \in {"contended", "failed"}
          /\ ends' = [ends EXCEPT ![e].pc = "reading"]
          /\ UNCHANGED <<row, guard, dogs>>
       \/ /\ launch.pc = "settled" /\ Watched
          /\ IF launch.saw = "unreachable" THEN Keeps(e)
             ELSE ends' = [ends EXCEPT ![e].pc = "reading"] /\ UNCHANGED guard
    /\ UNCHANGED <<sups, file, asked, create, attach, obs, load>>

\* end_run's first answer: who is asked to end, who is only stopped (a starting
\* one when its settle bound passes; one that stops answering meanwhile keeps the
\* row), and what must be proven absent.
EndReads(e) ==
    /\ ends[e].pc = "reading"
    /\ \/ /\ \E p \in Probes :
              ends' = [ends EXCEPT ![e].pc =
                          CASE p \in {"stopped", "unreachable"} -> "proving"
                            [] p = "ready" -> "asking"
                            [] p = "ended" -> "stopping"
                            [] p \in {"starting", "terminal"} -> "halting"]
          /\ UNCHANGED guard
       \/ "starting" \in Probes /\ Keeps(e)
    /\ UNCHANGED <<row, sups, file, asked, launch, dogs, create, attach, obs, gate, load>>

\* A confirmed end: the comm prune comes next, unless the attempt was dropped at
\* the deadline, which lets its guard go.
Confirms(e) ==
    IF ends[e].late THEN guard' = None /\ ends' = [ends EXCEPT ![e] = Told(e, "not")]
    ELSE ends' = [ends EXCEPT ![e].pc = "ended"] /\ UNCHANGED guard

\* supervisor_client::end_run: the run ends and its record says it was asked.
\* Refused, failed, or no answer that it ended: kept, and it may have.
EndAsks(e) ==
    /\ ends[e].pc = "asking"
    /\ \/ /\ \E s \in Supervisor :
                /\ sups[s].st = "ready"
                /\ sups' = [sups EXCEPT ![s].st = "ended"]
          /\ asked' = TRUE
          /\ \/ ends' = [ends EXCEPT ![e].pc = "stopping"] /\ UNCHANGED guard
             \/ Keeps(e)
       \/ Keeps(e) /\ UNCHANGED <<sups, asked>>
    /\ UNCHANGED <<row, file, launch, dogs, create, attach, obs, gate, load>>

\* stop_and_end_scope: a stop that fails is only logged; a scope that keeps
\* processes keeps the row.
EndStops(e) ==
    /\ ends[e].pc \in {"stopping", "halting"}
    /\ sups' \in {sups} \cup {Stopped(s) : s \in Answering}
    /\ \/ ends[e].pc = "stopping" /\ Confirms(e)
       \/ ends[e].pc = "halting" /\ ends' = [ends EXCEPT ![e].pc = "proving"] /\ UNCHANGED guard
       \/ Keeps(e)
    /\ UNCHANGED <<row, file, asked, launch, dogs, create, attach, obs, gate, load>>

\* Mutant of EndProves: what does not answer is taken for absent.
EndProvesSilence(e) ==
    /\ ends[e].pc = "proving" /\ Confirms(e)
    /\ UNCHANGED <<row, sups, file, asked, launch, dogs, create, attach, obs, gate, load>>

\* absence_proof: never started, or the fence is free.  A row socket that could
\* not be judged proves nothing.
EndProves(e) ==
    /\ ends[e].pc = "proving"
    /\ \/ (~file \/ ~FenceHeld) /\ Confirms(e)
       \/ file /\ Keeps(e)
    /\ UNCHANGED <<row, sups, file, asked, launch, dogs, create, attach, obs, gate, load>>

\* Mutant of EndDeadline: asked between attempts only.
EndDeadlineBetween ==
    /\ ends["close"].pc = "wants" /\ ends["close"].result = None
    /\ ends' = [ends EXCEPT !["close"] = Told("close", "not")]
    /\ UNCHANGED <<row, guard, sups, file, asked, launch, dogs, create, attach, obs, gate, load>>

\* end_every's deadline: the end is counted not ended.  What the attempt started
\* runs on unwaited; between attempts nothing does.
EndDeadline ==
    /\ ends["close"].pc \notin {"idle", "done"} /\ ends["close"].result = None
    /\ \/ /\ ends["close"].pc = "wants"
          /\ ends' = [ends EXCEPT !["close"] = Told("close", "not")]
       \/ ends' = [ends EXCEPT !["close"] = [@ EXCEPT !.result = "not", !.late = TRUE]]
    /\ UNCHANGED <<row, guard, sups, file, asked, launch, dogs, create, attach, obs, gate, load>>

\* A prune still running at the deadline lets the guard go; the row stays
\* registered.
EndLeavesRow ==
    /\ ends["close"].pc = "ended" /\ ends["close"].late
    /\ guard' = None
    /\ ends' = [ends EXCEPT !["close"] = Told("close", "not")]
    /\ UNCHANGED <<row, sups, file, asked, launch, dogs, create, attach, obs, gate, load>>

\* The prune is over.
EndPruned(e) ==
    /\ ends[e].pc = "ended"
    /\ ends' = [ends EXCEPT ![e].pc = "pruned"]
    /\ UNCHANGED <<row, guard, sups, file, asked, launch, dogs, create, attach, obs, gate, load>>

\* Mutant of EndRemoves: the guard is let go before the row is unregistered.
EndLetsGoFirst(e) ==
    /\ ends[e].pc = "pruned"
    /\ \/ /\ guard = e
          /\ guard' = None /\ UNCHANGED <<row, ends, obs>>
       \/ /\ guard # e
          /\ row' = NoRow("removed") /\ obs' = Unwatched
          /\ ends' = [ends EXCEPT ![e] = Told(e, "row")]
          /\ UNCHANGED guard
    /\ UNCHANGED <<sups, file, asked, launch, dogs, create, attach, gate, load>>

\* The registration's files go (or the close counts the row to be forgotten),
\* remove_by_id, and only then the guard.
EndRemoves(e) ==
    /\ ends[e].pc = "pruned"
    /\ row' = NoRow("removed") /\ obs' = Unwatched
    /\ guard' = None
    /\ \E result \in {"row"} \cup (IF e = "close" THEN {"forget"} ELSE {}) :
        ends' = [ends EXCEPT ![e] = Told(e, result)]
    /\ UNCHANGED <<sups, file, asked, launch, dogs, create, attach, gate, load>>

----------------------------------------------------------------------------
Next ==
    \/ \E s \in Supervisor : SupAnswers(s) \/ SupRuns(s) \/ SupTerminal(s) \/ SupDies(s) \/ DialAnswered(s)
    \/ Fork \/ Settle \/ CloseGate \/ GateSettles
    \/ CreateChecked \/ CreateAdmitted \/ CreateInserts \/ CreateStarts \/ CreateRefused \/ CreateEnds
    \/ \E d \in Dog : DogTold(d) \/ DogMarks(d) \/ DogRechecks(d) \/ DogRestarts(d) \/ DogRefused(d) \/ DogLaunched(d)
    \/ RoundBegins \/ DialFails \/ WatchTells \/ WatchEnds \/ Adopts
    \/ AttachCalled \/ AttachLooks \/ AttachLaunched \/ AttachStops \/ AttachReplaces \/ AttachReplaced
    \/ ResetBegins \/ Resets
    \/ \E e \in Ending : \/ EndCalled(e) \/ EndTakesGuard(e) \/ EndLaunched(e) \/ EndReads(e) \/ EndAsks(e)
                         \/ EndStops(e) \/ EndProves(e) \/ EndPruned(e) \/ EndRemoves(e)
    \/ EndDeadline \/ EndLeavesRow

Spec == Init /\ [][Next]_vars

\* A task that holds the guard, or waits for no one, goes on; the guard is a
\* fair mutex, so a task that waits for it gets it; a deadline passes.
FairSpec ==
    /\ Spec
    /\ WF_vars(Fork) /\ WF_vars(Settle) /\ WF_vars(GateSettles)
    /\ WF_vars(CreateAdmitted) /\ WF_vars(CreateInserts) /\ WF_vars(CreateEnds)
    /\ WF_vars(AttachLaunched) /\ WF_vars(AttachStops) /\ WF_vars(AttachReplaces)
    /\ WF_vars(AttachReplaced) /\ WF_vars(ResetBegins) /\ WF_vars(Resets)
    /\ SF_vars(CreateStarts \/ CreateRefused) /\ SF_vars(Adopts) /\ SF_vars(AttachLooks)
    /\ \A d \in Dog :
        /\ WF_vars(DogTold(d)) /\ WF_vars(DogRestarts(d)) /\ WF_vars(DogRefused(d)) /\ WF_vars(DogLaunched(d))
        /\ SF_vars(DogMarks(d) \/ DogRechecks(d))
    /\ \A e \in Ending :
        /\ WF_vars(EndLaunched(e)) /\ WF_vars(EndReads(e)) /\ WF_vars(EndAsks(e)) /\ WF_vars(EndStops(e))
        /\ WF_vars(EndProves(e)) /\ WF_vars(EndPruned(e) \/ EndLeavesRow) /\ WF_vars(EndRemoves(e))
        /\ SF_vars(EndTakesGuard(e))
    /\ WF_vars(EndDeadline)

----------------------------------------------------------------------------
RowType ==
    [on : {"absent", "here", "removed"}, gen : Nat, watched : Supervisor \cup {None}, ready : BOOLEAN,
     owner : Dog \cup {None}, phase : Phases, sup : Supervisor \cup {None}]
SupType == [st : Live \cup {"unborn", "gone"}, mode : {None, "start", "resume"},
            code : {None, "clean", "crash", "terminal"}]
LaunchType ==
    [pc : {"no", "begun", "forked", "settled", "contended", "failed"}, mode : {None, "start", "resume"},
     gen : Nat, sup : Supervisor \cup {None}, saw : Phases \cup {None}]
DogType ==
    [pc : {"unborn", "waiting", "terminal", "crashed", "spent", "backoff", "launching", "done"},
     leg : Supervisor \cup {None}, code : {None, "crash", "terminal"}, gen : Nat,
     never : 0..(MaxRestarts + 1)]
CreateType ==
    [pc : {"idle", "checked", "admitted", "inserted", "launching"},
     prior : {r \in RowType : r.on # "removed"}, n : Nat]
AttachType ==
    [pc : {"idle", "wants", "launching", "stale", "retired", "replacing", "fresh", "resetting"},
     intent : {None, "selection", "reconnect", "resume"}, own : Supervisor \cup {None},
     made : SUBSET Supervisor, n : Nat]
EndType ==
    [pc : {"idle", "wants", "launching", "reading", "asking", "stopping", "halting", "proving", "ended",
           "pruned", "done"},
     result : {None, "unlisted", "kept", "gone", "not", "row", "forget"}, late : BOOLEAN]
ObsType == [pc : {"none", "idle", "dialing", "watching", "exited"}, gen : Nat,
            sup : Supervisor \cup {None}, code : {None, "crash", "terminal"}]
GateType == [closing : BOOLEAN, inFlight : 0..3, settled : {None, "yes", "no"}]

TypeOK ==
    /\ row \in RowType /\ guard \in Holder /\ sups \in [Supervisor -> SupType]
    /\ file \in BOOLEAN /\ asked \in BOOLEAN
    /\ launch \in LaunchType /\ dogs \in [Dog -> DogType] /\ create \in CreateType
    /\ attach \in AttachType /\ ends \in [Ending -> EndType] /\ obs \in ObsType
    /\ gate \in GateType /\ load \in Loads

Serves == \E s \in Supervisor : sups[s].st \in Serving

\* An end that removes a row leaves no agent behind it, whatever started the
\* row meanwhile (rows/run/end.rs, rows/end.rs).
EndedRunsNoAgent == (\E e \in Ending : ends[e].result \in {"row", "forget"}) => ~Serves

\* A close that does not count the row not ended has ended it: its report hides
\* no agent, of a row it did not list either (shutdown.rs, end_every).
ReportCoversRuns == ends["close"].result \notin {None, "not"} => ~Serves

\* Once the gate has settled no supervisor is born and no run is reset
\* (close_gate_and_settle's true).
SettledStartsNothing ==
    [][gate.settled = "yes" =>
        \A s \in Supervisor :
            /\ sups'[s].st = "coming" => sups[s].st = "coming"
            /\ sups'[s].st = "starting" => sups[s].st # "ended"]_vars

\* A row is marked terminal only when no supervisor serves it, or is about to
\* (watchdog.rs still_mine and latch, workspace.rs record_watch).
TerminalIsTrue == [][row.phase # "terminal" /\ row'.phase = "terminal" => ~Serves]_vars

\* The row's owner is a watchdog that still runs (rows/mod.rs watchdog_owner):
\* a token left by one that returned would keep every resume away for good.
OwnerIsALiveWatchdog == row.owner # None => dogs[row.owner].pc \notin {"unborn", "done"}

\* The live child of a watchdog is owned: no activation restarts a row in front
\* of its watchdog's backoff and budget.
ChildIsOwned ==
    \A d \in Dog : Here /\ dogs[d].pc = "waiting" /\ Alive(dogs[d].leg) => row.owner = d

\* A row's restarts have one owner, and it is there: whichever watchdogs return, are
\* superseded or announce themselves meanwhile, nobody defers to one that is gone.
RestartsAreOwned == OwnerIsALiveWatchdog /\ ChildIsOwned

\* A run is reset only on an authority this activation launched: never on the
\* resident one it found (activation.rs own_spawn).
ResetsItsOwn ==
    [][attach.pc = "resetting" =>
        \A s \in Supervisor : sups[s].st = "ended" /\ sups'[s].st = "starting" => s \in attach.made]_vars

\* Only a selection's reset, or the start of a new create, takes back an end
\* that was asked for: no restart, resume or reconnect runs the agent again
\* (supervisor drive, start_mode).
OnlyAResetUnasks ==
    [][asked /\ ~asked' =>
        \/ attach.pc = "resetting" /\ attach.intent = "selection"
        \/ create.n > 0 /\ \E s \in Supervisor : sups[s].mode = "start" /\ sups'[s].st # sups[s].st]_vars

\* Everyone lets the row's guard go.
GuardComesFree == []<>(guard = None)

\* A crash, a spent budget and an exit 69 are acted on.
CrashIsHandled ==
    \A d \in Dog : dogs[d].pc \in {"crashed", "spent", "terminal"} ~> dogs[d].pc \in {"waiting", "done"}

\* The close reports, and a destroy answers.
EndsAnswer == \A e \in Ending : ends[e].pc = "wants" ~> ends[e].result # None

\* start.rs:96-97: an Err of start_supervisor means no supervisor is running;
\* so a create that rolls back leaves none behind.
UnregisteredRunsNoAgent == row.on = "removed" => ~Serves

\* observer.rs:60-61: an exit the observer leaves alone was handled by the
\* watchdog of a spawn begun since.
ExitLeftHasAWatchdog ==
    [][obs.pc = "watching" /\ obs'.pc = "idle" /\ ~Alive(obs.sup) /\ Here /\ guard = None
        => sups[obs.sup].code = "clean" \/ \E d \in Dog : dogs[d].pc # "unborn"]_vars
=============================================================================
