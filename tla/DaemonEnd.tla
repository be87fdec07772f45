----------------------------- MODULE DaemonEnd -----------------------------
(***************************************************************************)
(* The end of the daemon's process on Linux: the terminal and its claim    *)
(* (src/rust/backend/src/lifecycle/shutdown.rs), the retirement of the     *)
(* project chat, the child signal with the owners of the contained         *)
(* children (src/rust/containment/src/signal.rs), and the lifetime guard.  *)
(*                                                                         *)
(* These act at the same time:                                             *)
(*                                                                         *)
(*   - a caller of Signal::spawn or spawn_std, which owns its child until  *)
(*     it waits for it, kills it or drops it;                              *)
(*   - the callers of exit: the first claims it and the others park;       *)
(*   - the retire thread and the chat's own start and stop;                *)
(*   - the fire thread, which asks every registered tree to end;           *)
(*   - the kernel: processes fork, exit, and ignore nothing but take time; *)
(*   - the guard, the daemon's parent and the reaper of its orphans.       *)
(*                                                                         *)
(* A leader's pid is its group's number and stays its own until it is      *)
(* reaped; a request made after that may reach a stranger.                 *)
(***************************************************************************)
EXTENDS Integers, FiniteSets

CONSTANTS
    Child,      \* the contained children the daemon may start
    Blocking,   \* those started by spawn_std; the others by spawn
    Caller,     \* the callers of exit, each with its exit code
    Loads       \* the loads the daemon may be under, each a LoadType

\* What may come: the children started, those that may start a process that
\* leaves their group, how many requests the kernel refuses, who may exit, whether the
\* daemon itself is killed, whether it runs the chat, and whether what is killed
\* ends before the guard's DRAIN_BOUND.
LoadType == [children : SUBSET Child, kids : SUBSET Child, fails : Nat,
             callers : SUBSET Caller, crash : BOOLEAN, chat : BOOLEAN, prompt : BOOLEAN]

ASSUME DaemonEndAssumption ==
    /\ Blocking \subseteq Child
    /\ Loads \subseteq LoadType
    /\ "none" \notin Child /\ {"none", "up", "killed"} \cap Caller = {}

None == "none"

VARIABLES
    load,    \* the load of this behaviour, which never changes
    fired,   \* Signal::fired: the fire is published
    shut,    \* Signal::trees is None: nothing may be registered any more
    trees,   \* the children whose tree is registered
    mutex,   \* the creation that holds the registry's mutex
    own,     \* where each child's owner is
    lead,    \* each child's leader process: its state, and whether it has a SIGKILL
    kid,     \* a descendant of the leader that left the leader's group
    fails,   \* the requests the kernel has refused
    stray,   \* whether a request went to the pid of a reaped leader
    term,    \* the terminal: the claim, and where the claimer is
    fire,    \* the fire's thread
    retire,  \* the participants' registry, and the retire thread
    chat,    \* the project chat
    daemon,  \* the daemon's process: up, or how it ended
    guard    \* the lifetime guard

signal == <<fired, shut, trees, mutex>>
procs  == <<lead, kid>>
asks   == <<fails, stray>>
ends   == <<term, fire>>
retires == <<retire, chat>>
vars   == <<load, signal, own, procs, asks, ends, retires, daemon, guard>>

----------------------------------------------------------------------------
Outcome == {"done", "half", "none"}     \* both requests delivered, the leader's only, neither
LetGo   == {"letgo", "orphaned", "left"}
OwnerPc == {"idle", "creating", "created", "owning", "seen", "reaping", "done", "refused",
            "killing", "lastreap", "dropping", "removing"} \cup LetGo

TypeOK ==
    /\ load \in Loads
    /\ fired \in BOOLEAN /\ shut \in BOOLEAN /\ trees \in SUBSET Child
    /\ mutex \in Child \cup {None}
    /\ own \in [Child -> OwnerPc]
    /\ lead \in [Child -> [st : {"unborn", "running", "zombie", "reaped"}, asked : BOOLEAN]]
    /\ kid \in [Child -> {"none", "alive", "killed", "zombie", "gone"}]
    /\ fails \in Nat /\ stray \in BOOLEAN
    /\ term \in [by : Caller \cup {None},
                 pc : {"none", "claimed", "retiring", "firing", "waiting", "exit"}]
    /\ fire \in {"none", "started", "published", "ok", "failed"}
    /\ retire \in [taken : BOOLEAN, pc : {"none", "asking", "waiting", "done"}]
    /\ chat \in [begin : {"none", "locked", "registered", "done"}, listed : BOOLEAN,
                 phase : {"off", "starting", "running", "stopping"},
                 task : {"none", "starting", "made", "failed", "ended"}, aborted : BOOLEAN,
                 service : {"none", "up", "stopping", "gone"}]
    /\ daemon \in Caller \cup {"up", "killed"}
    /\ guard \in [pc : {"watching", "draining", "listing", "killing", "gone"},
                  leads : SUBSET Child, kids : SUBSET Child, late : BOOLEAN]

Init ==
    /\ load \in Loads
    /\ fired = FALSE /\ shut = FALSE /\ trees = {} /\ mutex = None
    /\ own = [c \in Child |-> "idle"]
    /\ lead = [c \in Child |-> [st |-> "unborn", asked |-> FALSE]]
    /\ kid = [c \in Child |-> "none"]
    /\ fails = 0 /\ stray = FALSE
    /\ term = [by |-> None, pc |-> "none"] /\ fire = "none"
    /\ retire = [taken |-> FALSE, pc |-> "none"]
    /\ chat = [begin |-> "none", listed |-> FALSE, phase |-> "off", task |-> "none",
               aborted |-> FALSE, service |-> "none"]
    /\ daemon = "up"
    /\ guard = [pc |-> "watching", leads |-> {}, kids |-> {}, late |-> FALSE]

Up == daemon = "up"

----------------------------------------------------------------------------
\* Requests and the registry.

Delivered(l, out) ==
    IF out # "none" /\ l.st = "running" THEN [l EXCEPT !.asked = TRUE] ELSE l

\* Tree::terminate of each tree of C: a SIGKILL to the group and one to its leader,
\* each refused or not.  The pid of a reaped leader may be a stranger's.
Request(C, out) ==
    /\ lead' = [c \in Child |-> IF c \in C THEN Delivered(lead[c], out[c]) ELSE lead[c]]
    /\ fails' = fails + Cardinality({c \in C : out[c] # "done"})
    /\ fails' <= load.fails
    /\ stray' = (stray \/ \E c \in C : lead[c].st = "reaped")

NoRequest == UNCHANGED <<lead, asks>>

Goes(c, pc) == own' = [own EXCEPT ![c] = pc]

\* Mutant: the mutex is let go before the child is created.
ReserveBriefly(c) ==
    /\ Up /\ c \in load.children /\ own[c] = "idle" /\ mutex = None
    /\ Goes(c, IF fired \/ shut THEN "refused" ELSE "creating")
    /\ UNCHANGED <<load, signal, procs, asks, ends, retires, daemon, guard>>

\* Signal::reserve: refused once the fire is published, or the registry is shut;
\* otherwise the mutex is held until the child is registered.
Reserve(c) ==
    /\ Up /\ c \in load.children /\ own[c] = "idle" /\ mutex = None
    /\ IF fired \/ shut THEN Goes(c, "refused") /\ UNCHANGED mutex
                        ELSE Goes(c, "creating") /\ mutex' = c
    /\ UNCHANGED <<load, fired, shut, trees, procs, asks, ends, retires, daemon, guard>>

\* The OS creates the child, or refuses to; it may also never answer.
Create(c) ==
    /\ Up /\ own[c] = "creating"
    /\ \/ /\ Goes(c, "created")
          /\ lead' = [lead EXCEPT ![c].st = "running"]
          /\ UNCHANGED mutex
       \/ Goes(c, "refused") /\ mutex' = None /\ UNCHANGED lead
    /\ UNCHANGED <<load, fired, shut, trees, kid, asks, ends, retires, daemon, guard>>

\* adopt and Held::fill, then the mutex is let go.
Fill(c) ==
    /\ Up /\ own[c] = "created"
    /\ trees' = trees \cup {c} /\ mutex' = None /\ Goes(c, "owning")
    /\ UNCHANGED <<load, fired, shut, procs, asks, ends, retires, daemon, guard>>

\* Held::release, with what its caller does after a request done (ok) and after
\* one refused, which leaves the tree registered (bad).
Release(c, ok, bad) ==
    /\ mutex = None
    /\ IF c \in trees
       THEN \E out \in Outcome :
              /\ Request({c}, [x \in {c} |-> out])
              /\ IF out = "done" THEN trees' = trees \ {c} /\ Goes(c, ok)
                                 ELSE Goes(c, bad) /\ UNCHANGED trees
       ELSE Goes(c, ok) /\ NoRequest /\ UNCHANGED trees
    /\ UNCHANGED <<load, fired, shut, mutex, kid, ends, retires, daemon, guard>>

\* Signal::fire on a thread of its own: published first, without the mutex, then
\* every tree is asked under it.  What was refused stays registered.
Publish ==
    /\ Up /\ fire = "started" /\ fire' = "published" /\ fired' = TRUE
    /\ UNCHANGED <<load, shut, trees, mutex, own, procs, asks, term, retires, daemon, guard>>

FireTrees ==
    /\ Up /\ fire = "published" /\ mutex = None
    /\ \E out \in [trees -> Outcome] :
         /\ Request(trees, out)
         /\ trees' = {c \in trees : out[c] # "done"}
    /\ shut' = (trees' = {})
    /\ fire' = IF trees' = {} THEN "ok" ELSE "failed"
    /\ UNCHANGED <<load, fired, mutex, own, kid, term, retires, daemon, guard>>

----------------------------------------------------------------------------
\* The owner of one child.

\* wait and wait_within observe the exit unreaped.
SeeExit(c) ==
    /\ Up /\ own[c] = "owning" /\ lead[c].st = "zombie" /\ Goes(c, "seen")
    /\ UNCHANGED <<load, signal, procs, asks, ends, retires, daemon, guard>>

\* Mutant: a refused request is no reason not to reap.
AskAnyway(c) == Up /\ own[c] \in {"seen", "owning"} /\ Release(c, "reaping", "reaping")

\* wait after the exit; kill, and wait_within at its bound, before it.  A failed
\* request is returned to the owner, who may try again.
Ask(c) == Up /\ own[c] \in {"seen", "owning"} /\ Release(c, "reaping", "owning")

Reaped(c) == lead[c].st = "zombie" /\ lead' = [lead EXCEPT ![c].st = "reaped"]

\* The reap that follows a request that was made: by the owner, by the drop of a
\* blocking one, or by Tokio once the child is its orphan.
Reap(c) ==
    /\ Up /\ own[c] \in {"reaping", "lastreap", "orphaned"} /\ Reaped(c) /\ Goes(c, "done")
    /\ UNCHANGED <<load, signal, kid, asks, ends, retires, daemon, guard>>

\* The reap is cancelled (the future of an async one is dropped) or fails.
ReapFails(c) ==
    /\ Up /\ own[c] \in {"reaping", "lastreap"}
    /\ Goes(c, IF own[c] = "reaping" THEN "owning" ELSE "left")
    /\ UNCHANGED <<load, signal, procs, asks, ends, retires, daemon, guard>>

\* The owner is dropped: a blocking one kills and reaps first.
Drop(c) ==
    /\ Up /\ own[c] = "owning" /\ Goes(c, IF c \in Blocking THEN "killing" ELSE "dropping")
    /\ UNCHANGED <<load, signal, procs, asks, ends, retires, daemon, guard>>

DropKills(c) == Up /\ own[c] = "killing" /\ Release(c, "lastreap", "dropping")

Freed(c) == IF c \in Blocking THEN "left" ELSE "letgo"

\* Mutant: the tree of a refused request stays registered.
RemoveNothing(c) ==
    /\ Up /\ own[c] = "removing" /\ Goes(c, Freed(c)) /\ NoRequest
    /\ UNCHANGED <<load, signal, kid, ends, retires, daemon, guard>>

\* Held's Drop: release; when that fails too, the mutex is taken again and the
\* tree goes whatever its own Drop's request does.
DropHeld(c) == Up /\ own[c] = "dropping" /\ Release(c, Freed(c), "removing")

Remove(c) ==
    /\ Up /\ own[c] = "removing" /\ mutex = None
    /\ Goes(c, Freed(c))
    /\ trees' = trees \ {c}
    /\ IF c \in trees THEN \E out \in Outcome : Request({c}, [x \in {c} |-> out]) ELSE NoRequest
    /\ UNCHANGED <<load, fired, shut, mutex, kid, ends, retires, daemon, guard>>

\* kill_on_drop asks the leader, and the child becomes Tokio's orphan.
LetItGo(c) ==
    /\ Up /\ own[c] = "letgo" /\ Goes(c, "orphaned")
    /\ \E out \in {"done", "none"} : Request({c}, [x \in {c} |-> out])
    /\ UNCHANGED <<load, signal, kid, ends, retires, daemon, guard>>

Owner(c) ==
    \/ Reserve(c) \/ Create(c) \/ Fill(c) \/ SeeExit(c) \/ Ask(c) \/ Reap(c) \/ ReapFails(c)
    \/ Drop(c) \/ DropKills(c) \/ DropHeld(c) \/ Remove(c) \/ LetItGo(c)

----------------------------------------------------------------------------
\* The processes.

LeaderExits(c) ==
    /\ lead[c].st = "running" /\ lead' = [lead EXCEPT ![c].st = "zombie"]
    /\ UNCHANGED <<load, signal, own, kid, asks, ends, retires, daemon, guard>>

KidStarts(c) ==
    /\ c \in load.kids /\ lead[c].st = "running" /\ kid[c] = "none"
    /\ kid' = [kid EXCEPT ![c] = "alive"]
    /\ UNCHANGED <<load, signal, own, lead, asks, ends, retires, daemon, guard>>

KidExits(c) ==
    /\ kid[c] \in {"alive", "killed"} /\ kid' = [kid EXCEPT ![c] = "zombie"]
    /\ UNCHANGED <<load, signal, own, lead, asks, ends, retires, daemon, guard>>

\* The daemon is killed from outside, at any point.
Killed ==
    /\ Up /\ load.crash /\ daemon' = "killed"
    /\ UNCHANGED <<load, signal, own, procs, asks, ends, retires, guard>>

----------------------------------------------------------------------------
\* The project chat.  Its begin holds the phase lock from before the registration
\* until the start task is in place.

\* Mutant: begin takes the phase lock only to put the start in place.
Unlocked == FALSE

Locked == chat.begin \in {"locked", "registered"}

ChatBegins ==
    /\ Up /\ load.chat /\ chat.begin = "none" /\ chat' = [chat EXCEPT !.begin = "locked"]
    /\ UNCHANGED <<load, signal, own, procs, asks, ends, retire, daemon, guard>>

\* Registry::register: refused once retirement has taken the list.
ChatRegisters ==
    /\ Up /\ chat.begin = "locked"
    /\ chat' = IF retire.taken THEN [chat EXCEPT !.begin = "done"]
                               ELSE [chat EXCEPT !.begin = "registered", !.listed = TRUE]
    /\ UNCHANGED <<load, signal, own, procs, asks, ends, retire, daemon, guard>>

ChatStarts ==
    /\ Up /\ chat.begin = "registered"
    /\ chat' = [chat EXCEPT !.begin = "done", !.phase = "starting", !.task = "starting"]
    /\ UNCHANGED <<load, signal, own, procs, asks, ends, retire, daemon, guard>>

\* The start task's future: it makes the service or fails; an abort drops it only
\* at its next await.
StartEnds ==
    /\ Up /\ chat.task = "starting"
    /\ \E to \in {"made", "failed"} \cup IF chat.aborted THEN {"ended"} ELSE {} :
         chat' = [chat EXCEPT !.task = to]
    /\ UNCHANGED <<load, signal, own, procs, asks, ends, retire, daemon, guard>>

\* It takes the phase lock: a service made for a start that was retired ends.
StartLands ==
    /\ Up /\ chat.task \in {"made", "failed"} /\ ~Locked
    /\ LET mine == chat.phase = "starting" IN
       chat' = [chat EXCEPT !.task = "ended",
                  !.phase = CASE mine /\ chat.task = "made"   -> "running"
                              [] mine /\ chat.task = "failed" -> "off"
                              [] OTHER                        -> @,
                  !.service = CASE chat.task = "failed" -> @
                                [] mine                 -> "up"
                                [] OTHER                -> "stopping"]
    /\ UNCHANGED <<load, signal, own, procs, asks, ends, retire, daemon, guard>>

\* The spawned stop has ended the service; the one request_stop spawned also
\* turns the chat off.
ServiceEnds ==
    /\ Up /\ chat.service = "stopping"
    /\ chat' = [chat EXCEPT !.service = "gone",
                            !.phase = IF @ = "stopping" THEN "off" ELSE @]
    /\ UNCHANGED <<load, signal, own, procs, asks, ends, retire, daemon, guard>>

Chat == ChatBegins \/ ChatRegisters \/ ChatStarts \/ StartEnds \/ StartLands \/ ServiceEnds

----------------------------------------------------------------------------
\* The terminal.

\* Mutant: the last caller's code stands.
ClaimAgain(k) ==
    /\ Up /\ k \in load.callers
    /\ term' = [by |-> k, pc |-> IF term.pc = "none" THEN "claimed" ELSE term.pc]
    /\ UNCHANGED <<load, signal, own, procs, asks, fire, retires, daemon, guard>>

\* claim_exit: the first caller's code stands; any other parks for ever.
Claim(k) ==
    /\ Up /\ k \in load.callers /\ term.by = None
    /\ term' = [by |-> k, pc |-> "claimed"]
    /\ UNCHANGED <<load, signal, own, procs, asks, fire, retires, daemon, guard>>

\* retire takes the list; with a participant it starts its thread, if it can.
Retire ==
    /\ Up /\ term.pc = "claimed"
    /\ \/ /\ chat.listed
          /\ retire' = [taken |-> TRUE, pc |-> "asking"]
          /\ term' = [term EXCEPT !.pc = "retiring"]
       \/ /\ retire' = [retire EXCEPT !.taken = TRUE]
          /\ term' = [term EXCEPT !.pc = "firing"]
    /\ UNCHANGED <<load, signal, own, procs, asks, fire, chat, daemon, guard>>

\* The retire thread: request_stop takes the phase lock (a start is aborted, a
\* running service is told to stop), then wait_retired.
AskStop ==
    /\ Up /\ retire.pc = "asking" /\ ~Locked
    /\ retire' = [retire EXCEPT !.pc = "waiting"]
    /\ chat' = CASE chat.phase = "starting" -> [chat EXCEPT !.phase = "off", !.aborted = TRUE]
                 [] chat.phase = "running"  -> [chat EXCEPT !.phase = "stopping",
                                                            !.service = "stopping"]
                 [] OTHER                   -> chat
    /\ UNCHANGED <<load, signal, own, procs, asks, ends, daemon, guard>>

WaitRetired ==
    /\ Up /\ retire.pc = "waiting" /\ chat.phase = "off"
    /\ retire' = [retire EXCEPT !.pc = "done"]
    /\ UNCHANGED <<load, signal, own, procs, asks, ends, chat, daemon, guard>>

\* The claimer waits for the retire thread's report, or for RETIRE_WAIT.
RetireEnds ==
    /\ Up /\ term.pc = "retiring" /\ term' = [term EXCEPT !.pc = "firing"]
    /\ UNCHANGED <<load, signal, own, procs, asks, fire, retires, daemon, guard>>

\* The fire gets a thread; with none to run it on there is no fire.
FireStarts ==
    /\ Up /\ term.pc = "firing"
    /\ \/ term' = [term EXCEPT !.pc = "waiting"] /\ fire' = "started"
       \/ term' = [term EXCEPT !.pc = "exit"] /\ UNCHANGED fire
    /\ UNCHANGED <<load, signal, own, procs, asks, retires, daemon, guard>>

\* Mutant: the claimer waits for the fire's answer alone.
FireAwaited ==
    /\ Up /\ term.pc = "waiting" /\ fire \in {"ok", "failed"}
    /\ term' = [term EXCEPT !.pc = "exit"]
    /\ UNCHANGED <<load, signal, own, procs, asks, fire, retires, daemon, guard>>

\* The claimer waits for the fire's answer, or for what is left of FIRE_WAIT.
FireWaitEnds ==
    /\ Up /\ term.pc = "waiting" /\ term' = [term EXCEPT !.pc = "exit"]
    /\ UNCHANGED <<load, signal, own, procs, asks, fire, retires, daemon, guard>>

\* exit, or the signal raised again: the process ends with the claimer's code.
Exit ==
    /\ Up /\ term.pc = "exit" /\ daemon' = term.by
    /\ UNCHANGED <<load, signal, own, procs, asks, ends, retires, guard>>

Terminal == Retire \/ RetireEnds \/ FireStarts \/ FireWaitEnds \/ Exit

----------------------------------------------------------------------------
\* The guard, the parent of every process of the daemon's whose parent ended.

LeadIsMine(c) == ~Up /\ lead[c].st \in {"running", "zombie"}
KidIsMine(c)  == lead[c].st # "running" /\ kid[c] \in {"alive", "killed", "zombie"}

\* reap: every zombie child of the guard; whether any child is left at all.
ReapAll ==
    /\ lead' = [c \in Child |-> IF LeadIsMine(c) /\ lead[c].st = "zombie"
                                THEN [lead[c] EXCEPT !.st = "reaped"] ELSE lead[c]]
    /\ kid' = [c \in Child |-> IF KidIsMine(c) /\ kid[c] = "zombie" THEN "gone" ELSE kid[c]]

\* Mutant: the drain looks no further than the leaders.
Leaderless == \A c \in Child : LeadIsMine(c) => lead[c].st = "zombie"

Childless == \A c \in Child : /\ LeadIsMine(c) => lead[c].st = "zombie"
                              /\ KidIsMine(c) => kid[c] = "zombie"

\* wait_for_daemon: the guard reaps orphans while the daemon lives.
GuardWatches ==
    /\ guard.pc = "watching" /\ ReapAll
    /\ guard' = IF Up THEN guard ELSE [guard EXCEPT !.pc = "draining"]
    /\ UNCHANGED <<load, signal, own, asks, ends, retires, daemon>>

\* drain, one turn: reap, and return with no child left; list the children;
\* kill those listed, and give up past DRAIN_BOUND.
DrainReaps ==
    /\ guard.pc = "draining" /\ ReapAll
    /\ guard' = [guard EXCEPT !.pc = IF Childless THEN "gone" ELSE "listing"]
    /\ UNCHANGED <<load, signal, own, asks, ends, retires, daemon>>

DrainLists ==
    /\ guard.pc = "listing"
    /\ guard' = [guard EXCEPT !.pc = "killing", !.leads = {c \in Child : LeadIsMine(c)},
                              !.kids = {c \in Child : KidIsMine(c)}]
    /\ UNCHANGED <<load, signal, own, procs, asks, ends, retires, daemon>>

DrainKills ==
    /\ guard.pc = "killing"
    /\ lead' = [c \in Child |-> IF c \in guard.leads THEN Delivered(lead[c], "done") ELSE lead[c]]
    /\ kid' = [c \in Child |-> IF c \in guard.kids /\ kid[c] = "alive" THEN "killed" ELSE kid[c]]
    /\ stray' = (stray \/ (\E c \in guard.leads : lead[c].st = "reaped")
                       \/ (\E c \in guard.kids : kid[c] = "gone"))
    /\ guard' = [guard EXCEPT !.pc = IF guard.late THEN "gone" ELSE "draining",
                              !.leads = {}, !.kids = {}]
    /\ UNCHANGED <<load, signal, own, fails, ends, retires, daemon>>

DrainBound ==
    /\ ~load.prompt /\ guard.pc \in {"draining", "listing", "killing"} /\ ~guard.late
    /\ guard' = [guard EXCEPT !.late = TRUE]
    /\ UNCHANGED <<load, signal, own, procs, asks, ends, retires, daemon>>

Guard == GuardWatches \/ DrainReaps \/ DrainLists \/ DrainKills

----------------------------------------------------------------------------
Next ==
    \/ \E c \in Child : Owner(c) \/ LeaderExits(c) \/ KidStarts(c) \/ KidExits(c)
    \/ \E k \in Caller : Claim(k)
    \/ Publish \/ FireTrees \/ AskStop \/ WaitRetired
    \/ Chat \/ Terminal \/ Killed \/ Guard \/ DrainBound

Spec == Init /\ [][Next]_vars

\* The claimer and the guard run, and their bounds pass; under a prompt load what
\* has a SIGKILL ends.  Nothing else is promised to take a step: an owner, the
\* fire, a creation or the chat may stall for ever.
Fairness ==
    /\ WF_vars(Terminal) /\ WF_vars(Guard) /\ WF_vars(DrainBound)
    /\ \A c \in Child :
         /\ WF_vars(load.prompt /\ lead[c].asked /\ LeaderExits(c))
         /\ WF_vars(load.prompt /\ kid[c] = "killed" /\ KidExits(c))

FairSpec == Spec /\ Fairness

----------------------------------------------------------------------------
\* No request goes to the number of a process that was reaped, whoever made it:
\* an owner, the fire, a drop's retry, Tokio's kill or the guard's (contain.rs
\* "No Unix signal ... occurs after leader reap"; guard.rs drain).
NoStrayRequest == ~stray

\* When the fire has answered, no child slipped past it: each leader that still
\* runs was asked, is still registered with a refused request, or was let go by an
\* owner whose own requests were all refused (Signal::fire, reserve).
FireMissesNone ==
    fire \in {"ok", "failed"} =>
        \A c \in Child : lead[c].st = "running" =>
            lead[c].asked \/ own[c] \in LetGo \/ (fire = "failed" /\ c \in trees)

\* Once retirement has asked the chat to stop, it neither starts nor runs again,
\* whatever its begin or its start task was doing (chat.rs begin, request_stop).
RetiredStaysStopped ==
    chat.listed /\ retire.pc \in {"waiting", "done"} => chat.phase \notin {"starting", "running"}

\* wait_retired's own promise (retire.rs Participant): a chat it reports retired
\* is gone.  An aborted start that went on to make the service breaks it.
RetiredIsGone == retire.pc = "done" => chat.task # "made" /\ chat.service \in {"none", "gone"}

NothingLeft == \A c \in Child : /\ lead[c].st \in {"unborn", "reaped"}
                                /\ kid[c] \in {"none", "gone"}

\* A claimed exit ends in the guard's end, with the claimer's code unless the
\* daemon is killed first, and with nothing of the daemon's left unless the
\* guard's bound passed (terminal, keep_guard).
ClaimEndsAll ==
    \A k \in Caller : term.by = k ~>
        /\ guard.pc = "gone" /\ daemon \in {k, "killed"}
        /\ guard.late \/ NothingLeft
=============================================================================
