# Ship of Tools: a TLA+ development of its lifecycle and link

Ship of Tools keeps long-lived agent sessions ("rows") on a computer, served by
one daemon per state root and shown by any number of windows, local or remote.
This directory models the parts of it whose correctness depends on the order of
events: who keeps a computer's sessions alive when windows, daemons and machines
come and go, what a window may conclude before it exits, who may start, restart
and end a row's supervisor, how a daemon's process ends without leaving children
behind, what a sender of a message may believe, and how one SSH login carries many
independent byte streams.

Paths below are relative to `src/rust/`.

## 1. Inventory

| Component | State it keeps | Operations that change it | Here |
|---|---|---|---|
| Daemon's window lease (`backend/src/lifecycle/lease.rs`, `startup.rs`) | `State` behind one mutex; `held.json` | grant, depart, leave again, decide, tick, commit_update, begin/finish, ack, startup plan | `DaemonLease`, `Custody` |
| Shutdown sequence (`backend/src/lifecycle/shutdown.rs`) | the run gate, the report, `answered` | run(): backstop, gate, end every row, final record, answer the closer, exit | `DaemonLease` (steps 1, 5, 6), `RowRun` (2-4, one row), `DaemonEnd` (the terminal) |
| The window's link (`topology/src/link/`) | a channel table at each end, two byte pipes | the frames' handlers, the writer, the channel faces, opens, connects, ends | `Link` |
| Window's half of the lease (`frontend/src/lease.rs`, `lease_exit.rs`) | the `Book` of hosts, pending leaves, exit intent | claim before a data connection, leave_all, poll, stay, forced exit, owed counts | `WindowLease` |
| Rows (`backend/src/rows/`) | registrations, run gate, per-row guard, watchdog backoff | create, start, resume, restart, reset, end, destroy, end_every | `RowRun` (one row) |
| Child signal, guard, retirement (`containment/src/`, `backend/src/lifecycle/retire.rs`, `shutdown.rs`) | registered trees, each child's owner, who claimed the exit, participants | spawn, wait, kill, drop, fire, claim_exit, retire, the guard's drain | `DaemonEnd` (Linux) |
| Messaging (`backend/src/comm/`) | per handle an inbox file, its lock and a read cursor; the registry; the links | send, comm.file, forward and offer, append, poll; join, heartbeat, prune | `Inbox` (one handle's inbox) |
| Server sessions and clients (`backend/src/server`, `clients.rs`) | the roster of connected windows | connect, attach, detach | planned |
| Row capsule (`capsule/src/`) | the supervisor's run states, ring of output | start, attach, signal, end | planned last |
| Updater, platform, protocol, agents, files, sidecars, pages, chat, UI, fe-net, vt100 | - | I/O, data formats or rendering | not modelled; reasons in `PROJECT.json` |

**How they interact.** A window opens a lease connection to each daemon it uses
before any data connection; the daemon grants it under the lease mutex and writes
`held.json`. A window that leaves says how (`close`, `keep`, `handover`), or its
connection just ends. The last departure decides: `close` begins the shutdown,
`handover` arms a deadline that the 1 s ticker enforces, `keep` leaves the
sessions open-ended. The shutdown closes the run gate, ends every row by a
deadline, writes the final record, waits for the window that closed to be told
what could not be ended, and exits; a backstop thread ends the process in any
case. The next daemon reads the record before it serves anything and resumes,
waits for a window by the recorded deadline, or cleans up. Every exit goes through
one terminal: it is claimed once, the participants are retired, the fire asks every
contained child's tree to end, and the lifetime guard, the daemon's parent, ends
what is left, also when the daemon is killed. A row's supervisor is a detached
process behind an OS fence; the row's guard (a mutex) orders the daemon's tasks that
start, restart and end it. A remote window
reaches its daemon through a link: one SSH login on which a router joins every
channel to the daemon's socket. A session writes to another by appending a line to its
inbox under a lock, itself or through a daemon that owns the folder (which may forward
to the hub, and the hub offer it to its links); the other polls from its cursor.

**What is hard.** Kills and reboots between any two steps of the lease, writes
that fail on either side of the replace, an update that ends the process while
windows depart, several leases of one window, counts acknowledged late; in the
window, handshakes and answers that cross its leave; in a row, creates, activations,
restarts and ends that overlap while the gate closes; at the process end, children
born, waited for and dropped while the fire runs; on the link, opens, grants, closes, cancels and abandons that cross on the wire, credit
that must neither leak nor be granted twice, wakers that must not be lost, one
slow reader among many channels, and an end at one side; in an inbox, writers that die
or fail mid-line between a reader's two reads, and a machine that stops before the
flush. Every such place is
listed with its line under `hazards` in `PROJECT.json`, with the properties that
would catch it going wrong.

**What makes each component correct.** For the lease, the rulings of ADR 0050:
(a) the lease is the only proof that a window is open, so nothing is ended under
one; (b) nothing is lost silently, so a count stays until a window was told it;
(c) only Keep is open-ended and no restart extends a deadline; (d) leases are
fenced by generation; (e) a start never brings back what a close ended. For the
window: it exits on an intent only when every daemon that leases it has read that
intent, and no count is acknowledged that no frame has drawn. For a row: one owner of
its restarts, and no agent behind an end or a settled gate. For the process end: no
signal to a pid that was reaped, no child behind the fire, and an end that always
comes. For the link: streams in order and complete, credit conserved, no rule broken between
two correct ends, no lost wakeup, no leaked channel, no channel held up by
another, no half-ended link. For mail: "filed" means kept, FAILED means not there, and
no reader's cursor stands above a line it has not counted.

## 2. Modules

### `DaemonLease` - one daemon, its record, its restarts

One action is one critical section of the lease mutex, with the one write of
`held.json` made inside it.

| Variable | Code |
|---|---|
| `st` | `struct State`: own boot, held leases, handover and pending deadlines, phase, not-ended count, forget list, closer waits, startup cleanup |
| `disk` | `held.json`: a `HeldRecord`, no file, or a file that does not read |
| `conn` | per connection, where its `hold()` is and which count its window was told |
| `report`, `answered` | the channels between the shutdown and the closer's `hold()` |
| `clock`, `boot`, `up` | `now_ms()`, `boot_identity()`, whether a process serves |
| `intent`, `turn`, `unseen` | history variables for the properties and the refinement |

A lease's generation is its connection: `next_gen` is never reused in a process,
and a member of `Conn` stands for a new connection only once its old lease is
gone. Boot 0 stands for the empty boot string, which matches any boot.
`PersistOk`/`PersistFails` are the two outcomes of the durable write: an error
before the replace leaves the old file, one from the directory sync after it
leaves the new one. Only `Grant` acts on the error (it rolls back); every other
caller logs it. `Start` is `startup::begin` with the plan of `startup_plan`;
`kept` are the rows `keep_unremoved` could not remove.
`FinishShutdown(n, ids)` stands for shutdown steps 2 to 5: how many sessions were
not ended and which ended rows stay registered is left open, which covers every
outcome of the rows' code.

### `Custody` - what the lease promises

The abstract specification, with no daemon in it: the sessions are held by a
window, linger until a deadline, are kept, or are being ended. Kills and restarts
are not steps of it, so the refinement says that they are invisible except where
`Lost` says otherwise: windows that were there when their daemon died get one
bounded wait. `CustodyOf` reads the custody off the record and the machine's boot
alone. The two history variables `intent` and `turn` are what keep the promise
from being loose: without them any departure could be explained by any other.

### `Link` - two tables, two pipes

`table[e]` is `struct Table` at the window's and the router's end; an action is
one critical section of its lock.

| Model | Code |
|---|---|
| a byte | its position in the stream; a `link.data` frame is the interval `lo+1..hi` |
| `sent`, `queued` | the outbound queue holds `sent+1..queued` |
| `readWaker`, `writeWaker`, `openWaker` | the registered wakers: while one is set its task sleeps |
| `Deliver` | one round of `read_loop`: `on_data`, `on_credit`, `on_close`, `on_open_request`, `on_open_answer` |
| `NextOut` | one round of `write_loop` and `Table::next_out`: queued ops first, then the channels in turn |
| `Read` ... `Release`, `Cancel` | the channel faces of `channel.rs`; `poll_shutdown` is two actions because it takes the lock twice |
| `BeginOpen`, `PollOpen`, `Abandon` | `LinkHandle::open`, `Opening` and its drop |
| `Connected` | `connect_channel` at the router |
| `EndLink`, `DropLink`, `StopTask`, `PeerGone`, `LinkFails` | the arms of `run()`'s select and `Link::drop` |

`broken[e]` records that end `e` found the other breaking a rule (the `Err` of a
`Table::on_*`); `accepted` and `got` are history. In the code `CREDIT_STEP` and
`OUTBOUND_CAP` are one chunk, as here.

### `WindowLease` - one window, its tasks and the daemons' ends of its streams

An action is one critical section of the book's mutex or one turn of a task between
two awaits. `standing`, `holder`, `leaving`, `inflight`, `late`, `lateQ` and `owed`
are the `Book`; `hs`, `cmds`, `ack` the transport task, the command channel and the
oneshot of each host; `ui`, `lv`, `drawn`, `waits` the UI thread and its `Leaving`.
`wire`, `back`, `cut`, `eof`, `srv`, `count` are the streams and what `hold()` does
with each frame at the daemon's end: it answers, refuses or is lost in any order.
`HolderTakes`, `HolderReads` and `HolderEnds` are the arms of the holder's select;
`PollWaits` ... `PollExits` are `Leaving::poll` and the stay it asks for, with the
exit table of `lease_exit.rs`. `closed`, `shown` and `told` are history.

### `RowRun` - one row

`row` is the registered `Workspace` (its generation, watchdog owner and cell), `guard`
the row's mutex, `sups` the supervisor processes that hold the fence one after the
other, `file` and `asked` what they leave on disk. One record each stands for the
launch in flight (`spawn_and_watch`), the create, the activation, the ends, the
observer and the run gate; `dogs` are the watchdog tasks. An action is a step between
two awaits, or one whole critical section. `Probes` are the phases a status query may
read; a query of an answering supervisor may time out (`misses`).

### `DaemonEnd` - the process end

`fired`, `shut`, `trees` and `mutex` are `Signal` and its registry, held through a
creation; `own` is where each child's owner is (an async or a blocking one), `lead`
and `kid` the leader process and a descendant that left its group; `fails` counts the
requests the kernel refused. `term`, `fire` and `retire` are the claimer, the fire's
thread and the retire thread, `chat` the participant with its begin, start task and
service; `guard` is the lifetime guard's drain. `stray` records a request to the pid
of a reaped leader. A request is the SIGKILL to the group and the one to the leader,
each delivered or refused.

### `Inbox` - one handle's inbox, its senders and its pollers

An action is one system call on the lock, the inbox or the cursor, or one answer.

| Model | Code |
|---|---|
| `file`, `torn`, `synced` | `inbox/<h>.jsonl`: its terminated lines, whether bytes follow the last newline, and how many lines are on the disk |
| `w[m].pc` | where the process that files message `m` is: `held` to `failing` hold the lock; `len` is the length `append_line` falls back to |
| `told[m]` | what the sender was told; a member of `Remote` waits for a daemon and may give up first (`FILE_WINDOW`, a lost connection) |
| `Trim` ... `RollbackFails` | `append_line`: the dead writer's tail, `write_all` (a torn line, then the line), the flush, the cut back |
| `cursor`, `cursors` | `read/<h>.cursor` as count and last line; after a stop of the machine it may be any that was written, because its rename is not flushed |
| `Poll`, `PollUnlocked` | `read_lock`: the shared lock, or a fault of it that is printed and read past; `bare` is history: such a poll has moved the cursor |
| `Aim`, `Place`, `Read`, `Move`, `Show` | `poll`: `offset`'s two reads, the lines' own read, the cursor, the output |
| `Kill`, `KillReader`, `Crash` | a sender's process or the daemon with all its filings; a poller; the machine |

A line's hash is the line. `shown` and `passed` (lines a poll moved the cursor past)
are history. `Ask` leaves open what the route, the registry and the heartbeat say: a
refusal there appends nothing.

### Loads

`Link`, `WindowLease`, `RowRun` and `DaemonEnd` take a set `Loads`, of which `Init`
picks one: a record of what may come in this behaviour (who acts, what may fail, the
bounds). A run thus holds several small instances, each aimed at some hazards,
instead of one product of them all. The loads restrict the environment, never the
code's own steps, and the proofs hold for every set of them.

### `MC*` modules and `.cfg` files

They give the constants values and define the sets of users and the symmetry,
nothing else. Operators whose comment begins with "Mutant of" are deliberate
mistakes used to show that a property can fail; no specification uses them.

## 3. Runs

| Run | Bounds | States | Shows |
|---|---|---|---|
| `daemon_custody` | 2 connections, 2 windows, 1 row, 3 starts, 2 boots, no fault, no update | 148 k | `RecordIsCurrent` (proved): the record says what the daemon knows; `OnlyKeepIsOpenEnded` (proved); `PromiseKept` (proved): the refinement of `Custody`; `HandoverIsBounded`; `CloseEndsTheProcess` |
| `daemon_faults` | the same with 2 starts, 2 faults, 1 update | 764 k | `NoCloseUnderAWindow`, `KillNeverKeeps`, `KillInCleanupCleansAgain`, `RestartNeverExtends` (all four proved) |
| `link_safe` | `Stream`: window 4, chunk 2, 6 bytes one way, pipe of 3 frames; `Churn`: 2 opens at the limit | 2.4 M | `StreamIsWhole`, `NoLostWakeup`, `CreditConserved`, `NoViolation` (all four proved) |
| `link_live` | `Stall`: channel 0 filled and never read; `Cut`: every end of the link; window 1 | 75 k | `WrittenIsRead`, `ReleasedIsReaped`, `EndsTogether` |
| `window_leave` | 2 labels of one daemon, count to 2, 2 leaves, 2 handshakes, 1 cut | 1.9 M | `ConfirmedIsHeard`, `CountIsOwedOrAcked`, `KeepDropsNoRequest`, `CloseExitsZero`, `DeliveredIsWritten`, `NothingAckedUnshown` (all six proved) |
| `window_live` | 1 host, 3 leaves, 2 handshakes, 1 cut | 235 k | `HeldForTheWindowsLife` (proved for one host), `LeaveEnds` |
| `row_life` | 2 watchdogs, up to 3 supervisors; loads `Restarts`, `Creates`, `Races`, `Shuts` | 2.3 M | `RestartsAreOwned`, `EndedRunsNoAgent`, `SettledStartsNothing`, `TerminalIsTrue`, `ResetsItsOwn`, `OnlyAResetUnasks`, `ReportCoversRuns` (all seven proved) |
| `row_live` | 1 watchdog, 2 supervisors; a create that the shutdown catches | 80 k | `GuardComesFree`, `CrashIsHandled`, `EndsAnswer` |
| `daemon_end` | an async and a blocking child; loads `Owners`, `Refusals`, `Orphans`, `Retires` | 531 k | `NoStrayRequest`, `FireMissesNone`, `RetiredStaysStopped` (all three proved), `ClaimEndsAll` |
| `inbox` | 3 messages, one through the daemon; 2 pollers, 2 polls, 2 kills, 2 errors, 1 stop that loses at most 1 line | 6.3 M | `VerdictIsTrue` (proved), `NoneSkipped` (proved where `MaxLost` is at most 1) |
| `update_keeps`, `row_rolled_back` | the smallest that show it | - | a violation each, section 5 |

**Why the bounds are enough.** *Lease.* Everything the lease decides depends on
whether a lease is held, whether another of the same window is, and on the order
of at most two departures: two connections and two windows give "same window
twice" and "two windows". `HandoverBound = 2` with `MaxClock = 3` lets a deadline
be armed at two different times and pass or be saturated, so that a restart that
arms a later one is seen; three starts give a restart of a restarted daemon; two
boots a reboot; `MaxCount = 3` is passed by sums of counts, so saturation
happens. *Stream.* A window of two chunks and a stream of three make the sender
run out of credit and be granted more in two parts; reads of one byte split
chunks. *Churn.* With `MAX_CHANNELS = 2` and channel 0 always open, the second of
two opens is refused or not, depending on whether the first has left. *Window.* Two
labels of one daemon share a count, which is what the ack rules are about; two leaves
give a Keep or a relaunch superseded by a Close, three a close after a close; two
handshakes give one in flight beside one held. The loads trade counts against leaves,
since the two never meet in one property. *Row.* What a task can find out of date is
another spawn, another watchdog or another row object: three supervisors let a
restart be overtaken by an activation's replacement, two watchdogs one supersede the
other, and a restart budget of 1 be spent. *End.* One owner of each kind against the
fire; four refusals exhaust the retries of one owner (a wait, a kill, a drop); two
trees and an escapee make the guard list and kill more than once. *Inbox.* Three
messages: one that is cut back, one counted and one filed in its place; two pollers can
overtake each other, two kills end a writer and a reader. `MaxLost = 1` is where
`NoneSkipped` ends: see `MCInbox_two_lost` in section 5.
*Liveness* runs are smaller, because the temporal check multiplies states: one byte of
window already makes every byte wait for its credit, and a pipe of one frame
makes each direction wait for the other.

**Symmetry** is used in safety runs only (`daemon_faults`, `window_leave`, `row_life`, `inbox`
and the row's violation: connections, windows, labels, supervisors and watchdogs are
interchangeable), never where liveness is checked. The bounds `MaxStarts`, `MaxBoots`,
`MaxFaults`, `MaxUpdates`, `MaxClock`, `MaxCh`, `MaxBytes`, `MaxCount`, `MaxTries`,
`MaxLeaves`, `MaxCuts`, `MaxPolls`, `MaxKills`, `MaxErrors`, `MaxCrashes`, `MaxLost` and
the fields of the loads are guards of the models; a link
load's `pipe` is also what makes a writer wait, as a full pipe does.

**Deadlock** is not checked: a daemon that nobody starts again stays down, and a
link that ended with its users gone stays ended, as do a window that exited, a row
at rest with nothing left to come and an inbox with everything sent and polled. That nobody waits for ever is
what the liveness properties are for.

**Fairness.** *Lease:* the clock, the ticker task, the shutdown's own steps, the
end of a Cleanup, the backstop thread and the exit of an update: all scheduled by
the runtime with no outside party (the rows' ends are bounded by a deadline).
Windows, acks, crashes, restarts and updates owe nothing. *Link:* the two link
tasks run, a connect of the router finishes, an opener whose waker is clear polls
again, and the users in `Readers` keep reading. Every other user may stop at any
point; transport failures owe nothing. Weak fairness is enough for both. *Window:*
weak fairness of a frame's end, the leave's deadline, a forced exit's bounded wait and
the process end; strong fairness of the poll's steps, because the event loop polls
after every batch of events (`about_to_wait`), so frames cannot starve it. The
network, the daemons and the user owe nothing. *Row:* weak fairness of each step of a
task that waits for no one, and of the deadlines; strong fairness of the steps that
take the row's guard, because tokio's mutex is first come, first served. Supervisors
and calls owe nothing. *End:* weak fairness of the claimer, of the guard and of its
`DRAIN_BOUND`; under a `prompt` load what has a SIGKILL ends. The owners, the fire, a
creation under way and the chat may stall for ever: the bounds are what the code
relies on, and so does `ClaimEndsAll`.

## 4. Proofs

Eight modules hold them; each proves for any values of the constants, from the named
assumption of the module it extends (bounds are naturals; `None` and the like are not
confused with data).

### `DaemonLease_proofs`

* `TypeCorrect`: `Spec => []TypeOK`. Beside the shape of the state, it says the
  not-ended counter never passes its width and every deadline is a number or none.
* `LeaseSafe`: `Spec => []LeaseInv`, the inductive invariant, and from it the three
  properties that `daemon_faults` checks: `ClosesUnderNoWindow`, `KillsNeverKeep` and
  `KillsInCleanupCleanAgain` - with any number of failed writes, damaged records,
  reboots and updates.

The safety parts are not inductive as they stand. `KillNeverKeeps` needs to
know that a held lease implies a known boot equal to the machine's
(`OwnBootIsCurrent`: otherwise a fresh record could read as another boot's or be
empty) and that nothing in memory survives the process (`DownIsBlank`: otherwise
a stopped daemon could "hold" leases the record has lost). `NoCloseUnderAWindow`
needs `NoDeadlineUnderALease` (a tick closes only on a deadline that passed, and
a grant clears every deadline) and `HeldIsTheOpenConnections`.
`KillInCleanupCleansAgain` rests on `persist`'s
early return: until a close begins, a Cleanup's record is not written at all, and
the close's own record plans a Cleanup. The proof has one step per action; the
lemma `PersistKeepsPlan` covers every handler that writes, whether its write
succeeded, failed before the replace or after it, and `DecidedFacts` and
`TickedFacts` say what the pure decisions leave alone.

And what `held.json` says while no write has failed and nothing damaged it:

* `TheRecordIsCurrent` (`RecordIsCurrent`). The invariant `RecordInv`: the file reads, and
  once no startup Cleanup withholds the writes (`Settled`) it carries the state
  (`Carries`). A write is of the whole next state, so `PersistKeepsRecord` covers every
  handler that writes; what is left are the steps that change the state without a
  write (`CommitUpdate`, the end of a process) and a start, which resumes only from a
  record that says what a fresh state says.
* `OnlyAKeepIsOpenEnded` (`OnlyKeepIsOpenEnded`, where no update restarted the daemon:
  the run `update_keeps` shows what one does). `OnlyKeepIsOpenEnded` alone is not
  inductive: it reads only the file, and a write copies what is in memory. `PlanIsMeant`
  adds that an open daemon that nobody holds and no deadline bounds was left by a Keep
  or after an end, that a finished one has ended them, and that a closing one has a
  record that cleans up. `BootsArePast` (no record is of a boot to come) carries it
  over a reboot, and `NoneWithoutBoot` (a daemon without a boot identity lets no window
  in) over the departures, whose records would otherwise read as this boot's.
  The proof has one lemma per kind of handler.

### `DaemonCustody_proofs`

* `NoRestartExtends` (`RestartNeverExtends`), with any failed writes, damage, reboots and
  updates. The invariant `PendingInv`: a deadline that runs from before the process is
  the only one, nobody has connected since, and the record has it or none at all - so a
  departure, which follows a grant, never writes it, and a start takes it over as it is.
* `TheDaemonKeepsItsPromise` (`PromiseKept`): where no write fails, nothing damages the
  record, the boot identity reads and no update is committed (`MaxFaults = 0`,
  `MaxUpdates = 0`, the instance of `daemon_custody`; the findings in section 5 show what
  an update does to the promise), `Spec` implements `Custody`. `StateSays`
  turns the mapping, which reads the file alone, into one over memory (`CustodyIn`,
  `DueIn`): it rests on `RecordInv` and on `BootInv`, an open record is of this boot. While
  a startup Cleanup withholds the writes, `WithheldEnds` has the record promise an end,
  which is where `KillInCleanupCleansAgain` is needed again. `MeantInv` supplies the history
  that `Custody` asks of a finished Cleanup (who holds the sessions then, and since when).
  `AbstractSteps` lists the steps of `Custody` in terms of the mapping; one lemma per
  kind of handler picks the one it takes.

### `RowRun_proofs`

For any supervisors and watchdogs, any restart budget and any loads, with processes and
watchdogs that are not confused with the row's other actors:

* `RunIsKept`: `Spec => []RunInv`, the row's inductive invariant, and with it `RowTypes`.
  It says of each part what the code relies on without checking it: the guard is held by
  the one task that is in its locked part (`Guarded`) and a launch is its holder's
  (`LaunchIsGuarded`); the permits out are a create's, a launch's and a reset's, and a
  gate that settled has none (`PermitsAreCounted`); one supervisor at most is alive, and
  while a launch has forked it is that one (`FenceIsOne`); a watchdog past its wait acts
  on a leg that is gone (`LegsAreGone`); nothing acts on a row that is not registered
  (`RowStands`).
* `TheGateIsShut` (`SettledStartsNothing`) from `PermitsAreCounted`: the count matters,
  because a create holds its permit and its launch takes a second one.
* `EndsAreConfirmed` (`EndedRunsNoAgent`) from `EndsAreTrue`: between the proof of absence
  and the removal nobody serves the row, because a supervisor is born only under the guard,
  which the end holds. `EndedRunsNoAgent` alone says nothing of that interval.
* `ResetsAreOwn` (`ResetsItsOwn`) from `AuthorityIsOwn`: what is alive when an activation
  resets is among what it launched.
* `UnaskedByResets` (`OnlyAResetUnasks`) from `StartsAreCreates`: without a create no
  supervisor, nor any launch to come, is in mode start.
* `RestartsHaveAnOwner` (`RestartsAreOwned`) and `MarksAreEarned` (`TerminalIsTrue`), under
  the hypothesis `Lone`: at most one create comes to the slug, and to no row that is
  there. Every load of `row_life` satisfies it; a second create starts the row again at
  generation 0, and `MCRowRun_replaced` and `MCRowRun_stale_owner` (section 5) show that
  both properties then fail, so the proof could not do without it. `RestartsAreOwned` is not
  inductive: a watchdog
  acts by comparing generations. `GensAreOrdered` says that a launch is of the row's own
  generation and every other watchdog's is behind it, so the one at the row's own is its
  owner; `LivesAreOwned`, that what lives is a launch's, a waiting watchdog's leg or the
  first supervisor there was. From the two, a watchdog that finds its generation current
  (`still_mine`) knows that nothing serves the row (`MineIsAll`).
* `ReportsCover` (`ReportCoversRuns`), under the hypothesis `Alone`: where the close may end
  the row, `Lone`, and no activation where a create comes. Every load of `row_life` satisfies
  it, and `MCRowRun_unlisted` (section 5) shows what an activation beside the create does.
  The invariant is `CoverInv`: until its create launches it, nothing was started for the row
  (`CreateLeads`), so the create's rollback removes no served row; a row that is gone serves
  none (`GoneServesNone`), which covers the row the close does not list; and once the close
  has answered for it the gate is closed, no launch or reset is under way, and none can begin
  (`CloseIsLast`).

The proof has one lemma per handler: `SupSet`, `DogSet` and `EndSet` reduce its step to
what it changes in one supervisor, watchdog or end.

### `DaemonEnd_proofs`

For any children, callers, loads and refused requests:

* `RequestsAreNeverStray` (`NoStrayRequest`). The invariant `StrayInv`: a registered
  tree's owner has not let go of its child; while the daemon lives, no child is reaped
  before its owner is done with it; what the guard has listed it has not reaped, and it
  lists only once the daemon is gone. An owner leaves the registry before it reaps,
  and the registry's mutex is held over the fire's requests: that is why nothing
  reaches a number that was reused.
* `TheFireMissesNone` (`FireMissesNone`). The invariant `FireInv`: a creation holds the
  mutex to its end, none begins once the fire is published, so none is under way when
  it has answered; and what runs unasked is registered or was let go of.
* `ARetiredChatStaysStopped` (`RetiredStaysStopped`), from `ChatInv`: a begin holds the
  phase lock from before its registration until the start task is in place, and the
  request to stop takes that lock: it comes before the registration is listed, which
  is then refused, or after the start, which it aborts.

### `WindowLease_proofs`

For any hosts and daemons, any labels that share one, and any bounds:

* `WindowTypesHold` and `LateChannelIsCounted`, one induction: a settled handshake is
  counted down in `Nat` only because the count is the number of handshakes in flight
  (`OneMore`, `OneLess`). No run spends a property on either.
* `NoKeepDropsARequest` (`KeepDropsNoRequest`) and `NoRestartOutlivesAClose`
  (`CloseExitsZero`). Both speak of the ended process, so the invariant `LeaveInv` says
  what the way there keeps: the wait is the book's leave (`WaitIsTheLeave`), a wait that
  no longer looks for late handshakes has none (`WaitSeesLate`), no Keep or Handover comes
  to its end while one is in flight (`EndsUnasked`), and a close has taken the code and
  cannot be stayed (`CloseWins`). `NoStayNoRequest` is `must_stay` read backwards.
* `NoCountIsHidden` (`NothingAckedUnshown`), from `SeenInv`: every ack queued or on the
  wire names a count a frame has drawn.
* `NoLeaveIsOvertaken` (`DeliveredIsWritten`), from `ReceiptInv`: while a forced exit
  waits, a holder it counts on has a receipt queued and no leave behind it, a holder it
  no longer counts on has no leave queued, and a handshake that settles meanwhile was
  not counted on (`AskingIsVacant`) and is on the late channel. It needs `LeaveInv` too:
  a forced exit has a leave, so no handshake begins under it.
* `NoCountIsLost` (`CountIsOwedOrAcked`, which speaks of the time before a leave and before
  a fault of the daemon's), from `CountInv`: until a leave or a fault of the
  daemon's the counts only fall, so a grant on its way carries the daemon's count or one
  it no longer keeps (`GrantsCurrent`), and a count told to a held lease is owed or its ack
  is in the queue or on the wire (`ToldIsOwed`). Two labels of one daemon are the hard
  case: the frame that acks for one acks for both.
* `LeaseHeldForLife` (`HeldForTheWindowsLife`), under `\A g, h \in Host : g = h`. With two
  hosts it is false: a Keep that stays for one host's unanswered request has already
  departed the other's lease. It needs `StreamInv` (a stream that has asked carries
  nothing of an earlier lease, and a lease the daemon knows of is a handshake's that has
  asked or a holder's) and `LeaseInv` (outside a leave nothing on its way departs a held
  lease); the one host makes a stay, which needs a request in flight, a stay of a window
  that holds nothing.
* `ConfirmedLeavesAreHeard` (`ConfirmedIsHeard`), from `HeardInv`. The current leave is
  the last leave of every queue and stream, and while it is on the wire none is
  queued behind it (`LeaveIsLast`); so a reply to it, wherever it is (`Got`: on the
  stream, in its oneshot, collected), comes from a daemon that has read it and reads no
  other (`ReplyIsHeard`). A host still in its handshake has been asked nothing
  (`AskingIsUnasked`), and every lease whose handshake is over is waited for, about to
  join the wait, or answered (`WaitIsWhole`). `ConfirmedMeansHeard` puts these together at
  the end of a wait: no warning means that no handshake is in flight (`LeaveInv`) and
  that every host's outcome is a reply. The superseded Keep's late answer and the grant
  that settles under the leave are the cases of `HeardByHolder` and `HeardByHandshake`.

### `Link_proofs`

* `NoTaskSleepsThrough` (`NoLostWakeup`), for any window, chunk, number of channels and
  load. A reader asleep when its own end is shut down beside it is woken only as that close
  is sent; it is left out until then. The invariant `LinkInv` is one predicate of one channel of one end, `Slot`:
  what its user may rely on (`Served`: whoever uses a channel holds it open and not
  released), which ways there are to close it (`Closing`), who may sleep on it (`Asleep`)
  and what of the written bytes it still has (`Written`); and nothing is known of a channel
  not opened (`Fresh`). A writer sleeps only while bytes wait to be sent, so it needs
  `Written`'s order of sent and queued, and the fact that a close empties the queue
  only together with a wake. `OneSlot` reduces a step of a channel to its slot, and one
  lemma per handler gives the slot after it. `next_out`'s choice of a channel rests on
  `LeastNumber`, which the library's well-founded orders give without induction.

### `LinkStream_proofs`

* `StreamsAreWhole` (`StreamIsWhole`), for any window, chunk, number of channels, load and
  failure. It needs where a stream is while part of it is in the pipe. No history variable
  says that: `Marks(p, ch, m)` states of a function `m` that `m[i]` is the stream's place
  before the pipe's `i`-th frame, `m[1]` where the receiver will add the next byte
  (`Position`) and the last mark what the sender has sent; `StreamInv` says such marks
  exist, that what a receiver holds has no gap (`Chain`), and that a clean close is behind
  the last byte accepted (`Received`). A step that leaves the pipes alone keeps the marks
  (`QuietSender`, `QuietReceiver`, `Steady`); a frame read drops the first mark (`Shifted`),
  one written adds one (`Extended`). `LinkInv` supplies what is left: a reader that is told
  the end holds a channel nobody freed under it.
* `TheRulesAreKept` (`NoViolation`) and `CreditIsConserved` (`CreditConserved`), for the same
  constants. Neither is inductive and they are not proved apart: a frame keeps the rules
  because the credit it was sent under was granted by a frame of the other direction that
  kept them. `FlowInv` speaks of the wire to an end, its pipe and the frames its peer still
  owes it, and replays it (`Walk`): a tally of what the end has been told, the last open or
  the answer to its own, its place in the peer's stream and how far it may send, starts
  from what the end holds (`Start`), each frame moves it as the rules allow (`Moves`), and it
  finishes at what the peer did (`Finish`), which the end has room for (`Bound`). `Local` is
  one receiver's account of its window, `Unasked` that nothing but its open is on the wire
  of a channel the router has not answered. A frame that joins the wire takes one more move
  (`FlowSends`), one that is taken gives the first up (`FlowTakes`), and a step that leaves
  the counts alone leaves both ends of every replay (`Settled`). `NeverViolates` reads the
  rules off the first move. An end that has freed a channel keeps nothing of it, so all that
  is said of its part is said while it lives (`Alive`) or still takes data (`Waiting`); and
  what the router is told of opens is a number and no answer, as in `Table::known`.

### `Inbox_proofs`

For any messages, any of them filed by the daemon, any pollers and any bound on kills,
errors and stops:

* `TypesHold`: `Spec => []TypeOK`, with `synced` never above the file's length.
* `VerdictsAreTrue` (`VerdictIsTrue`). The invariant `MailInv`: one writer is between
  its lock and its unlock (`OneHolder`), so the length it falls back to was the whole
  file's when it took it and nothing on the disk is above it (`RoomIsKept`); a writer
  that may say "filed" has its line on the disk (`FiledIsSynced`), because it is in the
  file when the flush comes (`WrittenIsThere`); and before its line, below its length and
  after its cut back there is no line of it (`NotBefore`).
* `NothingIsSkipped` (`NoneSkipped`), where the stops of the machine lose at most one
  line (`MaxLost <= 1`) and until a poll without the writers' lock has moved the cursor
  (`bare`); `MCInbox_two_lost` and `MCInbox_no_lock` (section 5) show that
  neither can go. The invariant is `bare \/ ReadInv`, and `bare` stays. `ReadInv` speaks of every cursor there is, on the disk, in memory or lost
  with a rename: it is past seen lines alone, whichever lines come and go (`Honest`), and
  no cut but a stop's goes below its count (`Reached`), so its count is at most one past
  the end and then the line it names is gone (`OffsetIsLow`). A poll that has the lock has
  no writer beside it until its lines are read (`LockedOut`), and what it read stays at
  the head of the inbox until it has moved the cursor (`BatchIsThere`).

**Only model-checked:** liveness (it needs fairness and ENABLED).

## 5. Where code and documents disagree

Two runs expect a violation; `findings` in `PROJECT.json` quotes the lines.

* `update_keeps`: `decide` persists before it looks at the phase. Between
  `commit_update` and the process exit the last window's EOF leaves an empty
  record, and the updated daemon resumes with no bound, although no window asked
  to keep (ADR 0050: "Ctrl+Q Yes is the only open-ended keep").
* `row_rolled_back`: a create makes its row visible before it takes the row's guard.
  An activation may take it first and start the row; the create's own launch then
  finds the fence claimed and the create unregisters the row while that supervisor
  serves, against the comments at `create.rs:388` and `start.rs:96`.

Ten more configurations are kept beside these and show what the passing runs leave
out; each is run by hand with `tlc -config X.cfg M` and ends in the violation it
names:

* `MCDaemonLease_stale_ack` (`AckNeverHidesANewerCount`): an ack clears the count if the
  *value* matches. Two windows told the same count, one ack, a new count of the same
  size, and the other's old ack hides it (`lease.rs:458`), against the comment at
  `notice_seen`.
* `MCDaemonLease_update_in_cleanup`: `persist` protects a startup Cleanup's record only
  in phase `Open`; after `commit_update` a departure rewrites it although no shutdown
  began, against the comment at `State::startup_cleanup`.
* `MCRowRun_replaced` (`TerminalIsTrue`): a second create of a stopped slug keeps the id
  but starts again at generation 0, so the first row's watchdog takes its own exit 69
  for the new row's (`watchdog.rs:136`).
* `MCRowRun_stale_owner` (`OwnerIsALiveWatchdog`): `undo_insert` puts back a row object
  whose owner token belongs to a watchdog that has returned (`mod.rs:142`).
* `MCRowRun_unlisted` (`ReportCoversRuns`): `row_rolled_back`'s case at a shutdown. An
  activation starts the row its create has just inserted, the gate closes, and the refused
  create unregisters it: the close lists no such row, reports it nowhere, and its agent
  serves on.
* `MCRowRun_left_exit` (`ExitLeftHasAWatchdog`): a resume whose spawn failed leaves a
  newer generation and no watchdog, and the observer leaves the exit to it
  (`observer.rs:60`).
* `MCDaemonEnd_retired` (`RetiredIsGone`): a chat start aborted by the retirement may
  already have made the service; `wait_retired` then answers while it lives
  (`retire.rs:28`). The fire still ends it.
* `MCInbox_dropped` (`NoneDropped`): `poll` writes the cursor (`poll.rs:96`) and touches
  the registry before `run_in` prints its lines (`cli/mod.rs:104`): a poll killed
  between has marked lines read that nobody saw. The usage says poll shows the mail
  "then move[s]" the cursor, and `cursor.rs:67` "a line shown twice is tolerable, a line
  dropped is not".
* `MCInbox_two_lost` (`NoneSkipped`): two lines that were counted by a poll before their
  flush are lost with the machine, and one is filed: the cursor is one past the end,
  which `offset` takes for "nothing filed since", and skips the new line.
* `MCInbox_no_lock` (`NoneLost`): a poll whose lock fails reads the inbox twice
  (`cursor.rs:77`, `poll.rs:83`). Where such a poll has counted a line that is not yet
  flushed, that line's cut back and two filings between the next one's two reads skip
  the first of the two, against what both printed: "none is lost" (`inbox.rs:233`).

The passing runs that check the same properties either exclude the case by their
loads (`daemon_custody` has no update, no `row_life` load has two creates of one slug,
or an activation of a created row that the close may meet,
`inbox` loses one line at most)
or state what the code does guarantee with it
(`NoneSkipped` holds until a poll without the lock has moved the cursor).

## 6. Plan

Done, in this order: `DaemonLease` with `Custody` and its proofs, `Link`,
`WindowLease`, `RowRun`, `DaemonEnd` and its proofs, `Inbox` and its proofs, then the
proofs of `DaemonLease`'s record and custody, of `WindowLease`, of `Link`'s streams and credit, of
`RowRun` and of `Inbox`'s readers. Left, in order of
importance:

1. **`LeaseSystem`**, the composition of `WindowLease` and `DaemonLease` over one FIFO
   stream per lease: what a window reports at its exit is what the daemon did. Today
   `WindowLease`'s `srv` and `count` stand for the daemon.
2. **Startup**: the Cleanup's claims, `forget` and `resume_all`'s order over several
   rows, and `retire_06`'s orphans, as loads of `RowRun` with a second row.
3. The rest of messaging (the registry and its lock, the links' table and the
   precedence of their answers, the wake), the clients' roster, the row capsule's
   supervisor, the updater's owner.

## 7. Not modelled

* *Lease:* a daemon without a state root (it writes no record), claims that are
  refused and lines that do not parse (they change no state), exit codes and log
  lines.
* *Link:* `link.hello` and the SSH child (before the first state), frames that do not
  parse or whose blob has the wrong length (no correct end sends them), the copy
  log, the blocking face's condvar (notified at every change, so a waiter looks
  again).
* *Window:* the notice's text, a grant that names no state root, the two keys of the
  quit question (its answer is the action).
* *Row:* the phases `foreign` and `ending`, the exit class 70 apart from the others, an
  activation's second probe apart from its first, Windows' late fence, the anchor row's kept
  end, the comm registry's contents, scopes other than "keeps", `agent.join` and
  reauth, the order of a startup's Cleanup, forget and resume over several rows. A
  create over a row that was removed is another row.
* *Process end:* Windows jobs and a failed adoption, `interrupt`, the readers of a
  child's output, the removal of folders at the retirement, the guard's job control
  stop and its own death.
* *Mail:* the registry, join and heartbeat, the links' table and the precedence of their
  answers, the wake, the lock manager record and its roles, a line that is empty or of
  another's handle, two lines of one hash, the old timestamp cursor, a cut that a stop
  of the machine undoes, what a failed flush leaves in the page cache.
* Liveness under fairness and ENABLED are outside the proof system and stay with TLC.
* The components marked `not_modelled` in `PROJECT.json`, each with its reason.
