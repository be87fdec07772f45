------------------------------ MODULE MCRowRun ------------------------------
(* Small instances of one row's life, and the loads each puts on it. *)
EXTENDS RowRun, TLC

CONSTANTS s1, s2, s3, d1, d2

Supervisor2 == {s1, s2}
Supervisor3 == {s1, s2, s3}
Dog1 == {d1}
Dog2 == {d1, d2}

Symmetry == Permutations(Supervisor3) \cup Permutations(Dog2)

Quiet == [boot |-> "unknown", ends |-> {}, intents |-> {}, misses |-> FALSE, closes |-> FALSE,
          creates |-> 0, attaches |-> 0, gens |-> 3, sups |-> 2]

\* A row loaded at boot, activated twice while its supervisor may die.
Restarts == [Quiet EXCEPT !.boot = "loaded", !.intents = {"selection", "reconnect"}, !.misses = TRUE,
                          !.attaches = 2, !.sups = 3]

\* A create, a destroy, and the shutdown.
Creates == [Quiet EXCEPT !.ends = {"destroy", "close"}, !.misses = TRUE, !.closes = TRUE, !.creates = 1]

\* A create, an activation and a destroy.
Races == [Quiet EXCEPT !.ends = {"destroy"}, !.intents = {"selection", "resume"}, !.misses = TRUE,
                       !.creates = 1, !.attaches = 1]

\* A loaded row activated while the daemon shuts down.
Shuts == [Quiet EXCEPT !.boot = "loaded", !.ends = {"close"}, !.intents = {"selection"}, !.misses = TRUE,
                       !.closes = TRUE, !.attaches = 1, !.gens = 2]

LifeLoads == {Restarts, Creates, Races, Shuts}

\* A create that the shutdown catches.
FairLoads == {[Quiet EXCEPT !.ends = {"close"}, !.closes = TRUE, !.creates = 1, !.gens = 2]}

\* A create and an activation of its row.
RolledBack == {[Quiet EXCEPT !.intents = {"selection"}, !.creates = 1, !.attaches = 1]}

\* The same, and the shutdown.
Unlisted == {[Quiet EXCEPT !.ends = {"close"}, !.intents = {"selection"}, !.closes = TRUE,
                           !.creates = 1, !.attaches = 1, !.gens = 2]}

\* Two creates of one slug.
Replaced == {[Quiet EXCEPT !.creates = 2]}

\* A resume of a row loaded at boot.
LeftExit == {[Quiet EXCEPT !.boot = "loaded", !.intents = {"resume"}, !.attaches = 1]}
=============================================================================
