---------------------------- MODULE MCDaemonEnd ----------------------------
\* Instances of DaemonEnd: an async child c1, a blocking child c2, two callers
\* of exit, and the loads that put each hazard within a small bound.
EXTENDS DaemonEnd

CONSTANTS c1, c2, k1, k2

\* Two owners against the fire; requests may be refused, to the last retry.
Owners == [children |-> {c1, c2}, kids |-> {}, fails |-> 1, callers |-> {k1},
           crash |-> FALSE, chat |-> FALSE, prompt |-> FALSE]
Refusals(c) == [Owners EXCEPT !.children = {c}, !.fails = 4, !.kids = {c}]
\* Two trees and an escapee, a killed daemon, and a drain that must finish.
Orphans == [Owners EXCEPT !.fails = 0, !.kids = {c2}, !.crash = TRUE, !.prompt = TRUE]
\* The chat's begin, start and stop against the retirement.
Retires == [Owners EXCEPT !.children = {}, !.callers = {k1, k2}, !.chat = TRUE]

EndLoads == {Owners, Refusals(c1), Refusals(c2), Orphans, Retires}
=============================================================================
