------------------------------- MODULE MCLink -------------------------------
(* Link on small instances: the loads a link is put under. *)
EXTENDS Link

Channel1 == Ends \X {1}
Idle == [active |-> {}, talkers |-> {}, readers |-> {}, ends |-> TRUE, chans |-> 1, bytes |-> 0, pipe |-> 1]

\* One channel's stream, window to router, with every way to end it.
Stream == [Idle EXCEPT !.active = Channel1, !.talkers = {<<"window", 1>>}, !.bytes = 6, !.pipe = 3]

\* Two channels opened, one past the limit, refused, abandoned and closed.
Churn == [Idle EXCEPT !.active = Ends \X {1, 2}, !.talkers = {<<"router", 1>>}, !.chans = 2, !.bytes = 1, !.pipe = 2]

\* Nobody reads channel 0, which the far end fills; channel 1 is used.
Stall == [Idle EXCEPT !.active = Channel1, !.talkers = {<<"router", 0>>, <<"router", 1>>}, !.readers = {<<"window", 1>>},
                      !.ends = FALSE, !.bytes = 2]

\* Channel 1, the far user of channel 0, and every end of the link.
Cut == [Idle EXCEPT !.active = Channel1 \cup {<<"router", 0>>}]

SafeLoads == {Stream, Churn}
FairLoads == {Stall, Cut}
============================================================================
