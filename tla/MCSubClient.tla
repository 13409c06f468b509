----------------------------- MODULE MCSubClient -----------------------------
(***************************************************************************)
(* Small instances of SubClient: with and without -C, -R, -v and -T, two   *)
(* messages in the queue and two runs.                                     *)
(***************************************************************************)
EXTENDS SubClient

TwoTopics == {"a", "b"}

Plain   == [msg_count |-> 0, no_retain |-> FALSE, verbose |-> FALSE,
            topics |-> TwoTopics, filter_outs |-> {}]
Count2  == [Plain EXCEPT !.msg_count = 2]
AllWays == {Plain, Count2, [Count2 EXCEPT !.no_retain = TRUE, !.filter_outs = {"b"}],
            [Plain EXCEPT !.msg_count = 1, !.verbose = TRUE], [Plain EXCEPT !.topics = {"a"}]}
Counts  == {Count2, [Plain EXCEPT !.msg_count = 3]}
=============================================================================
