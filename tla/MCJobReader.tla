---------------------------- MODULE MCJobReader ----------------------------
(* A small instance of JobReader: one owner, two jobs, blockers and results. *)
EXTENDS JobReader, TLC

CONSTANTS j1, j2, o1, w1, i1, i2

Event(kind, s) ==
    [kind |-> kind, predicate |-> kind, consumer |-> o1, intermediate |-> kind = "progress",
     state |-> s, resultRefs |-> {}, controlState |-> None]

ReaderEvents == {Event("progress", "running"), Event("blocker", None), Event("result", "succeeded")}
ReaderRequests == {[kind |-> "model", ownership |-> "controller", taskKey |-> None]}

JobSymmetry == Permutations({j1, j2})
=============================================================================
