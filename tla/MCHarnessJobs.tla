--------------------------- MODULE MCHarnessJobs ---------------------------
(* Small instances of HarnessJobs. *)
EXTENDS HarnessJobs, TLC

CONSTANTS j1, j2, o1, o2, watcher, w1, w2, i1, i2, k1, a1, h1, h2

Event(kind, consumer, s) ==
    [kind |-> kind, predicate |-> kind, consumer |-> consumer, intermediate |-> kind = "progress",
     state |-> s, resultRefs |-> {}, controlState |-> None]
WithRef(e, ref) == [e EXCEPT !.resultRefs = {ref}]
Request(kind, ownership, key) == [kind |-> kind, ownership |-> ownership, taskKey |-> key]

RefPairs == {<<a1, h1>>, <<a1, h2>>}

\* The ledger run: what producers report, two versions of one artifact.
LedgerEvents == {Event("progress", o1, "running"), WithRef(Event("result", o1, "succeeded"), <<a1, h1>>),
                 WithRef(Event("log", o1, None), <<a1, h2>>)}
LedgerRequests == {Request("model", "controller", k1), Request("process", "controller", k1),
                   Request("process", "turn", None)}

\* The wake run: two consumers, an intermediate receipt, a repeated blocker.
WakeEvents == {Event("blocker", o1, None), Event("blocker", watcher, None),
               Event("progress", o1, "running")}
WakeRequests == {Request("model", "controller", None)}

JobSymmetry == Permutations({j1, j2})
WakeSymmetry == Permutations({j1, j2}) \cup Permutations({w1, w2})
=============================================================================
