---------------------------- MODULE MCPMResource ----------------------------
(* The definition and the errands the run of PMResource is checked for. *)
EXTENDS PMResource, TLC

\* Clients are interchangeable, and so are children created alike.
Symmetric == Permutations(Requests) \cup Permutations(Kids)

\* What raw clients call, besides what the scripts do.
MCOps == [t \in Requests |-> AllOps \ {"child", "stop"}]

\* A service that is never restarted.
Plain == {[inits |-> 0, oneShot |-> FALSE, noRestart |-> TRUE, health |-> FALSE]}

Errand(g, k, w) == [goal |-> g, kept |-> k, wait |-> w]

\* Stop, and Start that waits, and keeps a running child it finds.
StartAndStop == {Errand("stop", FALSE, FALSE), Errand("start", TRUE, TRUE)}

\* What a client that makes no calls was answered last, and what it had set out to do, makes
\* no difference to what follows; nor does how a child was that no one holds any more.
Rests(t) == t \in Requests /\ thread[t].pc = "idle" /\ ~Calling(t)
Spent(k) == kid[k].mgr = "reaped" /\ \A t \in Threads : thread[t].kid # k
Essence ==
  <<server, forced, mu, children, owner, term,
    [k \in Kids |-> IF Spent(k) THEN [kid[k] EXCEPT !.state = "stopped", !.killing = FALSE]
                    ELSE kid[k]],
    [t \in Threads |-> IF Rests(t) THEN Idler ELSE thread[t]],
    [t \in Requests |-> IF Rests(t) /\ script[t].goal # "raw" THEN Resting ELSE script[t]]>>
=============================================================================
