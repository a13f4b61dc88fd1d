--------------------------- MODULE BlinkProperties ---------------------------
(***************************************************************************)
(* What the BLINK-v5 runner promises.                                      *)
(***************************************************************************)
EXTENDS BlinkRunner

\* A server nobody will tell to stop, while nobody asks it anything either:
\* its runner is gone, or waits for it to end by itself.
Untold(r) == ServerAlive(r) /\ ~termed[r] /\ (Over(r) \/ At(r, "await"))

\* A server that is no longer protected by the lock it inherited: its runner
\* unlocked the description before it knew the server's pid, or after the
\* leader of its group had ended.
Stray(r) ==
    /\ At(r, "exited")
    /\ server[r] = "headless" \/ (ServerAlive(r) /\ ~named[r] /\ signals[r] > 0)

Disturbed(r) == signals[r] > 0 \/ At(r, "killed")

(***************************************************************************)
(* Safety.                                                                 *)
(***************************************************************************)
\* "The global GPU lock": the servers of two runners, one of which may be dead
\* and succeeded by the other, never share the GPUs but for a stray one.
ServersExclude ==
    \A r, s \in Runners :
        r # s /\ ServerAlive(r) /\ ServerAlive(s) => Stray(r) \/ Stray(s)

\* A row scored by another runner's server was scored by a stray one: the
\* readiness probe and the scorer ask whoever has the port.
OwnAnswers ==
    \A r \in Runners :
        "other" \in kinds[r] => \E s \in Runners \ {r} : At(s, "exited") /\ ~named[s]

\* A root whose runners all exited says how they ended, and says complete
\* only over an aggregate, wherever a signal or a failure met them.
ExitLeavesVerdict ==
    \A k \in Roots :
        (\A r \in Runners : root[r] = k => pc[r] \in {"idle", "exited"}) =>
            \/ status[k] \in {"absent", "made", "failed"}
            \/ status[k] = "complete" /\ receipt[k] = "present"

(***************************************************************************)
(* Liveness.                                                               *)
(***************************************************************************)
\* Whoever waits for the lock gets it, unless a signal or a kill left a
\* server behind.
WaiterGetsLock ==
    \A r \in Runners :
        At(r, "lock") ~> ~At(r, "lock") \/ \E s \in Runners : Untold(s) /\ Disturbed(s)

=============================================================================
