-------------------------- MODULE MCProxyLeaseLive --------------------------
(***************************************************************************)
(* Two instances of ProxyLease for TLC in one run, with fairness.          *)
(* "expiry": one request and one client, two nodes, and time that passes   *)
(* until a lease has run out; nodes are not probed by anybody else.        *)
(* "calls": two requests and two clients that run into each other on one   *)
(* node, and time that may stop, for whether a call ends does not depend   *)
(* on it.                                                                  *)
(***************************************************************************)
EXTENDS MCProxyLease

VARIABLE instance
mcVars == <<vars, instance>>

MCInit == Init /\ instance \in {"expiry", "calls"}

Asked ==
  IF instance = "expiry"
  THEN pc'[r2] = "idle" /\ rpc'[p2] = "idle" /\ (failed' # failed => pc' # pc)
  ELSE clock' <= 1 /\ proxyCache'[2] = proxyCache[2] /\ refreshing' \cup failed' \subseteq {1}

MCNext == Next /\ Asked /\ UNCHANGED instance
MCFairness ==
  /\ WF_vars(instance = "expiry" /\ Tick)
  /\ WF_vars(Janitor) /\ RequestsGoOn /\ ReleasesGoOn
MCFairSpec == MCInit /\ [][MCNext]_mcVars /\ MCFairness
=============================================================================
