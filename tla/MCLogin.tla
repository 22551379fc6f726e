------------------------------ MODULE MCLogin ------------------------------
(***************************************************************************)
(* Two instances of Login for TLC in one run.  "file": two updates and a   *)
(* binding, crashes and two starts, and nobody logs in.  "login": logins   *)
(* against two updates, without a binding, in one life of the process.     *)
(***************************************************************************)
EXTENDS Login, TLC

CONSTANTS u1, u2, b1, n1, l1
Symmetry == Permutations(Updates)

VARIABLE instance

(* Only user names and passwords matter to the logins *)
Plain(c) == c.openvpn /\ c.valid /\ ~c.auto /\ c.node = NoNode /\ c.secret = Given

MCInit ==
  /\ LoginInit /\ instance \in {"file", "login"}
  /\ IF instance = "file" THEN name = "a" ELSE disk = "whole" /\ Plain(file)
Asked ==
  IF instance = "file" THEN <<nameVars, login>>' = <<nameVars, login>>
  ELSE /\ starts' <= 1 /\ \A b \in Binds : pc'[b] # "read"
       /\ \A u \in Updates : pc'[u] = "read" => Plain(next'[u])
MCNext == LoginNext /\ Asked /\ UNCHANGED instance
MCSpec == MCInit /\ [][MCNext]_<<allVars, instance>>
=============================================================================
