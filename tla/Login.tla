------------------------------- MODULE Login -------------------------------
(***************************************************************************)
(* Settings with the login sessions of the web page                        *)
(* (src/userspace-gateway/internal/manager/server.go: route, login,        *)
(* logout, authSession).  A login checks the credentials of the snapshot   *)
(* that route has taken, which takes long because of bcrypt, and enters    *)
(* its session under the mutex afterwards; updateSettings drops all the    *)
(* sessions when it assigns other credentials.                             *)
(*                                                                         *)
(* Of the kept fields, this is about the password; the user name, which an *)
(* update always posts, is a variable of its own.  Calls are used once.    *)
(***************************************************************************)
EXTENDS Settings

CONSTANTS
  Logins,     \* calls of login with valid credentials
  UserNames   \* user names

ASSUME LoginAssumption == Logins \cap Calls = {}

VARIABLES
  name,       \* s.config.AdminUsername
  posted,     \* update: the user name it sets
  found,      \* update: currentUsername
  login,      \* login: control
  as,         \* login: user name and password it was checked against
  sessions,   \* s.authSessions, by the login that made them
  overtaken,  \* checking only: calls that were under way when credentials changed
  reverted    \* checking only: one of them was an update and has been assigned

nameVars  == <<name, posted, found>>
loginVars == <<login, as, sessions>>
allVars   == <<vars, nameVars, loginVars, overtaken, reverted>>

InForce == [name |-> name, password |-> config.kept]

LoginInit ==
  /\ Init
  /\ name \in UserNames
  /\ posted = [u \in Updates |-> name] /\ found = posted
  /\ login = [l \in Logins |-> "idle"]
  /\ as = [l \in Logins |-> InForce]
  /\ sessions = {} /\ overtaken = {} /\ reverted = FALSE

-----------------------------------------------------------------------------
(* Calls of login, logout and whatever asks for the session *)

LoginUnchanged == UNCHANGED <<vars, nameVars, overtaken, reverted>>

LoginReads(l) ==
  /\ Unlocked
  /\ login[l] = "idle" /\ login' = [login EXCEPT ![l] = "checking"]
  /\ as' = [as EXCEPT ![l] = InForce]
  /\ UNCHANGED sessions /\ LoginUnchanged
LoginEnters(l) ==
  /\ Unlocked
  /\ login[l] = "checking" /\ login' = [login EXCEPT ![l] = "done"]
  /\ sessions' = sessions \cup {l}
  /\ UNCHANGED as /\ LoginUnchanged

(* logout, and authSession when it finds the session expired *)
SessionEnds(l) ==
  /\ Unlocked /\ l \in sessions
  /\ sessions' = sessions \ {l}
  /\ UNCHANGED <<login, as>> /\ LoginUnchanged

-----------------------------------------------------------------------------
(* The calls of Settings *)

(* the process begins and ends without sessions, with the name of its file  *)
LoginStart ==
  /\ Start /\ name' \in UserNames /\ reverted' = FALSE
  /\ UNCHANGED <<posted, found, loginVars, overtaken>>
LoginCrash ==
  /\ Crash
  /\ sessions' = {}
  /\ login' = [l \in Logins |-> IF login[l] = "idle" THEN "idle" ELSE "done"]
  /\ UNCHANGED <<nameVars, as, overtaken, reverted>>

UpdateReads(u) ==
  /\ ReadKept(u)
  /\ found' = [found EXCEPT ![u] = name]
  /\ \E n \in UserNames : posted' = [posted EXCEPT ![u] = n]
  /\ UNCHANGED <<name, loginVars, overtaken, reverted>>

(* A password was posted, or a name other than the one found *)
ClearsPasswordOnly(u) == next[u].kept = u   \* mutant: the name is not compared
Clears(u) == next[u].kept = u \/ posted[u] # found[u]

UnderWay == {l \in Logins : login[l] = "checking"} \cup
            {u \in Updates : pc[u] \in {"read", "truncated", "saved"}}
UpdateAssigns(u) ==
  /\ Assign(u)
  /\ name' = posted[u]
  /\ sessions' = IF Clears(u) THEN {} ELSE sessions
  /\ overtaken' = IF InForce' = InForce THEN overtaken ELSE overtaken \cup (UnderWay \ {u})
  /\ reverted' = (reverted \/ u \in overtaken)
  /\ UNCHANGED <<posted, found, login, as>>

Others ==
  \/ StartFails
  \/ \E b \in Binds : Bind(b) \/ Assign(b)
  \/ \E c \in Calls : Reject(c) \/ Truncate(c) \/ Write(c) \/ WriteFails(c)

LoginNext ==
  \/ \E l \in Logins : LoginReads(l) \/ LoginEnters(l) \/ SessionEnds(l)
  \/ LoginStart \/ LoginCrash
  \/ \E u \in Updates : UpdateReads(u) \/ UpdateAssigns(u)
  \/ Others /\ UNCHANGED <<nameVars, loginVars, overtaken, reverted>>

LoginSpec == LoginInit /\ [][LoginNext]_allVars

-----------------------------------------------------------------------------
(* Whoever is logged in was let in with the user name and the password that *)
(* are in force: no login outlives a change of either, unless it was under  *)
(* way when they changed, or an update has brought back what it had read    *)
(* before another one changed it, which it does not take for a change.      *)
SessionsCurrent ==
  up /\ ~reverted => \A l \in sessions \ overtaken : as[l] = InForce
=============================================================================
