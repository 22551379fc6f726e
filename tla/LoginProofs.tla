---------------------------- MODULE LoginProofs ----------------------------
(***************************************************************************)
(* Theorems about Login, for every number of updates, bindings and logins. *)
(***************************************************************************)
EXTENDS Login, SettingsProofs

USE DEF Calls, fileVars, noteVars, vars, nameVars, loginVars, LoginUnchanged

Busy == {"read", "truncated", "saved"}

(* The invariant: a binding keeps the mutex and the password there is; an   *)
(* update that nobody has overtaken has read what is in force; and so has   *)
(* a login, before and after it has its session.                            *)
Shapes ==
  /\ login \in [Logins -> {"idle", "checking", "done"}] /\ DOMAIN as = Logins
  /\ DOMAIN posted = Updates /\ DOMAIN found = Updates
  /\ sessions \subseteq Logins
HeldBinds ==
  \A b \in Binds : pc[b] \in Busy => holder = b /\ next[b].kept = config.kept
ReadUpdates ==
  \A u \in Updates \ overtaken :
    pc[u] \in Busy => found[u] = name /\ next[u].kept \in {u, config.kept}
LoggedIn ==
  /\ ~up => sessions = {} /\ \A l \in Logins : login[l] # "checking"
  /\ ~reverted => \A l \in Logins \ overtaken :
       l \in sessions \/ login[l] = "checking" => as[l] = InForce
LInv == Inv /\ Shapes /\ HeldBinds /\ ReadUpdates /\ LoggedIn

LEMMA Apart == Logins \cap Updates = {} /\ Updates \cap Binds = {} /\ NoCall \notin Calls
BY LoginAssumption, SettingsAssumption DEF LoginAssumption, SettingsAssumption

(* A step of Login is one of Settings or leaves its variables alone.        *)
LEMMA StepIsSettings == LoginNext => [Next]_vars
<1> SUFFICES ASSUME LoginNext PROVE Next \/ UNCHANGED vars
  OBVIOUS
<1>1. CASE \E l \in Logins : LoginReads(l) \/ LoginEnters(l) \/ SessionEnds(l)
  BY <1>1 DEF LoginReads, LoginEnters, SessionEnds
<1>2. CASE LoginStart \/ LoginCrash
  BY <1>2 DEF LoginStart, LoginCrash, Next
<1>3. CASE \E u \in Updates : UpdateReads(u) \/ UpdateAssigns(u)
  BY <1>3 DEF UpdateReads, UpdateAssigns, Next
<1>4. CASE Others
  BY <1>4 DEF Others, Next
<1> QED
  BY <1>1, <1>2, <1>3, <1>4 DEF LoginNext

LEMMA LoginInitInv == LoginInit => LInv
<1> SUFFICES ASSUME LoginInit PROVE LInv
  OBVIOUS
<1>1. Inv
  BY InitInv DEF LoginInit
<1>2. \A c \in Calls : pc[c] \notin Busy
  BY DEF LoginInit, Init, Busy
<1> QED
  BY <1>1, <1>2 DEF LoginInit, LInv, Shapes, HeldBinds, ReadUpdates, LoggedIn

(* What the calls of login and logout do.                                   *)
LEMMA LoginStepInv ==
  ASSUME LInv, NEW l \in Logins, LoginReads(l) \/ LoginEnters(l) \/ SessionEnds(l)
  PROVE  LInv'
<1>1. Inv'
  BY NextInv DEF LInv, LoginReads, LoginEnters, SessionEnds
<1>2. HeldBinds' /\ ReadUpdates'
  BY DEF LInv, HeldBinds, ReadUpdates, LoginReads, LoginEnters, SessionEnds
<1>3. up' = up /\ up /\ reverted' = reverted /\ overtaken' = overtaken /\ InForce' = InForce
  BY DEF LoginReads, LoginEnters, SessionEnds, Unlocked, InForce
<1>4. Shapes'
  BY DEF LInv, Shapes, LoginReads, LoginEnters, SessionEnds
<1>5. \A k \in Logins \ overtaken :
        (k \in sessions' \/ login'[k] = "checking") /\ ~reverted => as'[k] = InForce
  <2> SUFFICES ASSUME NEW k \in Logins \ overtaken, ~reverted,
                      k \in sessions' \/ login'[k] = "checking"
               PROVE  as'[k] = InForce
    OBVIOUS
  <2>1. CASE k = l /\ LoginReads(l)
    BY <2>1 DEF LInv, Shapes, LoginReads
  <2>2. CASE ~(k = l /\ LoginReads(l))
    <3>1. as'[k] = as[k]
      BY <2>2 DEF LInv, Shapes, LoginReads, LoginEnters, SessionEnds
    <3>2. k \in sessions \/ login[k] = "checking"
      BY <2>2 DEF LInv, Shapes, LoginReads, LoginEnters, SessionEnds
    <3> QED
      BY <3>1, <3>2 DEF LInv, LoggedIn
  <2> QED
    BY <2>1, <2>2
<1> QED
  BY <1>1, <1>2, <1>3, <1>4, <1>5 DEF LInv, LoggedIn

(* The process begins and ends with nothing under way.                      *)
LEMMA ProcessInv == ASSUME LInv, LoginStart \/ LoginCrash PROVE LInv'
<1>1. Inv'
  BY NextInv DEF LInv, LoginStart, LoginCrash, Next
<1>2. \A c \in Calls : pc'[c] \notin Busy
  <2>1. CASE LoginStart
    BY <2>1 DEF LInv, Inv, DownIsQuiet, Saving, LoginStart, Start, Busy
  <2>2. CASE LoginCrash
    BY <2>2 DEF LInv, LoginCrash, Crash, Busy
  <2> QED
    BY <2>1, <2>2
<1>3. HeldBinds' /\ ReadUpdates'
  BY <1>2 DEF HeldBinds, ReadUpdates
<1>4. CASE LoginStart
  <2>1. ~up /\ up' /\ sessions' = {} /\ \A l \in Logins : login'[l] # "checking"
    BY <1>4 DEF LInv, LoggedIn, LoginStart, Start
  <2>2. Shapes'
    BY <1>4 DEF LInv, Shapes, LoginStart
  <2> QED
    BY <1>1, <1>3, <2>1, <2>2 DEF LInv, LoggedIn
<1>5. CASE LoginCrash
  <2>1. Shapes' /\ sessions' = {} /\ \A l \in Logins : login'[l] # "checking"
    BY <1>5 DEF LInv, Shapes, LoginCrash
  <2> QED
    BY <1>1, <1>3, <2>1 DEF LInv, LoggedIn
<1> QED
  BY <1>4, <1>5

LEMMA UpdateReadsInv == ASSUME LInv, NEW u \in Updates, UpdateReads(u) PROVE LInv'
<1>1. Inv'
  BY NextInv DEF LInv, UpdateReads, Next
<1>2. Shapes' /\ LoggedIn'
  BY DEF LInv, Shapes, LoggedIn, InForce, UpdateReads, ReadKept
<1>3. next'[u].kept \in {u, config.kept}
  <2>1. PICK body \in Bodies, blank \in BOOLEAN :
          next' = [next EXCEPT ![u] = Merged(u, body, blank)]
    BY DEF UpdateReads, ReadKept
  <2>2. next'[u] = Merged(u, body, blank)
    BY <2>1 DEF LInv, Inv, TypeOK
  <2>3. config.kept # "raw" /\ u # "raw"
    BY Names DEF LInv, Inv, InMemory, Normal
  <2>4. [body EXCEPT !.kept = IF blank THEN config.kept ELSE u].kept
          = IF blank THEN config.kept ELSE u
    BY DEF Bodies, ConfigOf
  <2> QED
    BY <2>2, <2>3, <2>4 DEF Merged, Normalize
<1>4. ReadUpdates'
  BY <1>3 DEF LInv, Inv, TypeOK, Shapes, ReadUpdates, UpdateReads, ReadKept, Goto
<1>5. HeldBinds'
  BY Apart DEF LInv, Inv, TypeOK, HeldBinds, UpdateReads, ReadKept, Goto
<1> QED
  BY <1>1, <1>2, <1>4, <1>5 DEF LInv

(* An assignment of other credentials either clears the sessions or is one  *)
(* of an update that was overtaken.                                         *)
LEMMA UpdateAssignsInv == ASSUME LInv, NEW u \in Updates, UpdateAssigns(u) PROVE LInv'
<1> USE DEF UpdateAssigns, Assign, Goto
<1>1. Inv'
  BY NextInv DEF LInv, Next
<1>2. up /\ pc[u] = "saved" /\ u \in Calls
  OBVIOUS
<1>3. pc' = [pc EXCEPT ![u] = "over"] /\ \A c \in Calls : pc'[c] = IF c = u THEN "over" ELSE pc[c]
  BY DEF LInv, Inv, TypeOK
<1>4. \A b \in Binds : pc[b] \notin Busy
  <2>1. \A b \in Binds : pc[b] \in Busy => holder = b
    BY DEF LInv, HeldBinds
  <2> QED
    BY <2>1, Apart
<1>5. HeldBinds'
  BY <1>3, <1>4, Apart DEF HeldBinds, Busy
<1>6. Shapes'
  BY DEF LInv, Shapes
<1>7. InForce' = InForce => config'.kept = config.kept /\ name' = name
  BY DEF InForce
<1>8. InForce' # InForce => UnderWay \ {u} \subseteq overtaken'
  OBVIOUS
<1>9. overtaken \subseteq overtaken'
  OBVIOUS
<1>10. ReadUpdates'
  <2> SUFFICES ASSUME NEW v \in Updates \ overtaken', pc'[v] \in Busy
               PROVE  found'[v] = name' /\ next'[v].kept \in {v, config'.kept}
    BY DEF ReadUpdates
  <2>1. v # u /\ pc[v] \in Busy
    BY <1>3 DEF Busy
  <2>2. v \in UnderWay
    BY <2>1 DEF UnderWay, Busy
  <2>3. InForce' = InForce
    BY <1>8, <2>1, <2>2
  <2>4. found[v] = name /\ next[v].kept \in {v, config.kept}
    BY <1>9, <2>1 DEF LInv, ReadUpdates
  <2> QED
    BY <1>7, <2>3, <2>4
<1>11. LoggedIn'
  <2> SUFFICES ASSUME ~reverted', NEW l \in Logins \ overtaken',
                      l \in sessions' \/ login'[l] = "checking"
               PROVE  as'[l] = InForce'
    BY <1>2 DEF LoggedIn
  <2>1. ~reverted /\ u \notin overtaken
    OBVIOUS
  <2>2. as[l] = InForce
    BY <1>9, <2>1 DEF LInv, LoggedIn
  <2>3. InForce' = InForce
    <3> SUFFICES ASSUME InForce' # InForce PROVE FALSE
      OBVIOUS
    <3>1. login[l] # "checking"
      BY <1>8, Apart DEF UnderWay
    <3>2. sessions' # {} /\ ~Clears(u)
      BY <3>1
    <3>3. found[u] = name /\ next[u].kept = config.kept
      BY <1>2, <2>1, <3>2 DEF LInv, ReadUpdates, Clears, Busy
    <3>4. config'.kept = config.kept /\ name' = name
      BY <3>2, <3>3 DEF Clears
    <3> QED
      BY <3>4 DEF InForce
  <2> QED
    BY <2>2, <2>3
<1> QED
  BY <1>1, <1>5, <1>6, <1>10, <1>11 DEF LInv

(* The rest leaves the credentials as they are.                             *)
LEMMA OthersInv ==
  ASSUME LInv, Others, UNCHANGED <<nameVars, loginVars, overtaken, reverted>>
  PROVE  LInv'
<1>1. Inv'
  BY NextInv DEF LInv, Others, Next
<1>2. Shapes'
  BY DEF LInv, Shapes
<1>3. ASSUME HeldBinds', ReadUpdates', up' = up, config'.kept = config.kept PROVE LInv'
  BY <1>1, <1>2, <1>3 DEF LInv, LoggedIn, InForce
<1>4. CASE StartFails
  <2>1. HeldBinds' /\ ReadUpdates' /\ config' = config /\ up' = up
    BY <1>4 DEF LInv, HeldBinds, ReadUpdates, StartFails
  <2> QED
    BY <1>3, <2>1
<1>5. ASSUME NEW b \in Binds, Bind(b) PROVE LInv'
  <2>1. PICK n \in NodeIDs : next' = [next EXCEPT ![b] = Normalize([config EXCEPT !.node = n], Given)]
    BY <1>5 DEF Bind
  <2>2. next'[b] = Normalize([config EXCEPT !.node = n], Given)
    BY <2>1 DEF LInv, Inv, TypeOK
  <2>3. [config EXCEPT !.node = n].kept = config.kept /\ config.kept # "raw"
    BY DEF LInv, Inv, TypeOK, InMemory, Normal, Configs, ConfigOf
  <2>4. next'[b].kept = config.kept
    BY <2>2, <2>3 DEF Normalize
  <2>5. \A d \in Binds : pc[d] \notin Busy
    BY <1>5, Apart DEF LInv, HeldBinds, Bind, Unlocked
  <2>6. \A d \in Calls : pc'[d] = IF d = b THEN "read" ELSE pc[d]
    BY <1>5 DEF LInv, Inv, TypeOK, Bind, Goto
  <2>7. HeldBinds'
    BY <1>5, <2>4, <2>5, <2>6 DEF HeldBinds, Bind
  <2>8. ReadUpdates'
    <3>1. \A u \in Updates : pc'[u] = pc[u] /\ next'[u] = next[u]
      BY <1>5, <2>1, <2>6, Apart DEF LInv, Inv, TypeOK
    <3> QED
      BY <1>5, <3>1 DEF LInv, ReadUpdates, Bind
  <2> QED
    BY <1>3, <1>5, <2>7, <2>8 DEF Bind
<1>6. ASSUME NEW b \in Binds, Assign(b) PROVE LInv'
  <2>1. config'.kept = config.kept
    BY <1>6 DEF LInv, HeldBinds, Assign, Goto, Busy
  <2>2. \A d \in Calls : pc'[d] = IF d = b THEN "over" ELSE pc[d]
    BY <1>6 DEF LInv, Inv, TypeOK, Assign, Goto
  <2>3. HeldBinds'
    BY <1>6, <2>1, <2>2, Apart DEF LInv, HeldBinds, Assign, Release, Busy
  <2>4. ReadUpdates'
    BY <1>6, <2>1, <2>2, Apart DEF LInv, ReadUpdates, Assign
  <2> QED
    BY <1>3, <1>6, <2>1, <2>3, <2>4 DEF Assign
<1>7. ASSUME NEW c \in Calls, Reject(c) \/ Truncate(c) \/ Write(c) \/ WriteFails(c) PROVE LInv'
  <2>1. config' = config /\ next' = next /\ up' = up
    BY <1>7 DEF Reject, Truncate, Write, WriteFails
  <2>2. \A d \in Calls : pc'[d] \in Busy => pc[d] \in Busy /\ (d = c => holder' = holder)
    BY <1>7 DEF LInv, Inv, TypeOK, Reject, Truncate, Write, WriteFails, Goto, Busy
  <2>3. \A d \in Calls : holder = d /\ d # c => holder' = d
    BY <1>7 DEF Reject, Truncate, Write, WriteFails, Release
  <2>4. HeldBinds'
    BY <2>1, <2>2, <2>3 DEF LInv, HeldBinds
  <2>5. ReadUpdates'
    BY <2>1, <2>2 DEF LInv, ReadUpdates
  <2> QED
    BY <1>3, <2>1, <2>4, <2>5
<1> QED
  BY <1>4, <1>5, <1>6, <1>7 DEF Others

LEMMA LoginNextInv == LInv /\ [LoginNext]_allVars => LInv'
<1> SUFFICES ASSUME LInv, [LoginNext]_allVars PROVE LInv'
  OBVIOUS
<1>1. CASE UNCHANGED allVars
  <2>1. Inv'
    BY <1>1, NextInv DEF LInv, allVars
  <2> QED
    BY <1>1, <2>1 DEF LInv, allVars, Shapes, HeldBinds, ReadUpdates, LoggedIn, InForce
<1> QED
  BY <1>1, LoginStepInv, ProcessInv, UpdateReadsInv, UpdateAssignsInv, OthersInv DEF LoginNext

-----------------------------------------------------------------------------
(* Login adds to Settings and takes nothing away: what is proved of         *)
(* Settings holds with logins going on.                                     *)
THEOREM LoginKeepsSettings == LoginSpec => Spec
<1>1. LoginInit => Init
  BY DEF LoginInit
<1>2. [LoginNext]_allVars => [Next]_vars
  BY StepIsSettings DEF allVars
<1> QED
  BY <1>1, <1>2, PTL DEF LoginSpec, Spec

(* Every session is for the user name and the password in force, except     *)
(* for the logins and updates that were under way when those changed.       *)
THEOREM LoggedInIsCurrent == LoginSpec => []SessionsCurrent
<1>1. LInv => SessionsCurrent
  BY DEF LInv, Shapes, LoggedIn, SessionsCurrent
<1>2. LoginSpec => []LInv
  BY LoginInitInv, LoginNextInv, PTL DEF LoginSpec
<1> QED
  BY <1>1, <1>2, PTL

(* BlankKeeps fails in one way only: as long as no update is assigned that  *)
(* was under way while another one changed the user name or the password,   *)
(* the value in force of the fields an update may leave blank is the one    *)
(* that the last call to set it has set.                                    *)
THEOREM BlankKeptUnlessOvertaken == LoginSpec => [](~reverted => BlankKeeps)
<1> DEFINE Kept == up /\ ~reverted => config.kept = typed
<1>1. LoginInit => Kept
  BY DEF LoginInit, Init
<1>2. LInv /\ Kept /\ [LoginNext]_allVars => Kept'
  <2> SUFFICES ASSUME LInv, Kept, LoginNext PROVE Kept'
    BY DEF allVars
  <2>1. CASE \E l \in Logins : LoginReads(l) \/ LoginEnters(l) \/ SessionEnds(l)
    <3>1. UNCHANGED <<up, config, typed, reverted>>
      BY <2>1 DEF LoginReads, LoginEnters, SessionEnds
    <3> QED
      BY <3>1
  <2>2. CASE LoginStart \/ LoginCrash
    <3>1. CASE LoginStart
      BY <3>1 DEF LoginStart, Start
    <3>2. CASE LoginCrash
      BY <3>2 DEF LoginCrash, Crash
    <3> QED
      BY <2>2, <3>1, <3>2
  <2>3. ASSUME NEW u \in Updates, UpdateReads(u) PROVE Kept'
    BY <2>3 DEF UpdateReads, ReadKept
  <2>4. ASSUME NEW u \in Updates, UpdateAssigns(u) PROVE Kept'
    <3>1. up /\ config' = next[u] /\ typed' = (IF next[u].kept = u THEN u ELSE typed)
          /\ pc[u] \in Busy /\ reverted' = (reverted \/ u \in overtaken)
      BY <2>4 DEF UpdateAssigns, Assign, Goto, Busy
    <3>2. u \notin overtaken => next[u].kept \in {u, config.kept}
      BY <3>1 DEF LInv, ReadUpdates
    <3> QED
      BY <3>1, <3>2
  <2>5. ASSUME NEW b \in Binds, Assign(b), UNCHANGED reverted PROVE Kept'
    <3>1. next[b].kept = config.kept /\ config' = next[b] /\ up
          /\ typed' = IF next[b].kept = b THEN b ELSE typed
      BY <2>5 DEF LInv, HeldBinds, Assign, Goto, Busy
    <3> QED
      BY <2>5, <3>1
  <2>6. ASSUME StartFails \/ (\E b \in Binds : Bind(b))
               \/ \E c \in Calls : Reject(c) \/ Truncate(c) \/ Write(c) \/ WriteFails(c),
               UNCHANGED reverted
        PROVE  Kept'
    BY <2>6 DEF StartFails, Bind, Reject, Truncate, Write, WriteFails
  <2> QED
    BY <2>1, <2>2, <2>3, <2>4, <2>5, <2>6 DEF LoginNext, Others
<1>3. LoginSpec => []LInv
  BY LoginInitInv, LoginNextInv, PTL DEF LoginSpec
<1>4. Kept => (~reverted => BlankKeeps)
  BY DEF BlankKeeps
<1> HIDE DEF Kept
<1> QED
  BY <1>1, <1>2, <1>3, <1>4, PTL DEF LoginSpec
=============================================================================
