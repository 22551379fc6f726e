--------------------------- MODULE SettingsProofs ---------------------------
(***************************************************************************)
(* Theorems about Settings, for every number of calls, nodes and starts.   *)
(***************************************************************************)
EXTENDS Settings, TLAPS

USE DEF Calls, Usable, Missing, Given, Redrawn, fileVars, noteVars

(* What a normalized configuration is like; normalizing it changes nothing. *)
Normal(c) == c.kept # "raw" /\ (c.auto => Usable(c))

LEMMA Names ==
  /\ \A c \in Calls : c # NoCall /\ c # "start" /\ c # "raw"
  /\ NoNode \notin NodeIDs /\ MaxStarts \in Nat /\ Updates \cap Binds = {}
BY SettingsAssumption DEF SettingsAssumption

LEMMA Drawn == Given \in 1..Redrawn /\ Redrawn \in 1..Redrawn /\ \A n \in 0..MaxStarts : n + 1 \in 1..Redrawn
BY Names

AnyConfigs == ConfigOf({"start", "raw"} \cup Updates, 0..Redrawn)
LEMMA ConfigsAreAny == Configs \cup RawConfigs \cup Bodies \subseteq AnyConfigs
BY Names DEF Configs, RawConfigs, Bodies, AnyConfigs, ConfigOf

LEMMA NormalizeNormal ==
  ASSUME NEW c \in AnyConfigs, NEW d \in 1..Redrawn
  PROVE  /\ Normalize(c, d) \in Configs /\ Normal(Normalize(c, d))
         /\ Normalize(c, d).valid = c.valid
<1> DEFINE kept == IF c.kept = "raw" THEN "start" ELSE c.kept
           secret == IF c.secret = Missing THEN d ELSE c.secret
<1>1. kept \in {"start"} \cup Updates /\ kept # "raw"
  BY Names DEF AnyConfigs, ConfigOf
<1>2. secret \in 1..Redrawn
  BY Names DEF AnyConfigs, ConfigOf
<1> HIDE DEF kept, secret
<1>3. Normalize(c, d) = [c EXCEPT !.auto = @ /\ Usable(c), !.kept = kept, !.secret = secret]
  BY DEF Normalize, kept, secret, AnyConfigs, ConfigOf
<1> QED
  BY <1>1, <1>2, <1>3 DEF Configs, AnyConfigs, ConfigOf, Normal

LEMMA NormalIsFixed ==
  ASSUME NEW c \in Configs, Normal(c), NEW d
  PROVE  Normalize(c, d) = c
<1>1. c = [auto |-> c.auto, openvpn |-> c.openvpn, node |-> c.node, kept |-> c.kept,
           secret |-> c.secret, valid |-> c.valid]
  BY DEF Configs, ConfigOf
<1>3. c.secret # Missing
  BY Names DEF Configs, ConfigOf
<1>2. c.auto = (c.auto /\ Usable(c)) /\ c.auto \in BOOLEAN
  BY DEF Configs, ConfigOf, Normal
<1> QED
  BY <1>1, <1>2, <1>3 DEF Configs, ConfigOf, Normal, Normalize

LEMMA DefaultNormal ==
  /\ Default \in Configs /\ Normal(Default) /\ Default.valid
  /\ [Default EXCEPT !.secret = Missing] \in RawConfigs
BY Drawn DEF Default, Configs, RawConfigs, ConfigOf, Normal

(* What an update makes of a body, a binding of the configuration in force. *)
LEMMA MergedNormal ==
  ASSUME NEW u \in Updates, NEW body \in Bodies, NEW blank \in BOOLEAN, config \in Configs
  PROVE  Merged(u, body, blank) \in Configs /\ Normal(Merged(u, body, blank))
<1> DEFINE filled == [body EXCEPT !.kept = IF blank THEN config.kept ELSE u]
<1>1. body \in AnyConfigs /\ config.kept \in {"start"} \cup Updates
  BY ConfigsAreAny DEF Configs, ConfigOf
<1>2. filled \in AnyConfigs
  BY <1>1 DEF AnyConfigs, ConfigOf
<1> QED
  BY <1>2, Drawn, NormalizeNormal DEF Merged
LEMMA BoundNormal ==
  ASSUME NEW n \in NodeIDs, config \in Configs
  PROVE  LET c == Normalize([config EXCEPT !.node = n], Given)
         IN  c \in Configs /\ Normal(c)
<1>1. [config EXCEPT !.node = n] \in Configs
  BY DEF Configs, ConfigOf
<1> QED
  BY <1>1, Drawn, ConfigsAreAny, NormalizeNormal

-----------------------------------------------------------------------------
(* The invariant: everything in memory is normalized, what is being saved   *)
(* is valid, and as long as nothing disturbed the saves there is at most    *)
(* one, whose file is as far as its call is.                                *)
InMemory ==
  /\ Normal(config) /\ (up => config.valid /\ (disk = "torn" \/ file.valid))
  /\ \A c \in Calls : Normal(next[c]) /\ (c \in Saving => next[c].valid)
FileFollows ==
  up /\ ~disturbed =>
    /\ \A c, d \in Saving : c = d
    /\ \A c \in Calls : pc[c] = "truncated" => c \notin over
    /\ \A c \in Calls : pc[c] = "saved" => disk = "whole" /\ Normalize(file, starts) = next[c]
    /\ Saving = {} => disk = "whole" /\ Normalize(file, starts) = config
DownIsQuiet == ~up => Saving = {} /\ \A c \in Calls : pc[c] # "read"
FileDefault == disk = "missing" => file = [Default EXCEPT !.secret = Missing]
Inv == TypeOK /\ InMemory /\ FileFollows /\ DownIsQuiet /\ FileDefault

LEMMA InitInv == Init => Inv
<1> SUFFICES ASSUME Init PROVE Inv
  OBVIOUS
<1>1. Saving = {}
  BY DEF Init, Saving
<1>2. TypeOK
  <2>1. file \in Configs \cup RawConfigs /\ disk \in {"missing", "torn", "whole"}
    BY DefaultNormal DEF Init
  <2>2. config \in Configs /\ next \in [Calls -> Configs] /\ pc \in [Calls -> CallStates]
    BY DefaultNormal DEF Init, CallStates
  <2>3. starts \in 0..MaxStarts
    BY Names DEF Init
  <2>4. up \in BOOLEAN /\ disturbed \in BOOLEAN /\ over \subseteq Calls
    BY DEF Init
  <2>5. holder \in Calls \cup {NoCall} /\ typed \in {"start"} \cup Updates
    BY DEF Init
  <2> QED
    BY <2>1, <2>2, <2>3, <2>4, <2>5 DEF TypeOK
<1>3. InMemory
  BY <1>1, DefaultNormal DEF Init, InMemory
<1>4. FileFollows
  BY DEF Init, FileFollows
<1>5. DownIsQuiet
  BY <1>1 DEF Init, DownIsQuiet
<1>6. FileDefault
  BY DEF Init, FileDefault
<1> QED
  BY <1>2, <1>3, <1>4, <1>5, <1>6 DEF Inv

LEMMA StartInv == ASSUME Inv, Start \/ StartFails \/ Crash PROVE Inv'
<1>1. Loaded \in Configs /\ Normal(Loaded) /\ Loaded.valid = file.valid
      /\ \A d : Normalize(Loaded, d) = Loaded
  <2>1. starts + 1 \in 1..Redrawn
    BY Drawn DEF Inv, TypeOK
  <2> QED
    BY <2>1, ConfigsAreAny, NormalizeNormal, NormalIsFixed DEF Loaded, Inv, TypeOK
<1>2. CASE Start
  <2>1. Saving' = {} /\ \A c \in Calls : pc'[c] \notin {"read", "truncated", "saved"}
    BY <1>2 DEF Inv, DownIsQuiet, Start, Saving
  <2>2. TypeOK'
    <3>1. Loaded.kept \in {"start"} \cup Updates
      BY <1>1 DEF Configs, ConfigOf
    <3>2. starts' \in 0..MaxStarts
      BY <1>2, Names DEF Inv, TypeOK, Start
    <3>3. file' \in Configs \cup RawConfigs
      BY <1>1, <1>2 DEF Inv, TypeOK, Start
    <3> QED
      BY <1>1, <1>2, <3>1, <3>2, <3>3 DEF Inv, TypeOK, Start
  <2>3. InMemory'
    BY <1>1, <1>2, <2>1 DEF Inv, InMemory, Start
  <2>4. FileFollows'
    <3>1. Normalize(file', starts') = config' /\ disk' = "whole"
      BY <1>1, <1>2 DEF Start, Loaded
    <3> QED
      BY <2>1, <3>1 DEF FileFollows
  <2>5. DownIsQuiet' /\ FileDefault'
    BY <1>2, <2>1 DEF DownIsQuiet, FileDefault, Start
  <2> QED
    BY <2>2, <2>3, <2>4, <2>5 DEF Inv
<1>3. CASE StartFails
  <2>1. Saving' = Saving /\ ~up'
    BY <1>3 DEF StartFails, Saving
  <2>2. TypeOK'
    BY <1>3, Names DEF Inv, TypeOK, StartFails
  <2>3. InMemory'
    BY <1>3, <2>1 DEF Inv, InMemory, StartFails
  <2>4. FileFollows'
    BY <2>1 DEF FileFollows
  <2>5. DownIsQuiet' /\ FileDefault'
    BY <1>3, <2>1 DEF Inv, DownIsQuiet, FileDefault, StartFails
  <2> QED
    BY <2>2, <2>3, <2>4, <2>5 DEF Inv
<1>4. CASE Crash
  <2>1. Saving' = {} /\ ~up' /\ \A c \in Calls : pc'[c] # "read"
    BY <1>4 DEF Crash, Saving
  <2>2. TypeOK'
    BY <1>4 DEF Inv, TypeOK, Crash, CallStates
  <2>3. InMemory'
    BY <1>4, <2>1 DEF Inv, InMemory, Crash
  <2>4. FileFollows'
    BY <2>1 DEF FileFollows
  <2>5. DownIsQuiet' /\ FileDefault'
    BY <1>4, <2>1 DEF Inv, DownIsQuiet, FileDefault, Crash
  <2> QED
    BY <2>2, <2>3, <2>4, <2>5 DEF Inv
<1> QED
  BY <1>2, <1>3, <1>4

(* A call that has computed what to save disturbs nothing yet.              *)
LEMMA ComputedInv ==
  ASSUME Inv, NEW c \in Calls, NEW x \in Configs, Normal(x),
         Unlocked, Goto(c, "idle", "read"), next' = [next EXCEPT ![c] = x],
         UNCHANGED <<fileVars, config, over, noteVars>>, holder' \in {NoCall, c}
  PROVE  Inv'
<1> USE DEF Goto
<1>1. Saving' = Saving /\ c \notin Saving
  BY DEF Inv, TypeOK, Saving
<1>2. TypeOK'
  BY DEF Inv, TypeOK, CallStates
<1>3. InMemory'
  BY <1>1 DEF Inv, TypeOK, InMemory
<1>4. FileFollows'
  BY <1>1 DEF Inv, TypeOK, FileFollows
<1> QED
  BY <1>2, <1>3, <1>4 DEF Inv, DownIsQuiet, FileDefault, Unlocked

LEMMA SaveInv ==
  ASSUME Inv, NEW c \in Calls,
         Reject(c) \/ Truncate(c) \/ Write(c) \/ WriteFails(c) \/ Assign(c)
  PROVE  Inv'
<1> USE DEF Goto, Release
<1>1. up
  BY DEF Inv, DownIsQuiet, Reject, Truncate, Write, WriteFails, Assign, Saving
<1>2. CASE Reject(c)
  <2>1. Saving' = Saving
    BY <1>2 DEF Inv, TypeOK, Reject, Saving
  <2>2. TypeOK'
    BY <1>2 DEF Inv, TypeOK, Reject, CallStates
  <2>3. FileFollows'
    BY <1>2, <2>1 DEF Inv, TypeOK, FileFollows, Reject
  <2> QED
    BY <1>1, <1>2, <2>1, <2>2, <2>3 DEF Inv, InMemory, DownIsQuiet, FileDefault, Reject
<1>3. CASE Truncate(c)
  <2>1. Saving' = Saving \cup {c}
    BY <1>3 DEF Inv, TypeOK, Truncate, Saving
  <2>2. TypeOK'
    BY <1>3 DEF Inv, TypeOK, Truncate, CallStates
  <2>3. FileFollows'
    <3>1. ASSUME ~disturbed' PROVE Saving' = {c}
      BY <1>3, <2>1, <3>1 DEF Truncate
    <3>2. ASSUME ~disturbed', NEW d \in Calls
          PROVE  /\ pc'[d] # "saved"
                 /\ pc'[d] = "truncated" => d \notin over'
      BY <1>3, <3>1, <3>2 DEF Inv, TypeOK, Truncate, Saving
    <3> QED
      BY <3>1, <3>2 DEF FileFollows
  <2>4. InMemory'
    BY <1>3, <2>1 DEF Inv, InMemory, Truncate, Saved
  <2> QED
    BY <1>1, <1>3, <2>2, <2>3, <2>4 DEF Inv, DownIsQuiet, FileDefault, Truncate
<1>4. CASE Write(c)
  <2>1. Saving' = Saving /\ c \in Saving
    BY <1>4 DEF Inv, TypeOK, Write, Saving
  <2>2. next[c] \in Configs /\ \A d : Normalize(next[c], d) = next[c]
    BY NormalIsFixed DEF Inv, TypeOK, InMemory
  <2>3. TypeOK'
    BY <1>4, <2>2 DEF Inv, TypeOK, Write, CallStates
  <2>4. FileFollows'
    <3>1. ASSUME ~disturbed' PROVE disk' = "whole" /\ file' = next[c] /\ Saving = {c}
      BY <1>1, <1>4, <2>1, <2>2, <3>1 DEF Inv, FileFollows, Write
    <3>2. ASSUME ~disturbed', NEW d \in Calls, pc'[d] \in {"truncated", "saved"}
          PROVE  d = c /\ pc'[d] = "saved"
      BY <1>4, <2>1, <3>1, <3>2 DEF Inv, TypeOK, Write, Saving
    <3> QED
      BY <1>4, <2>1, <2>2, <3>1, <3>2 DEF FileFollows, Write
  <2>5. InMemory'
    BY <1>1, <1>4, <2>1, <2>2 DEF Inv, InMemory, Write
  <2> QED
    BY <1>1, <1>4, <2>3, <2>4, <2>5 DEF Inv, DownIsQuiet, FileDefault, Write
<1>5. CASE WriteFails(c)
  <2>1. Saving' \subseteq Saving
    BY <1>5 DEF Inv, TypeOK, WriteFails, Saving
  <2>2. TypeOK'
    BY <1>5 DEF Inv, TypeOK, WriteFails, CallStates
  <2>3. disturbed'
    BY <1>5 DEF WriteFails
  <2>4. InMemory'
    BY <1>5, <2>1 DEF Inv, InMemory, WriteFails
  <2>5. disk' = "missing" => file' = [Default EXCEPT !.secret = Missing]
    BY <1>5 DEF Inv, FileDefault, WriteFails
  <2> QED
    BY <1>1, <1>5, <2>2, <2>3, <2>4, <2>5
       DEF Inv, FileFollows, DownIsQuiet, FileDefault, WriteFails
<1>6. CASE Assign(c)
  <2>1. Saving' = Saving \ {c} /\ c \in Saving
    BY <1>6 DEF Inv, TypeOK, Assign, Saving
  <2>2. TypeOK'
    <3>1. next[c].kept = c => c \in Updates
      BY Names DEF Inv, TypeOK, Configs, ConfigOf
    <3> QED
      BY <1>6, <3>1 DEF Inv, TypeOK, Assign, CallStates
  <2>3. FileFollows'
    <3>1. ASSUME ~disturbed' PROVE Saving' = {}
      BY <1>1, <1>6, <2>1, <3>1 DEF Inv, FileFollows, Assign
    <3>2. ASSUME ~disturbed' PROVE disk' = "whole" /\ Normalize(file', starts') = config'
      BY <1>1, <1>6, <3>2 DEF Inv, FileFollows, Assign
    <3>3. ASSUME ~disturbed', NEW d \in Calls PROVE pc'[d] \notin {"truncated", "saved"}
      BY <3>1, <3>3 DEF Saving
    <3> QED
      BY <3>1, <3>2, <3>3 DEF FileFollows
  <2>4. InMemory'
    BY <1>6, <2>1 DEF Inv, InMemory, Assign
  <2> QED
    BY <1>1, <1>6, <2>2, <2>3, <2>4 DEF Inv, DownIsQuiet, FileDefault, Assign
<1> QED
  BY <1>2, <1>3, <1>4, <1>5, <1>6

LEMMA NextInv == Inv /\ [Next]_vars => Inv'
<1> SUFFICES ASSUME Inv, [Next]_vars PROVE Inv'
  OBVIOUS
<1>1. config \in Configs
  BY DEF Inv, TypeOK
<1>2. ASSUME NEW u \in Updates, ReadKept(u) PROVE Inv'
  <2>1. PICK body \in Bodies, blank \in BOOLEAN :
          next' = [next EXCEPT ![u] = Merged(u, body, blank)]
    BY <1>2 DEF ReadKept
  <2> QED
    BY <1>1, <1>2, <2>1, MergedNormal, ComputedInv DEF ReadKept, Unlocked
<1>3. ASSUME NEW b \in Binds, Bind(b) PROVE Inv'
  <2>1. PICK n \in NodeIDs : next' = [next EXCEPT ![b] = Normalize([config EXCEPT !.node = n], Given)]
    BY <1>3 DEF Bind
  <2> QED
    BY <1>1, <1>3, <2>1, BoundNormal, ComputedInv DEF Bind
<1>4. CASE UNCHANGED vars
  BY <1>4 DEF vars, Inv, TypeOK, InMemory, FileFollows, DownIsQuiet,
     FileDefault, Saving
<1> QED
  BY <1>2, <1>3, <1>4, StartInv, SaveInv DEF Next

(* The invariant, of which the properties of the runs are parts, holds.     *)
THEOREM InvHolds == Spec => []Inv
BY InitInv, NextInv, PTL DEF Spec

(* Every reachable state has its type.                                      *)
THEOREM TypeCorrect == Spec => []TypeOK
<1>1. Inv => TypeOK
  BY DEF Inv
<1> QED
  BY <1>1, InvHolds, PTL

(* The configuration in force is a valid one and connects by itself only if *)
(* it has something to connect with, and so the next start does not fail    *)
(* over a file that is not torn.                                            *)
THEOREM ForceIsValid == Spec => []ValidInForce
<1>1. Inv => ValidInForce
  <2> SUFFICES ASSUME Inv PROVE ValidInForce
    OBVIOUS
  <2>1. starts + 1 \in 1..Redrawn
    BY Drawn DEF Inv, TypeOK
  <2>2. Loaded.valid = file.valid
    BY <2>1, ConfigsAreAny, NormalizeNormal DEF Loaded, Inv, TypeOK
  <2> QED
    BY <2>2 DEF Inv, InMemory, Normal, ValidInForce
<1> QED
  BY <1>1, InvHolds, PTL

(* Memory and file agree but for what each start draws, and agree again     *)
(* after the next save that is alone when saves overlapped or failed.       *)
THEOREM FileAgrees == Spec => []RestAgrees
<1>1. Inv => RestAgrees
  BY DEF Inv, FileFollows, RestAgrees
<1> QED
  BY <1>1, InvHolds, PTL
=============================================================================
