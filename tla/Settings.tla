------------------------------ MODULE Settings ------------------------------
(***************************************************************************)
(* The configuration of the management server, in memory and on disk       *)
(* (src/userspace-gateway/internal/manager: updateSettings, the binding of *)
(* a node in connect, NewServer in server.go; LoadConfig, SaveConfig in    *)
(* config.go).  POST /api/settings reads what it has to keep under the     *)
(* mutex, saves without it and takes it again for the assignment; connect  *)
(* holds the mutex while it saves.  A file is opened with O_TRUNC and      *)
(* written in a second step, and nothing orders two writers of it.         *)
(*                                                                         *)
(* Calls are used once.  MaxStarts bounds the starts of the process.       *)
(***************************************************************************)
EXTENDS Naturals

CONSTANTS
  Updates,    \* calls of updateSettings
  Binds,      \* calls of connect with a node and a listener
  NodeIDs,    \* nodes a listener may be fixed to
  MaxStarts

Calls == Updates \cup Binds
NoNode == "no node"
NoCall == "no call"

ASSUME SettingsAssumption ==
  /\ Updates \cap Binds = {} /\ {"start", "raw", NoCall} \cap Calls = {}
  /\ NoNode \notin NodeIDs
  /\ MaxStarts \in Nat

VARIABLES
  up, starts,   \* whether the process runs; starts so far
  config,       \* s.config
  disk, file,   \* the file: "missing", "torn" or "whole"; what was last written as a whole
  holder,       \* the call that keeps s.mu while it saves
  pc, next,     \* call: control, the configuration it is to save
  over,         \* calls of which another has written since they truncated the file
  disturbed,    \* checking only: saves overlapped or failed since the last that was alone
  typed         \* checking only: whose value of the kept fields was assigned last

fileVars == <<up, starts, disk, file>>
noteVars == <<disturbed, typed>>
vars == <<fileVars, config, holder, pc, next, over, noteVars>>

-----------------------------------------------------------------------------
(* A configuration: auto_connect, whether openvpn_config is set, the node a *)
(* listener is fixed to, who has set the fields an update may leave blank   *)
(* ("raw": in plain text or not at all), secret_path and the list of        *)
(* listeners, which normalizeConfig draws at random where they are missing, *)
(* and what ValidateConfig says.                                            *)
Missing == 0
Given == MaxStarts + 1   \* in the file, or an update's; 1..MaxStarts: drawn at that start
Redrawn == MaxStarts + 2 \* drawn by SaveConfig

ConfigOf(values, secrets) ==
  [auto : BOOLEAN, openvpn : BOOLEAN, node : NodeIDs \cup {NoNode}, kept : values,
   secret : secrets, valid : BOOLEAN]
Configs == ConfigOf({"start"} \cup Updates, 1..Redrawn)
RawConfigs == ConfigOf({"start", "raw"}, {Missing, Given})

Default == [auto |-> FALSE, openvpn |-> FALSE, node |-> NoNode, kept |-> "start",
            secret |-> Given, valid |-> TRUE]

Usable(c) == c.openvpn \/ c.node # NoNode   \* hasListenerBackendPolicy
Normalize(c, drawn) ==
  [c EXCEPT !.auto = @ /\ Usable(c), !.kept = IF @ = "raw" THEN "start" ELSE @,
            !.secret = IF @ = Missing THEN drawn ELSE @]

(* It does not look at what is drawn *)
NeedsMigration(c) == c.kept = "raw" \/ (c.auto /\ ~Usable(c))

Init ==
  /\ up = FALSE /\ starts = 0
  /\ config = Default
  /\ \/ disk = "whole" /\ file \in RawConfigs
     \/ disk = "missing" /\ file = [Default EXCEPT !.secret = Missing]
  /\ holder = NoCall
  /\ pc = [c \in Calls |-> "idle"] /\ next = [c \in Calls |-> Default]
  /\ over = {}
  /\ disturbed = FALSE /\ typed = "start"

-----------------------------------------------------------------------------
(* LoadConfig and NewServer; a failure ends the process *)

Loaded == Normalize(file, starts + 1)   \* DefaultConfig for a missing file
SavesOnLoad == disk = "missing" \/ NeedsMigration(file)

Start ==
  /\ ~up /\ starts < MaxStarts /\ disk # "torn" /\ Loaded.valid
  /\ up' = TRUE /\ starts' = starts + 1
  /\ config' = Loaded
  /\ disk' = "whole" /\ file' = IF SavesOnLoad THEN Loaded ELSE file
  /\ disturbed' = FALSE /\ typed' = Loaded.kept
  /\ UNCHANGED <<holder, pc, next, over>>
StartFails ==
  /\ ~up /\ starts < MaxStarts /\ starts' = starts + 1
  /\ \/ (disk = "torn" \/ ~Loaded.valid) /\ UNCHANGED disk
     \/ disk # "torn" /\ Loaded.valid /\ SavesOnLoad /\ disk' \in {disk, "torn"}
  /\ UNCHANGED <<up, file, config, holder, pc, next, over, noteVars>>

Crash ==
  /\ up /\ up' = FALSE
  /\ holder' = NoCall /\ over' = {}
  /\ pc' = [c \in Calls |-> IF pc[c] = "idle" THEN "idle" ELSE "over"]
  /\ UNCHANGED <<starts, config, disk, file, next, noteVars>>

-----------------------------------------------------------------------------
(* updateSettings and connect up to the save *)

Unlocked == up /\ holder = NoCall
Goto(c, from, to) == pc[c] = from /\ pc' = [pc EXCEPT ![c] = to]

(* the body's blank fields are filled in with the values read here, and the *)
(* result is normalized                                                     *)
MergedRaw(u, body, blank) ==   \* mutant: the body is saved and assigned as it came
  [body EXCEPT !.kept = IF blank THEN config.kept ELSE u]
Merged(u, body, blank) ==
  Normalize([body EXCEPT !.kept = IF blank THEN config.kept ELSE u], Given)

Bodies == ConfigOf({"raw"}, {Missing, Given})

ReadKept(u) ==
  /\ Unlocked
  /\ Goto(u, "idle", "read")
  /\ \E body \in Bodies, blank \in BOOLEAN :
       next' = [next EXCEPT ![u] = Merged(u, body, blank)]
  /\ UNCHANGED <<fileVars, config, holder, over, noteVars>>

(* bindNodeToListener; the mutex is kept *)
Bind(b) ==
  /\ Unlocked /\ holder' = b
  /\ Goto(b, "idle", "read")
  /\ \E n \in NodeIDs : next' = [next EXCEPT ![b] = Normalize([config EXCEPT !.node = n], Given)]
  /\ UNCHANGED <<fileVars, config, over, noteVars>>

-----------------------------------------------------------------------------
(* SaveConfig: it normalizes once more, validates, opens and writes *)

Release(c) == holder' = IF holder = c THEN NoCall ELSE holder
Saving == {c \in Calls : pc[c] \in {"truncated", "saved"}}

Reject(c) ==
  /\ Goto(c, "read", "over") /\ Release(c)   \* invalid, or the file cannot be opened
  /\ UNCHANGED <<fileVars, config, next, over, noteVars>>

AnySaved(c) == TRUE   \* mutant: saved without ValidateConfig
Saved(c) == next[c].valid

Truncate(c) ==
  /\ Saved(c)
  /\ Goto(c, "read", "truncated")
  /\ disk' = "torn" /\ over' = over \ {c}
  /\ disturbed' = (Saving # {})
  /\ UNCHANGED <<up, starts, file, config, holder, next, typed>>

(* over the bytes of another call a part of them may remain *)
Write(c) ==
  /\ Goto(c, "truncated", "saved")
  /\ disk' \in IF c \in over THEN {"whole", "torn"} ELSE {"whole"}
  /\ file' = Normalize(next[c], Redrawn)
  /\ over' = (over \cup {d \in Calls : pc[d] = "truncated"}) \ {c}
  /\ UNCHANGED <<up, starts, config, holder, next, noteVars>>
WriteFails(c) ==
  /\ Goto(c, "truncated", "over") /\ Release(c)
  /\ disk' \in {"torn"} \cup (IF c \in over THEN {disk} ELSE {})
  /\ disturbed' = TRUE
  /\ over' = (over \cup {d \in Calls : pc[d] = "truncated"}) \ {c}
  /\ UNCHANGED <<up, starts, file, config, next, typed>>

(* under the mutex again, or still *)
Assign(c) ==
  /\ up /\ holder \in {NoCall, c}
  /\ Goto(c, "saved", "over") /\ Release(c)
  /\ config' = next[c]
  /\ typed' = IF next[c].kept = c THEN c ELSE typed
  /\ UNCHANGED <<fileVars, next, over, disturbed>>

-----------------------------------------------------------------------------
Next ==
  \/ Start \/ StartFails \/ Crash
  \/ \E u \in Updates : ReadKept(u)
  \/ \E b \in Binds : Bind(b)
  \/ \E c \in Calls : Reject(c) \/ Truncate(c) \/ Write(c) \/ WriteFails(c) \/ Assign(c)

Spec == Init /\ [][Next]_vars

-----------------------------------------------------------------------------
(* Every variable has its type. *)
CallStates == {"idle", "read", "truncated", "saved", "over"}
TypeOK ==
  /\ up \in BOOLEAN /\ starts \in 0..MaxStarts
  /\ config \in Configs /\ disk \in {"missing", "torn", "whole"}
  /\ file \in Configs \cup RawConfigs
  /\ holder \in Calls \cup {NoCall}
  /\ pc \in [Calls -> CallStates] /\ next \in [Calls -> Configs]
  /\ over \subseteq Calls
  /\ disturbed \in BOOLEAN /\ typed \in {"start"} \cup Updates

(* The configuration in force has passed ValidateConfig and never connects  *)
(* by itself without an OpenVPN file or a listener's policy, whatever was   *)
(* posted, bound, found on disk or left there by a crash; and the next      *)
(* start does not fail over what is in the file, unless a write was broken  *)
(* off or two of them were mixed.                                           *)
ValidInForce ==
  up => /\ config.valid /\ (config.auto => Usable(config))
        /\ disk = "torn" \/ Loaded.valid

(* Between saves, memory is what normalizing the file with the values drawn *)
(* at this start gives, so that a restart brings back what is in force but  *)
(* for a secret_path or listeners that the file lacks.  When two saves have *)
(* overlapped or one has failed, the file may be torn or belong to another  *)
(* call than s.config; the next save that is alone ends that.               *)
RestAgrees ==
  up /\ ~disturbed /\ Saving = {} => disk = "whole" /\ Normalize(file, starts) = config

(* A field that is left blank in an update keeps the value that is in force *)
(* (server_test.go, TestUpdateSettingsKeepsExistingAdminPasswordHash-       *)
(* WhenBlank): the value in force is the one set by the last assignment of  *)
(* a call that did set it.                                                  *)
BlankKeeps == up => config.kept = typed
=============================================================================
