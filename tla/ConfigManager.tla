---------------------------- MODULE ConfigManager ----------------------------
(***************************************************************************)
(* Hot reload of the server's configuration: ConfigManager of              *)
(* server/webbou/config.go.  The goroutine that Watch starts polls the     *)
(* modification time of the file, reads the file and calls Update, which   *)
(* callers also do by themselves; Update runs the onChange callback with   *)
(* the mutex held.                                                         *)
(***************************************************************************)
EXTENDS Integers

CONSTANTS
  watcher,     \* the goroutine of Watch
  Callers,     \* goroutines that call Update
  nil, free,
  Ports, Sizes,  \* what a file may set, and a caller give; 0 is a field left out
  MaxWrites,   \* bound on the changes of the file
  MaxUpdates,  \* bound on the calls of Update by each caller
  MaxFaults    \* bound on the reads of a readable file that fail

ASSUME ConfigAssumption ==
  /\ watcher \notin Callers /\ free \notin Callers \cup {watcher}
  /\ Sizes \subseteq Int
  /\ MaxWrites \in Nat /\ MaxUpdates \in Nat /\ MaxFaults \in Nat

Updaters == Callers \cup {watcher}

VARIABLES
  file,      \* what is at the path: modification time, state and contents; and
             \* how often it was changed, the last time within one tick of the
             \* file system's clock or not
  config, version, onChange,   \* of the manager; is a callback set?
  mu,        \* who holds the mutex for writing
  lastMod,   \* watcher.lastMod
  pc, newCfg,   \* of each goroutine that updates
  updates, faults,
  told,      \* History: the configuration onChange last heard of, or that
             \* was there when it was set;
  failed     \* the modification time of the last version that failed to load

manager == <<config, version, onChange, mu>>
configVars == <<file, manager, lastMod, pc, newCfg, updates, faults, told, failed>>

Yaml == [port : Ports, size : Sizes]

\* DefaultServerConfig; what the manager is created with, and what callers give
\* to Update: neither is checked.
Default == [TCPAddr |-> 8444, MaxStreams |-> 100, MaxFrameSize |-> 65536]
Original == {Default, [Default EXCEPT !.MaxFrameSize = 0]}
Given(c, size) == [TCPAddr |-> c, MaxStreams |-> 100, MaxFrameSize |-> size]
FromCallers == {Given(c, size) : c \in Callers, size \in Sizes}

Unsized_Loaded(y) == [TCPAddr |-> y.port, MaxStreams |-> 0, MaxFrameSize |-> y.size]

\* LoadServerConfigFromYAML.  Sprintf("%s:%d") of a missing host and port is
\* ":0", never the ":" that would be replaced by the default address; nothing
\* is read into MaxStreams.
Loaded(y) == [TCPAddr |-> y.port, MaxStreams |-> 0,
              MaxFrameSize |-> IF y.size = 0 THEN 65536 ELSE y.size]

ConfigInit ==
  /\ file \in [edits : {0}, mod : {1}, kept : {FALSE}, is : {"good"}, yaml : Yaml]
  /\ config \in Original /\ version = 1
  /\ onChange = FALSE /\ mu = free
  /\ lastMod = 0
  /\ pc = [p \in Updaters |-> IF p = watcher THEN "off" ELSE "idle"]
  /\ newCfg = [p \in Updaters |-> nil]
  /\ updates = [c \in Callers |-> 0] /\ faults = 0
  /\ told = nil /\ failed = 0

-----------------------------------------------------------------------------
(* The operator's editor.  The file may be gone or half written for a while, *)
(* and a change may come so soon that the modification time stays.           *)

Write ==
  /\ file.edits < MaxWrites
  /\ \E is \in {"good", "broken", "missing"}, y \in Yaml, mod \in file.mod..file.mod + 1 :
       /\ is = "good" \/ y = file.yaml
       /\ file' = [edits |-> file.edits + 1, mod |-> mod, kept |-> mod = file.mod,
                   is |-> is, yaml |-> y]
  /\ UNCHANGED <<manager, lastMod, pc, newCfg, updates, faults, told, failed>>

-----------------------------------------------------------------------------
Watch ==
  /\ pc[watcher] = "off" /\ mu = free
  /\ pc' = [pc EXCEPT ![watcher] = "idle"]
  /\ UNCHANGED <<file, manager, lastMod, newCfg, updates, faults, told, failed>>

Clocked_Stat ==
  /\ pc[watcher] = "idle"
  /\ file.is # "missing" /\ file.mod > lastMod
  /\ lastMod' = file.mod + 1
  /\ pc' = [pc EXCEPT ![watcher] = "load"]
  /\ UNCHANGED <<file, manager, newCfg, updates, faults, told, failed>>

\* A tick of reloadIfChanged that finds a newer file.  (A tick that finds no
\* file, or an old one, changes nothing.)
Stat ==
  /\ pc[watcher] = "idle"
  /\ file.is # "missing" /\ file.mod > lastMod
  /\ lastMod' = file.mod
  /\ pc' = [pc EXCEPT ![watcher] = "load"]
  /\ UNCHANGED <<file, manager, newCfg, updates, faults, told, failed>>

Load ==
  /\ pc[watcher] = "load" /\ file.is = "good"
  /\ newCfg' = [newCfg EXCEPT ![watcher] = Loaded(file.yaml)]
  /\ pc' = [pc EXCEPT ![watcher] = "update"]
  /\ UNCHANGED <<file, manager, lastMod, updates, faults, told, failed>>

\* ReadFile or Unmarshal fails: the error is dropped, lastMod stays.
LoadFails ==
  /\ pc[watcher] = "load"
  /\ \/ file.is # "good" /\ UNCHANGED faults
     \/ file.is = "good" /\ faults < MaxFaults /\ faults' = faults + 1
  /\ failed' = lastMod
  /\ pc' = [pc EXCEPT ![watcher] = "idle"]
  /\ UNCHANGED <<file, manager, lastMod, newCfg, updates, told>>

-----------------------------------------------------------------------------
CallUpdate(c) ==
  /\ pc[c] = "idle" /\ updates[c] < MaxUpdates
  /\ updates' = [updates EXCEPT ![c] = @ + 1]
  /\ \E cfg \in {nil} \cup {Given(c, size) : size \in Sizes} :
       newCfg' = [newCfg EXCEPT ![c] = cfg]
  /\ pc' = [pc EXCEPT ![c] = "update"]
  /\ UNCHANGED <<file, manager, lastMod, faults, told, failed>>

\* Update up to the callback, and after it.
Open_Install(p) ==
  /\ pc[p] = "update" /\ mu = free
  /\ IF newCfg[p] # nil
     THEN config' = newCfg[p] /\ version' = version + 1
     ELSE UNCHANGED <<config, version>>
  /\ pc' = [pc EXCEPT ![p] = "callback"]
  /\ UNCHANGED <<file, onChange, mu, lastMod, newCfg, updates, faults, told, failed>>

Install(p) ==
  /\ pc[p] = "update" /\ mu = free
  /\ mu' = p
  /\ IF newCfg[p] # nil
     THEN config' = newCfg[p] /\ version' = version + 1
     ELSE UNCHANGED <<config, version>>
  /\ pc' = [pc EXCEPT ![p] = "callback"]
  /\ UNCHANGED <<file, onChange, lastMod, newCfg, updates, faults, told, failed>>

\* The error a callback may return reaches the caller; the configuration stays.
Notify(p) ==
  /\ pc[p] = "callback"
  /\ told' = IF onChange THEN config ELSE told
  /\ mu' = free
  /\ newCfg' = [newCfg EXCEPT ![p] = nil]
  /\ pc' = [pc EXCEPT ![p] = "idle"]
  /\ UNCHANGED <<file, config, version, onChange, lastMod, updates, faults, failed>>

OnChange ==
  /\ ~onChange /\ mu = free
  /\ onChange' = TRUE
  /\ told' = config
  /\ UNCHANGED <<file, config, version, mu, lastMod, pc, newCfg, updates, faults, failed>>

WatcherStep == Stat \/ Load \/ LoadFails \/ Install(watcher) \/ Notify(watcher)

ConfigNext ==
  \/ Write \/ Watch \/ OnChange \/ WatcherStep
  \/ \E c \in Callers : CallUpdate(c) \/ Install(c) \/ Notify(c)

\* The ticker ticks, goroutines run, the mutex is granted and callbacks return.
Fairness ==
  /\ WF_configVars(WatcherStep) /\ SF_configVars(Install(watcher))
  /\ \A c \in Callers : WF_configVars(Notify(c)) /\ SF_configVars(Install(c))

ConfigSpec == ConfigInit /\ [][ConfigNext]_configVars /\ Fairness

-----------------------------------------------------------------------------
\* Types.  A configuration in force that has no frame size was given to the
\* manager or to Update that way: hot reload never installs one, whatever the
\* file says.
ConfigTypeOK ==
  /\ file \in [edits : 0..MaxWrites, mod : 1..MaxWrites + 1, kept : BOOLEAN,
               is : {"good", "broken", "missing"}, yaml : Yaml]
  /\ file.mod <= file.edits + 1
  /\ config.TCPAddr \in {8444} \cup Callers \cup Ports /\ config.MaxStreams \in Nat
  /\ config.MaxFrameSize = 0 => config \in Original \cup FromCallers
  /\ version \in Nat \ {0} /\ onChange \in BOOLEAN /\ lastMod \in Nat
  /\ mu \in Updaters \cup {free}
  /\ pc \in [Updaters -> {"off", "idle", "load", "update", "callback"}]

\* Whenever Get can return, the callback has heard of the configuration that
\* Get returns, whoever updates it and whatever else waits for the mutex.
Announced == onChange /\ mu = free => told = config

\* Hot reload: once Watch was called and the file stays as it is, its contents
\* become the configuration, however the reads and polls of the watcher fall
\* between the writes, unless a caller of Update comes later, the load of that
\* very version failed, or the last change left the modification time as it was.
Converges == <>[](\/ pc[watcher] = "off" \/ file.is # "good"
                  \/ config = Loaded(file.yaml)
                  \/ config \in FromCallers
                  \/ failed = file.mod \/ file.kept)

=============================================================================
