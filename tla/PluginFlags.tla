----------------------------- MODULE PluginFlags -----------------------------
(***************************************************************************)
(* Which plugins may be executed: the enabled flags of agent/dispatcher.py *)
(* and plugins/loader.py, their file plugins.json, and the request that    *)
(* changes one (PATCH /api/plugins/{name}).                                *)
(*                                                                         *)
(* The Dispatcher keeps the flags it read in a dictionary and gives it to  *)
(* its PluginLoader, which changes and asks its own.  The two are the same *)
(* dictionary only if it was not empty: PluginLoader takes `enabled or {}`.*)
(* Requests are handled on the event loop, one at a time.                  *)
(***************************************************************************)
EXTENDS Naturals, FiniteSets

CONSTANTS Names,       \* plugins of the installation
          Builtin,     \* those that app.py registers itself
          NoFile, Torn, \* plugins.json is missing, or was cut off
          MaxSets,     \* bound: changes of a flag
          MaxStarts,   \* bound: starts of the Server
          MaxFaults,   \* bound: writes that fail or are cut off
          MaxBroken    \* bound: plugins that fail to load, over all starts

Tables == UNION {[S -> BOOLEAN]: S \in SUBSET Names}
Files == Tables \cup {NoFile, Torn}

VARIABLES
    file,      \* plugins.json
    up,        \* the Server runs
    flags,     \* Dispatcher._enabled
    table,     \* PluginLoader._enabled
    shared,    \* they are one dictionary
    loaded,    \* PluginLoader.plugins
    wanted,    \* the flag of each plugin that was last acknowledged
    changed,   \* the plugins of which that was since the Server started
    sets, starts, faults, broken

bounds == <<sets, starts, faults, broken>>
vars == <<file, up, flags, table, shared, loaded, wanted, changed, bounds>>

NoFlags == [n \in {} |-> TRUE]

\* A flag that is not in the table is on.
Flag(t, n) == n \in DOMAIN t => t[n]

\* Dispatcher.__init__: an unreadable file enables everything.
Read == IF file \in Tables THEN file ELSE NoFlags

Init ==
    /\ file \in [Names -> BOOLEAN] \cup {NoFile}
    /\ up = FALSE /\ flags = NoFlags /\ table = NoFlags /\ shared = FALSE
    /\ loaded = {}
    /\ wanted = [n \in Names |-> Flag(Read, n)]
    /\ changed = {}
    /\ sets = 0 /\ starts = 0 /\ faults = 0 /\ broken = 0

\* create_app: read the flags, discover what loads, register the builtin plugins.
Start ==
    /\ ~up /\ starts < MaxStarts /\ starts' = starts + 1
    /\ up' = TRUE
    /\ flags' = Read /\ table' = Read
    /\ shared' = (DOMAIN Read # {})
    /\ \E fails \in SUBSET (Names \ Builtin):
          /\ broken + Cardinality(fails) <= MaxBroken
          /\ broken' = broken + Cardinality(fails)
          /\ loaded' = Names \ fails
    /\ UNCHANGED <<file, wanted, changed, sets, faults>>

\* _save_enabled_state writes the flags of the dispatcher for the plugins that
\* are loaded.
Saved(t) == [m \in loaded |-> Flag(t, m)]

\* self._enabled[name] = enabled.
With(t, n, e) == [m \in DOMAIN t \cup {n} |-> IF m = n THEN e ELSE t[m]]

\* set_enabled changes the loader's dictionary, which execute asks, and the
\* dispatcher's only when the two are one.
Set(n, e) == /\ table' = With(table, n, e)
             /\ flags' = IF shared THEN With(flags, n, e) ELSE flags

\* set_plugin_enabled is acknowledged, also when the write failed.
SetEnabled(n, e) ==
    /\ up /\ n \in loaded /\ sets < MaxSets /\ sets' = sets + 1
    /\ Set(n, e)
    /\ \/ file' = Saved(flags') /\ UNCHANGED faults
       \/ faults < MaxFaults /\ faults' = faults + 1 /\ file' \in {file, Torn}
    /\ wanted' = [wanted EXCEPT ![n] = e] /\ changed' = changed \cup {n}
    /\ UNCHANGED <<up, shared, loaded, starts, broken>>

\* The process ends; in the middle of the write, the file is cut off.
Down ==
    /\ up /\ up' = FALSE
    /\ \/ UNCHANGED <<file, sets, faults>>
       \/ /\ faults < MaxFaults /\ faults' = faults + 1
          /\ sets < MaxSets /\ sets' = sets + 1 /\ file' = Torn
    /\ flags' = NoFlags /\ table' = NoFlags /\ shared' = FALSE /\ loaded' = {}
    /\ changed' = {}
    /\ UNCHANGED <<wanted, starts, broken>>

Next == Start \/ (\E n \in Names, e \in BOOLEAN: SetEnabled(n, e)) \/ Down

Spec == Init /\ [][Next]_vars

\* The same on an installation where a flag was saved before.
SavedSpec == Init /\ file # NoFile /\ [][Next]_vars

-----------------------------------------------------------------------------
(* Properties *)

\* Dispatcher.execute runs the plugin.
Executable(n) == n \in loaded /\ Flag(table, n)

\* Types, and one dictionary has one content.
TypeOK ==
    /\ file \in Files /\ {up, shared} \subseteq BOOLEAN
    /\ flags \in Tables /\ table \in Tables
    /\ shared => flags = table
    /\ changed \subseteq Names
    /\ loaded \subseteq Names /\ wanted \in [Names -> BOOLEAN]
    /\ sets \in 0..MaxSets /\ starts \in 0..MaxStarts
    /\ faults \in 0..MaxFaults /\ broken \in 0..MaxBroken

\* A plugin that is loaded may be executed exactly if that is what was last
\* acknowledged, in this run of the Server or in an earlier one.
FlagsKept == up => \A n \in loaded: Executable(n) = wanted[n]

\* A change that was acknowledged holds until the Server ends, whatever became
\* of the file and whichever plugins failed to load.
ChangeHolds == \A n \in changed: Executable(n) = wanted[n]
=============================================================================
