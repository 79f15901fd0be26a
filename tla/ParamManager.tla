---------------------------- MODULE ParamManager ----------------------------
(***************************************************************************)
(* platform/infinity/params_manager: parameters with a cache in RAM, saved *)
(* in flash through Zephyr's settings subsystem.                           *)
(*                                                                         *)
(* Any thread may set a parameter.  set takes no lock: it writes the cache *)
(* and then lets settings_save_one store what the cache holds, under the   *)
(* subsystem's own lock; the save may fail.  Power may be lost at any      *)
(* time; init then fills the cache again, from the defaults and from what  *)
(* flash holds.  A record of fewer bytes than the parameter's type (saved  *)
(* by a firmware where the type was another) overwrites only a part of the *)
(* cached default.                                                         *)
(***************************************************************************)
EXTENDS Integers, SequencesExt

CONSTANTS
    IDs,           \* the parameters: enum class ID
    Data,          \* values of their types
    Default,       \* the defaults of g_param_metadata
    Torn,          \* a default partly overwritten by a short record
    NoValue,       \* the cache before init
    NoRecord,      \* a parameter that flash has no record of
    ShortRecord,   \* a record shorter than the parameter's type
    NoId,          \* no parameter
    Threads        \* the threads that set parameters

ASSUME DefaultAssumption == Default \in [IDs -> Data]
ASSUME RecordAssumption  == NoRecord \notin Data /\ ShortRecord \notin Data
ASSUME NameAssumption    == "params" \notin IDs

VARIABLES
    running,       \* init has returned since power came on
    cache,         \* g_param_cache
    flash,         \* the newest record of each parameter
    pc,            \* per thread: "idle", "save" (cache written), "saved"
    call,          \* per thread: the arguments of its last set
    loaded         \* the parameter whose load() was the last step

(***************************************************************************)
(* History, for the properties only.  newer[t]: the argument of t's set    *)
(* and of the sets on the same parameter that began after it; allowed: the *)
(* values that a parameter may have now or after a loss of power; unsaved: *)
(* the parameters whose last save failed.                                  *)
(***************************************************************************)
VARIABLES newer, allowed, unsaved

history == <<newer, allowed, unsaved>>
vars == <<running, cache, flash, pc, call, loaded, history>>

(***************************************************************************)
(* Loading from flash.                                                     *)
(***************************************************************************)

\* The name that set saves under: "params/%s".
Key(id) == <<"params", id>>

\* The records under subtree are handed to settings_handler one by one, which
\* reads each into the cache of the parameter that the rest of its key names.
AfterLoad(c, subtree) ==
    [id \in IDs |->
        IF flash[id] = NoRecord \/ ~IsPrefix(subtree, Key(id)) THEN c[id]
        ELSE IF flash[id] = ShortRecord THEN Torn
        ELSE flash[id]]

\* What init makes of the defaults and of what flash holds now.
Restored == AfterLoad(Default, << >>)

Init ==
    /\ running = FALSE
    /\ cache = [id \in IDs |-> NoValue]
    /\ flash \in [IDs -> Data \cup {NoRecord, ShortRecord}]
    /\ pc = [t \in Threads |-> "idle"]
    /\ call = [t \in Threads |-> [id |-> NoId, value |-> NoValue]]
    /\ loaded = NoId
    /\ newer = [t \in Threads |-> {}]
    /\ allowed = [id \in IDs |-> {Restored[id]}]
    /\ unsaved = {}

\* Mutant: the values from flash are loaded first.
Boot_DefaultsLast ==
    /\ ~running
    /\ running' = TRUE
    /\ cache' = Default
    /\ allowed' = [id \in IDs |-> {Restored[id]}]
    /\ UNCHANGED <<flash, pc, call, loaded, newer, unsaved>>

\* Mutant: the cache is not filled with the defaults.
Boot_NoDefaults ==
    /\ ~running
    /\ running' = TRUE
    /\ cache' = AfterLoad(cache, << >>)
    /\ allowed' = [id \in IDs |-> {Restored[id]}]
    /\ UNCHANGED <<flash, pc, call, loaded, newer, unsaved>>

\* init(): the defaults, then settings_load() of everything.
Boot ==
    /\ ~running
    /\ running' = TRUE
    /\ cache' = Restored
    /\ allowed' = [id \in IDs |-> {Restored[id]}]
    /\ UNCHANGED <<flash, pc, call, loaded, newer, unsaved>>

\* Power is lost: RAM and threads are gone, flash stays.
Crash ==
    /\ running
    /\ running' = FALSE
    /\ cache' = [id \in IDs |-> NoValue]
    /\ pc' = [t \in Threads |-> "idle"]
    /\ call' = [t \in Threads |-> [id |-> NoId, value |-> NoValue]]
    /\ loaded' = NoId
    /\ newer' = [t \in Threads |-> {}]
    /\ unsaved' = {}
    /\ UNCHANGED <<flash, allowed>>

(***************************************************************************)
(* set                                                                     *)
(***************************************************************************)

\* The threads inside a set of the parameter.
Setting(id) == {t \in Threads : pc[t] # "idle" /\ call[t].id = id}

\* *cache_ptr = value.
SetWrites(t, id, value) ==
    /\ running
    /\ pc[t] = "idle"
    /\ cache' = [cache EXCEPT ![id] = value]
    /\ pc' = [pc EXCEPT ![t] = "save"]
    /\ call' = [call EXCEPT ![t] = [id |-> id, value |-> value]]
    /\ loaded' = NoId
    /\ newer' = [u \in Threads |->
                    IF u = t THEN {value}
                    ELSE IF u \in Setting(id) THEN newer[u] \cup {value} ELSE newer[u]]
    /\ allowed' = [allowed EXCEPT ![id] = @ \cup {value}]
    /\ UNCHANGED <<running, flash, unsaved>>

\* Mutant: the argument is saved.
Saves_Argument(t) ==
    /\ pc[t] = "save"
    /\ flash' = [flash EXCEPT ![call[t].id] = call[t].value]
    /\ pc' = [pc EXCEPT ![t] = "saved"]
    /\ loaded' = NoId
    /\ unsaved' = unsaved \ {call[t].id}
    /\ UNCHANGED <<running, cache, call, newer, allowed>>

\* settings_save_one stores what cache_ptr points to at that moment.
Saves(t) ==
    /\ pc[t] = "save"
    /\ flash' = [flash EXCEPT ![call[t].id] = cache[call[t].id]]
    /\ pc' = [pc EXCEPT ![t] = "saved"]
    /\ loaded' = NoId
    /\ unsaved' = unsaved \ {call[t].id}
    /\ UNCHANGED <<running, cache, call, newer, allowed>>

\* settings_save_one returns an error, and so does set; the cache stays.
SaveFails(t) ==
    /\ pc[t] = "save"
    /\ pc' = [pc EXCEPT ![t] = "idle"]
    /\ loaded' = NoId
    /\ unsaved' = unsaved \cup {call[t].id}
    /\ UNCHANGED <<running, cache, flash, call, newer, allowed>>

\* set returns 0.
SetReturns(t) ==
    /\ pc[t] = "saved"
    /\ pc' = [pc EXCEPT ![t] = "idle"]
    /\ loaded' = NoId
    /\ allowed' = [allowed EXCEPT ![call[t].id] = newer[t]]
    /\ UNCHANGED <<running, cache, flash, call, newer, unsaved>>

\* load(): settings_load_subtree of the bare name of the parameter.
Load(id) ==
    /\ running
    /\ cache' = AfterLoad(cache, <<id>>)
    /\ loaded' = id
    /\ UNCHANGED <<running, flash, pc, call, history>>

Next ==
    \/ Boot
    \/ Crash
    \/ \E t \in Threads :
          \/ \E id \in IDs, value \in Data : SetWrites(t, id, value)
          \/ Saves(t) \/ SaveFails(t) \/ SetReturns(t)
    \/ \E id \in IDs : Load(id)

Spec == Init /\ [][Next]_vars
-----------------------------------------------------------------------------
(***************************************************************************)
(* Properties.                                                             *)
(***************************************************************************)

\* Type invariant.
TypeOK ==
    /\ running \in BOOLEAN
    /\ IF running THEN cache \in [IDs -> Data \cup {Torn}]
                  ELSE cache = [id \in IDs |-> NoValue]
    /\ flash \in [IDs -> Data \cup {NoRecord, ShortRecord}]
    /\ pc \in [Threads -> {"idle", "save", "saved"}]
    /\ call \in [Threads -> [id : IDs \cup {NoId}, value : Data \cup {NoValue}]]
    /\ \A t \in Threads : pc[t] # "idle" => running /\ call[t].id \in IDs
    /\ loaded \in IDs \cup {NoId}
    /\ newer \in [Threads -> SUBSET Data]
    /\ allowed \in [IDs -> SUBSET (Data \cup {Torn})]
    /\ unsaved \subseteq IDs

\* Unless a save is outstanding or the last one failed, losing power would
\* change no parameter: although set takes no lock, cache and flash cannot be
\* left apart by two threads that set one parameter at the same time.
RestartChangesNothing ==
    running => \A id \in IDs :
        \/ \E t \in Setting(id) : pc[t] = "save"
        \/ id \in unsaved
        \/ cache[id] = Restored[id]

\* A set that returned 0 is undone by nothing but sets that began after it:
\* not by a slower thread that began before, not by a save that fails later,
\* and not by a loss of power at whatever moment.
SuccessIsKept ==
    \A id \in IDs : /\ Restored[id] \in allowed[id]
                    /\ running => cache[id] \in allowed[id]

\* param_manager.hpp:74 says that load forces the value to be read again from
\* flash: after it, and with no set under way, the cache has what flash has.
LoadRereads ==
    loaded # NoId /\ Setting(loaded) = {} /\ flash[loaded] \in Data
        => cache[loaded] = flash[loaded]
=============================================================================
