--------------------------- MODULE ParamGenerator ---------------------------
(***************************************************************************)
(* scripts/params/generate_params.py: the build step that turns the        *)
(* modules' module.yaml files into enum class ID (param_defs.hpp) and the  *)
(* table g_param_metadata (param_defs.cpp), and what depends on it: the    *)
(* firmware indexes the table by ID to find the key of a parameter, and    *)
(* the records in flash, kept by key, outlive the firmware.                *)
(*                                                                         *)
(* Modules come and go, their files change at any moment, and a run of the *)
(* script may stop anywhere.  A build without a successful run is not      *)
(* installed, and neither is one that does not compile.                    *)
(***************************************************************************)
EXTENDS Integers, Sequences, SequencesExt

CONSTANTS
    YamlPaths,       \* the paths **/module.yaml, by their place in sorted order
    YamlContents,    \* what a module.yaml may hold
    Upper,           \* str.upper, word by word
    MaxYamlEdits,    \* bound on the edits of module.yaml files
    MaxInstalls,     \* bound on the installations
    NoFile,          \* no such file
    NoText           \* a file opened for writing and not written

\* A module.yaml: the module's name, empty if it has none, and the names of
\* its parameters, over all groups.  Names are sequences of words, joined by
\* "_".  Which module it is the properties are told by "module"; the script
\* has nothing but the name, and nobody promises that names differ.
YamlSchema ==
    \A content \in YamlContents :
        /\ DOMAIN content = {"module", "module_name", "definitions"}
        /\ content.module_name \in Seq(DOMAIN Upper)
        /\ content.definitions \in Seq(Seq(STRING))

ASSUME YamlAssumption ==
    /\ YamlPaths \subseteq Int
    /\ YamlSchema
    /\ NoFile \notin YamlContents

VARIABLES
    yaml_files,      \* path -> content of the module.yaml there
    pg_pc,           \* "idle", "collect", "hpp" or "cpp": the file that is open
    pg_files,        \* the paths of the glob that are left
    params,          \* all_params so far
    hpp, cpp,        \* param_defs.hpp and .cpp on disk
    pg_result,       \* how the last run ended: "none", "ok", "failed"
    firmware,        \* the installed firmware: its enum and its table
    param_flash,     \* the records in flash
    yaml_edits, installs

pgVars == <<yaml_files, pg_pc, pg_files, params, hpp, cpp, pg_result, firmware, param_flash,
            yaml_edits, installs>>

(***************************************************************************)
(* collect_params                                                          *)
(***************************************************************************)

\* data.get('module_name', 'unknown').
ModuleName(content) == IF content.module_name = << >> THEN <<"unknown">> ELSE content.module_name

\* f"{module_name.upper()}_{param_name}".
FullName(module, param) == [i \in 1 .. Len(module) |-> Upper[module[i]]] \o param

\* A parameter of a module, whatever the two are called.
Owner(content, i) == [module |-> content.module, param |-> content.definitions[i]]

\* The entries of one file; the owner says for the properties which parameter
\* the entry is about.  Two parameters may get one name: IMU_GAIN of ekf and
\* GAIN of ekf_imu, those of modules without a name, or of ekf and Ekf.
Entries(content) ==
    [i \in DOMAIN content.definitions |->
        [name  |-> FullName(ModuleName(content), content.definitions[i]),
         owner |-> Owner(content, i)]]

(***************************************************************************)
(* generate                                                                *)
(***************************************************************************)
NoFirmware == [enum |-> << >>, table |-> << >>]

ParamInit ==
    /\ yaml_files \in [YamlPaths -> YamlContents \cup {NoFile}]
    /\ pg_pc = "idle"
    /\ pg_files = {}
    /\ params = << >>
    /\ hpp = NoFile /\ cpp = NoFile
    /\ pg_result = "none"
    /\ firmware = NoFirmware
    /\ param_flash = {}
    /\ yaml_edits = 0 /\ installs = 0

\* sorted(glob.glob(...)): the files there are.
StartParams ==
    /\ pg_pc = "idle"
    /\ pg_pc' = "collect"
    /\ pg_files' = {path \in YamlPaths : yaml_files[path] # NoFile}
    /\ params' = << >>
    /\ pg_result' = "none"
    /\ UNCHANGED <<yaml_files, hpp, cpp, firmware, param_flash, yaml_edits, installs>>

\* The next file, in sorted order.
CollectFile(path) ==
    /\ pg_pc = "collect"
    /\ path \in pg_files /\ \A other \in pg_files : path <= other
    /\ yaml_files[path] # NoFile
    /\ params' = params \o Entries(yaml_files[path])
    /\ pg_files' = pg_files \ {path}
    /\ UNCHANGED <<yaml_files, pg_pc, hpp, cpp, pg_result, firmware, param_flash, yaml_edits,
                   installs>>

\* collect_params returns, and open(..., 'w') empties the header.
OpenHpp ==
    /\ pg_pc = "collect" /\ pg_files = {}
    /\ pg_pc' = "hpp"
    /\ hpp' = NoText
    /\ UNCHANGED <<yaml_files, pg_files, params, cpp, pg_result, firmware, param_flash,
                   yaml_edits, installs>>

\* The enum numbers the parameters in the order of params; then the table's
\* file is opened.
WriteHpp ==
    /\ pg_pc = "hpp"
    /\ pg_pc' = "cpp"
    /\ hpp' = params
    /\ cpp' = NoText
    /\ UNCHANGED <<yaml_files, pg_files, params, pg_result, firmware, param_flash, yaml_edits,
                   installs>>

\* Mutant: the table is made from the files as they are by now.
WriteCpp_CollectedAgain ==
    /\ pg_pc = "cpp"
    /\ pg_pc' = "idle"
    /\ LET present == {path \in YamlPaths : yaml_files[path] # NoFile}
       IN  cpp' = FoldLeft(LAMBDA all, path : all \o Entries(yaml_files[path]), << >>,
                           SetToSortSeq(present, <))
    /\ pg_result' = "ok"
    /\ UNCHANGED <<yaml_files, pg_files, params, hpp, firmware, param_flash, yaml_edits,
                   installs>>

\* The rows name their ID and their key.
WriteCpp ==
    /\ pg_pc = "cpp"
    /\ pg_pc' = "idle"
    /\ cpp' = params
    /\ pg_result' = "ok"
    /\ UNCHANGED <<yaml_files, pg_files, params, hpp, firmware, param_flash, yaml_edits,
                   installs>>

\* A file that is gone or does not parse, or the end of the build.
ParamsStopped ==
    /\ pg_pc # "idle"
    /\ pg_pc' = "idle"
    /\ pg_result' = "failed"
    /\ UNCHANGED <<yaml_files, pg_files, params, hpp, cpp, firmware, param_flash, yaml_edits,
                   installs>>

EditYaml(path, content) ==
    /\ yaml_edits < MaxYamlEdits
    /\ yaml_edits' = yaml_edits + 1
    /\ yaml_files[path] # content
    /\ yaml_files' = [yaml_files EXCEPT ![path] = content]
    /\ UNCHANGED <<pg_pc, pg_files, params, hpp, cpp, pg_result, firmware, param_flash, installs>>

(***************************************************************************)
(* The firmware built from the two files                                   *)
(***************************************************************************)

\* The enumerators are distinct, every row names one, and the static_assert
\* on the number of rows holds.
Compiles ==
    /\ \A i, j \in DOMAIN hpp : hpp[i].name = hpp[j].name => i = j
    /\ \A i \in DOMAIN cpp : \E j \in DOMAIN hpp : cpp[i].name = hpp[j].name
    /\ Len(cpp) = Len(hpp)

Install ==
    /\ pg_pc = "idle" /\ pg_result = "ok" /\ Compiles
    /\ installs < MaxInstalls
    /\ installs' = installs + 1
    /\ firmware' = [enum |-> hpp, table |-> cpp]
    /\ UNCHANGED <<yaml_files, pg_pc, pg_files, params, hpp, cpp, pg_result, param_flash,
                   yaml_edits>>

\* A module sets its parameter, the i-th enumerator: id_to_key takes the key
\* from row i.  For the properties the record says which parameter it was
\* saved for, and by which build.
SaveParam(i) ==
    /\ param_flash' =
          {record \in param_flash : record.key # firmware.table[i].name}
             \cup {[key |-> firmware.table[i].name, by |-> firmware.enum[i], build |-> installs]}
    /\ UNCHANGED <<yaml_files, pg_pc, pg_files, params, hpp, cpp, pg_result, firmware,
                   yaml_edits, installs>>

\* The row that settings_handler finds for a key: the first with that name.
Finds(key, i) ==
    /\ firmware.table[i].name = key
    /\ \A j \in 1 .. i - 1 : firmware.table[j].name # key

ParamNext ==
    \/ StartParams \/ OpenHpp \/ WriteHpp \/ WriteCpp \/ ParamsStopped
    \/ \E path \in YamlPaths : CollectFile(path)
    \/ \E path \in YamlPaths, content \in YamlContents \cup {NoFile} : EditYaml(path, content)
    \/ Install
    \/ \E i \in DOMAIN firmware.enum : SaveParam(i)

ParamSpec == ParamInit /\ [][ParamNext]_pgVars

-----------------------------------------------------------------------------
\* What generate_params.py:18 claims: the prefix avoids collisions.  A value
\* saved for a parameter of a module would then be restored by every later
\* firmware into that parameter or into none.  It is not so.
SavedValuesKeepTheirOwner ==
    \A record \in param_flash, i \in DOMAIN firmware.enum :
        Finds(record.key, i) => record.by.owner = firmware.enum[i].owner

\* Colliding names are the only way to another parameter's value, and only
\* from one build to the next: within a build a value is restored into the
\* parameter it was saved for, and a later build restores it into a parameter
\* whose full name is that of the one it was saved for.  Whatever modules were
\* added, removed or changed, whatever they are called, whichever numbers the
\* parameters got, and however the runs of the generator met the edits
\* (generate_params.py:29-62, param_manager.hpp:16, param_manager.cpp:68).
SavedValuesStrayOnlyByCollision ==
    \A record \in param_flash, i \in DOMAIN firmware.enum :
        Finds(record.key, i) =>
            \/ record.by.owner = firmware.enum[i].owner
            \/ record.build # installs /\ record.by.name = firmware.enum[i].name
=============================================================================
