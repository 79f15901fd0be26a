--------------------------- MODULE TopicGenerator ---------------------------
(***************************************************************************)
(* scripts/srimb/generate_topic.py: the build step that turns the .topic   *)
(* files into C++ headers, one struct per file, and three headers about    *)
(* all of them: TopicMetadata.h, DataTypes.h, TopicTypes.h.                *)
(*                                                                         *)
(* The script lists the directory first and reads the files one by one, so *)
(* an editor may change or delete a file in between.  A line it cannot     *)
(* parse, a deleted file or the end of the build stops it anywhere; what   *)
(* it wrote stays, and a file that was opened and not written is empty.    *)
(***************************************************************************)
EXTENDS Integers, FiniteSets, SequencesExt

CONSTANTS
    TopicNames,      \* names of .topic files, without the ending
    HeaderNames,     \* names that a header may get
    TopicContents,   \* what a .topic file may hold: sequences of lines,
                     \* which are sequences of words
    Beginning,       \* for "#" and the two keywords: the words that begin with it
    MaxTopicEdits,   \* bound on the edits of .topic files
    Missing,         \* no such file
    Empty,           \* a file opened for writing and not written
    None             \* Python's None

\* A directory has finitely many files.  None is DataTypes.topic: its struct and
\* the list of the structs would be written to one path, data_types/DataTypes.h,
\* the list last, and no firmware compiles without the struct.
ASSUME TopicNamesAssumption ==
    /\ IsFiniteSet(TopicNames) /\ TopicNames \subseteq HeaderNames
    /\ "DataTypes" \notin TopicNames

VARIABLES
    topic_files,     \* the .topic files
    tg_pc,           \* "idle", "files", "header", "write"
    tg_todo,         \* the names of os.listdir that are left
    tg_parsed,       \* what parse_msg_file returned last
    tg_out,          \* the number of the file about all topics being written
    metadata, data_types_lines, aliases,    \* the lists main() appends to
    headers,         \* data_types/<name>.h on disk
    outputs,         \* TopicMetadata.h, DataTypes.h, TopicTypes.h on disk
    tg_result,       \* how the last run ended: "none", "ok", "failed"
    topic_edits,     \* edits so far
    topic_seen       \* history: what each .topic file held during the run

tgLists == <<metadata, data_types_lines, aliases>>
tgVars  == <<topic_files, tg_pc, tg_todo, tg_parsed, tg_out, tgLists, headers, outputs,
             tg_result, topic_edits, topic_seen>>

(***************************************************************************)
(* parse_msg_file                                                          *)
(***************************************************************************)
TYPE_MAP ==
    [uint8 |-> "uint8_t", uint16 |-> "uint16_t", uint32 |-> "uint32_t", uint64 |-> "uint64_t",
     int8  |-> "int8_t",  int16  |-> "int16_t",  int32  |-> "int32_t",  int64  |-> "int64_t",
     float32 |-> "float", float64 |-> "double"]

CppType(typ) == IF typ \in DOMAIN TYPE_MAP THEN TYPE_MAP[typ] ELSE typ

\* line.startswith(key), which needs no blank after the key.
Starts(line, key)  == line # << >> /\ line[1] \in Beginning[key]
LinesOf(content, key) == SelectSeq(content, LAMBDA line : Starts(line, key))

\* parts[1] of a keyword's line.
Parses(content) ==
    \A i \in DOMAIN content :
        Starts(content[i], "QUEUE_LENGTH") \/ Starts(content[i], "TOPIC_NAME")
            => Len(content[i]) > 1

\* The last line with the keyword wins.
Argument(content, key) ==
    LET lines == LinesOf(content, key) IN IF lines = << >> THEN None ELSE Last(lines)[2]

\* Comments, lines of keywords and lines of one word are no fields.
IsField(line) ==
    Len(line) > 1 /\ \A key \in {"#", "QUEUE_LENGTH", "TOPIC_NAME"} : ~Starts(line, key)

parse_msg_file(content) ==
    LET fields == SelectSeq(content, IsField)
    IN  [fields     |-> [i \in DOMAIN fields |-> <<CppType(fields[i][1]), fields[i][2]>>],
         queue_len  |-> Argument(content, "QUEUE_LENGTH"),
         topic_name |-> Argument(content, "TOPIC_NAME")]

(***************************************************************************)
(* What is generated from a file                                           *)
(***************************************************************************)
generate_header(name, parsed) == [struct |-> name, fields |-> parsed.fields]

generate_metadata(name, parsed) ==
    [struct       |-> name,
     TOPIC_NAME   |-> IF parsed.topic_name = None THEN name ELSE parsed.topic_name,
     QUEUE_LENGTH |-> parsed.queue_len]

\* Mutant: the alias follows the topic's name.
Alias_ByName(name, parsed) == [struct |-> name, queued |-> parsed.topic_name # None]

\* using <name>Topic: SRIMBQueueTopic, which uses Metadata::QUEUE_LENGTH, or
\* SRIMBTopic.
Alias(name, parsed) == [struct |-> name, queued |-> parsed.queue_len # None]

\* Mutant: the header is named after the topic.
HeaderName_Topic(name, parsed) ==
    IF parsed.topic_name = None THEN name ELSE parsed.topic_name

\* The file that a struct's header is written to.
HeaderName(name, parsed) == name

\* The marks for files that are not there or empty are no contents.
ASSUME MarksAssumption ==
    /\ Missing \notin TopicContents /\ Missing # Empty
    /\ \A name \in TopicNames, content \in TopicContents :
          Parses(content) => Missing # generate_header(name, parse_msg_file(content))

(***************************************************************************)
(* main                                                                    *)
(***************************************************************************)
Present == {name \in TopicNames : topic_files[name] # Missing}

TopicInit ==
    /\ topic_files \in [TopicNames -> TopicContents \cup {Missing}]
    /\ tg_pc = "idle"
    /\ tg_todo = << >>
    /\ tg_parsed = None
    /\ tg_out = 1
    /\ metadata = << >> /\ data_types_lines = << >> /\ aliases = << >>
    /\ headers = [name \in HeaderNames |-> Missing]
    /\ outputs = [file \in {"TopicMetadata", "DataTypes", "TopicTypes"} |-> Missing]
    /\ tg_result = "none"
    /\ topic_edits = 0
    /\ topic_seen = [name \in TopicNames |-> {}]

\* os.listdir: the names in any order.
StartTopics ==
    /\ tg_pc = "idle"
    /\ tg_pc' = "files"
    /\ tg_todo' \in SetToSeqs(Present)
    /\ tg_out' = 1
    /\ metadata' = << >> /\ data_types_lines' = << >> /\ aliases' = << >>
    /\ tg_result' = "none"
    /\ topic_seen' = [name \in TopicNames |-> {topic_files[name]}]
    /\ UNCHANGED <<topic_files, tg_parsed, headers, outputs, topic_edits>>

\* One round of the loop up to open(out_path, 'w').
ReadTopic ==
    /\ tg_pc = "files" /\ tg_todo # << >>
    /\ LET name == Head(tg_todo)
           content == topic_files[name]
           parsed == parse_msg_file(content)
       IN  /\ content # Missing /\ Parses(content)
           /\ tg_parsed' = parsed
           /\ metadata' = Append(metadata, generate_metadata(name, parsed))
           /\ data_types_lines' = Append(data_types_lines, name)
           /\ aliases' = Append(aliases, Alias(name, parsed))
           /\ headers' = [headers EXCEPT ![HeaderName(name, parsed)] = Empty]
    /\ tg_pc' = "header"
    /\ UNCHANGED <<topic_files, tg_todo, tg_out, outputs, tg_result, topic_edits, topic_seen>>

\* f.write(header).
WriteHeader ==
    /\ tg_pc = "header"
    /\ LET name == Head(tg_todo)
       IN  headers' = [headers EXCEPT ![HeaderName(name, tg_parsed)] =
                          generate_header(name, tg_parsed)]
    /\ tg_todo' = Tail(tg_todo)
    /\ tg_pc' = "files"
    /\ UNCHANGED <<topic_files, tg_parsed, tg_out, tgLists, outputs, tg_result, topic_edits,
                   topic_seen>>

\* The files about all topics, in the order they are written, with their text.
Output == <<[file |-> "TopicMetadata", text |-> metadata],
            [file |-> "DataTypes",     text |-> data_types_lines],
            [file |-> "TopicTypes",    text |-> aliases]>>

OpenOutput ==
    /\ tg_pc = "files" /\ tg_todo = << >>
    /\ outputs' = [outputs EXCEPT ![Output[tg_out].file] = Empty]
    /\ tg_pc' = "write"
    /\ UNCHANGED <<topic_files, tg_todo, tg_parsed, tg_out, tgLists, headers, tg_result,
                   topic_edits, topic_seen>>

WriteOutput ==
    /\ tg_pc = "write"
    /\ outputs' = [outputs EXCEPT ![Output[tg_out].file] = Output[tg_out].text]
    /\ IF tg_out < Len(Output)
         THEN /\ tg_out' = tg_out + 1
              /\ tg_pc' = "files"
              /\ UNCHANGED tg_result
         ELSE /\ tg_pc' = "idle"
              /\ tg_result' = "ok"
              /\ UNCHANGED tg_out
    /\ UNCHANGED <<topic_files, tg_todo, tg_parsed, tgLists, headers, topic_edits, topic_seen>>

\* An exception or the end of the build, at any step.
TopicsStopped ==
    /\ tg_pc # "idle"
    /\ tg_pc' = "idle"
    /\ tg_result' = "failed"
    /\ UNCHANGED <<topic_files, tg_todo, tg_parsed, tg_out, tgLists, headers, outputs,
                   topic_edits, topic_seen>>

\* Somebody writes or deletes a .topic file.
EditTopic(name, content) ==
    /\ topic_edits < MaxTopicEdits
    /\ topic_edits' = topic_edits + 1
    /\ topic_files[name] # content
    /\ topic_files' = [topic_files EXCEPT ![name] = content]
    /\ topic_seen' = IF tg_pc = "idle" THEN topic_seen
                                        ELSE [topic_seen EXCEPT ![name] = @ \cup {content}]
    /\ UNCHANGED <<tg_pc, tg_todo, tg_parsed, tg_out, tgLists, headers, outputs, tg_result>>

TopicNext ==
    \/ StartTopics \/ ReadTopic \/ WriteHeader \/ OpenOutput \/ WriteOutput \/ TopicsStopped
    \/ \E name \in TopicNames, content \in TopicContents \cup {Missing} :
          EditTopic(name, content)

TopicSpec == TopicInit /\ [][TopicNext]_tgVars

-----------------------------------------------------------------------------
\* After a run that ended well, the four kinds of headers agree although the
\* .topic files may have changed while they were read: the topics are the same
\* everywhere and in one order, each appears once, a file that was there all
\* the time is among them, and the struct, the metadata and the alias of a
\* topic come from one and the same content the file had during the run.  In
\* particular an alias that uses QUEUE_LENGTH has metadata that defines it.
TopicHeadersAgree ==
    tg_result = "ok" =>
        LET structs == outputs["DataTypes"]
            From(i, content) ==
                LET parsed == parse_msg_file(content)
                IN  /\ outputs["TopicMetadata"][i] = generate_metadata(structs[i], parsed)
                    /\ headers[structs[i]] = generate_header(structs[i], parsed)
                    /\ outputs["TopicTypes"][i].struct = structs[i]
                    /\ outputs["TopicTypes"][i].queued
                         = (outputs["TopicMetadata"][i].QUEUE_LENGTH # None)
        IN  /\ IsInjective(structs)
            /\ Len(outputs["TopicMetadata"]) = Len(structs)
            /\ Len(outputs["TopicTypes"]) = Len(structs)
            /\ \A name \in TopicNames : Missing \notin topic_seen[name] => name \in Range(structs)
            /\ \A i \in DOMAIN structs :
                  \E content \in topic_seen[structs[i]] \ {Missing} :
                      Parses(content) /\ From(i, content)

\* At every moment, in the middle of a run and after one that failed, every
\* header that DataTypes.h includes is on disk.
IncludedHeadersExist ==
    outputs["DataTypes"] \notin {Missing, Empty} =>
        \A i \in DOMAIN outputs["DataTypes"] : headers[outputs["DataTypes"][i]] # Missing
=============================================================================
