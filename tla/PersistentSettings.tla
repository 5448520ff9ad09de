-------------------------- MODULE PersistentSettings --------------------------
(***************************************************************************)
(* PersistentSettings<T>: one settings struct, the json file it is written *)
(* to after every change, the threads that change it, crashes and reboots. *)
(*                                                                         *)
(* A thread changes one field of the struct it shares with the others      *)
(* (unsafe_get_settings), then calls persist: the whole struct is          *)
(* serialized, the file truncated by opening it, the text written. Nothing *)
(* is locked. init, at the start of the program, is a thread of its own.   *)
(***************************************************************************)
EXTENDS Naturals

CONSTANTS
  Threads,      \* threads that change settings
  Fields,       \* fields of the struct
  Values,       \* values of a field
  Default,      \* value of every field in create_default()
  Nothing,      \* no field
  NoFile,       \* content of the file: there is none,
  Broken,       \* it is empty or not the text of one struct
  MaxChanges,   \* bound: changes of a field
  MaxReboots,   \* bound: ends of the program, at any point
  MaxFailures   \* bound: writes the file system refuses

Struct == [Fields -> Values]

ASSUME ConstAssumption == Fields # {} /\ Default \in Values /\ Nothing \notin Fields
ASSUME FileAssumption == NoFile # Broken /\ NoFile \notin Struct /\ Broken \notin Struct
ASSUME BootAssumption == "init" \notin Threads
ASSUME BoundAssumption == MaxChanges \in Nat /\ MaxReboots \in Nat /\ MaxFailures \in Nat

VARIABLES
  settings,   \* _settings
  file,       \* the file: the text of a struct, or NoFile, or Broken
  running,    \* the program runs
  pc,         \* what a thread has done of a change
  field,      \* the field it changes
  content,    \* the text persist_settings has serialized
  saved,      \* history: per field, what its last persist wrote or init found
  unsaved,    \* history: fields changed since the last persist that met no other
  alone,      \* history: the persist under way began with no other under way
  clean,      \* history: the last persist met no other and no failure
  changes, reboots, failures

vars == <<settings, file, running, pc, field, content, saved, unsaved, alone, clean, changes, reboots,
          failures>>

create_default == [f \in Fields |-> Default]

All == Threads \cup {"init"}
Idle == \A t \in All : pc[t] = "idle"
Booted == running /\ pc["init"] = "idle"

Init ==
  /\ settings = create_default
  /\ file = NoFile
  /\ running = FALSE
  /\ pc = [t \in All |-> "idle"]
  /\ field = [t \in All |-> Nothing]
  /\ content = [t \in All |-> create_default]
  /\ saved = create_default
  /\ unsaved = {}
  /\ alone = TRUE /\ clean = TRUE
  /\ changes = 0 /\ reboots = 0 /\ failures = 0

-----------------------------------------------------------------------------
\* init without usable settings: create defaults and persist them.
init_defaults ==
  /\ settings' = create_default
  /\ pc' = [pc EXCEPT !["init"] = "changed"]

\* read_last_settings fails without a file (opt_read_file) and for a text that
\* cannot be parsed (impl_deserialize).
readable == file \notin {NoFile, Broken}

\* Mutant: the exception of the parser is not caught.
MutInitSettings ==
  file # Broken /\ IF readable THEN settings' = file /\ UNCHANGED pc ELSE init_defaults

\* Mutant: the stored settings are read but the defaults are used.
MutInitForgets == settings' = create_default /\ UNCHANGED pc

init_settings == IF readable THEN settings' = file /\ UNCHANGED pc ELSE init_defaults

init ==
  /\ ~running
  /\ running' = TRUE
  /\ init_settings
  /\ saved' = settings' /\ unsaved' = {}
  /\ alone' = TRUE /\ clean' = TRUE
  /\ UNCHANGED <<file, field, content, changes, reboots, failures>>

\* A thread writes a field of the struct and calls persist.
change(t, f, v) ==
  /\ Booted
  /\ pc[t] = "idle"
  /\ changes < MaxChanges
  /\ settings' = [settings EXCEPT ![f] = v]
  /\ pc' = [pc EXCEPT ![t] = "changed"]
  /\ field' = [field EXCEPT ![t] = f]
  /\ unsaved' = unsaved \cup {f}
  /\ alone' = Idle
  /\ changes' = changes + 1
  /\ UNCHANGED <<file, running, content, saved, clean, reboots, failures>>

\* persist_settings: imp_serialize.
serialize(t) ==
  /\ pc[t] = "changed"
  /\ content' = [content EXCEPT ![t] = settings]
  /\ pc' = [pc EXCEPT ![t] = "serialized"]
  /\ UNCHANGED <<settings, file, running, field, saved, unsaved, alone, clean, changes, reboots,
                 failures>>

\* write_file: the std::ofstream truncates the file.
open(t) ==
  /\ pc[t] = "serialized"
  /\ file' = Broken
  /\ pc' = [pc EXCEPT ![t] = "opened"]
  /\ UNCHANGED <<settings, running, field, content, saved, unsaved, alone, clean, changes, reboots,
                 failures>>

Return(t) ==
  /\ pc' = [pc EXCEPT ![t] = "idle"]
  /\ field' = [field EXCEPT ![t] = Nothing]

\* Mutant: the text of the settings the program started with.
MutWritten(t) == saved

Written(t) == content[t]

\* write_file: the text goes out, the stream is closed. Over the text of a
\* thread that had the file open as well, the end of a longer one stays behind.
write(t) ==
  /\ pc[t] = "opened"
  /\ \/ file' = Written(t)
     \/ file \notin {Broken, Written(t)} /\ file' = Broken
  /\ saved' = [f \in Fields |-> IF alone \/ f = field[t] THEN content[t][f] ELSE saved[f]]
  /\ unsaved' = IF alone THEN {} ELSE unsaved
  /\ clean' = alone
  /\ Return(t)
  /\ UNCHANGED <<settings, running, content, alone, changes, reboots, failures>>

\* write_file: the file cannot be opened (and stays), or not be written; a
\* warning is all that happens.
cannot_write(t) ==
  /\ pc[t] \in {"serialized", "opened"}
  /\ failures < MaxFailures
  /\ failures' = failures + 1
  /\ clean' = FALSE
  /\ Return(t)
  /\ UNCHANGED <<settings, file, running, content, saved, unsaved, alone, changes, reboots>>

\* The program ends, at any point; only the file stays.
reboot ==
  /\ running
  /\ reboots < MaxReboots
  /\ running' = FALSE
  /\ pc' = [t \in All |-> "idle"]
  /\ field' = [t \in All |-> Nothing]
  /\ reboots' = reboots + 1
  /\ UNCHANGED <<settings, file, content, saved, unsaved, alone, clean, changes, failures>>

persist(t) == serialize(t) \/ open(t) \/ write(t)

Next ==
  \/ init
  \/ \E t \in Threads, f \in Fields, v \in Values : change(t, f, v)
  \/ \E t \in All : persist(t) \/ cannot_write(t)
  \/ reboot

Spec == Init /\ [][Next]_vars

\* The program is started after it ended; a thread in persist goes on.
FairSpec == Spec /\ WF_vars(init) /\ \A t \in All : WF_vars(persist(t))

-----------------------------------------------------------------------------
TypeOK ==
  /\ settings \in Struct
  /\ file \in Struct \cup {NoFile, Broken}
  /\ running \in BOOLEAN
  /\ pc \in [All -> {"idle", "changed", "serialized", "opened"}]
  /\ field \in [All -> Fields \cup {Nothing}]
  /\ content \in [All -> Struct]
  /\ saved \in Struct
  /\ unsaved \subseteq Fields
  /\ alone \in BOOLEAN /\ clean \in BOOLEAN
  /\ changes \in 0 .. MaxChanges /\ reboots \in 0 .. MaxReboots /\ failures \in 0 .. MaxFailures

\* When no thread is in persist, and the last one that was met no other there
\* and no failure, the file holds the settings in use, whatever a crash, a
\* race or a failure had left in it before (persist_settings, init).
CleanPersistRepairs == Booted /\ Idle /\ clean => file = settings

\* "save changes by writing them out to the file": when no thread is in
\* persist, the file holds the settings in use (persist).
PersistSavesChanges == Booted /\ Idle => file = settings

\* A program that finds a complete file, last written by a persist that met no
\* other, starts with what was last written out of every field, or with a
\* change of it that was under way (init).
Restored == \A f \in Fields \ unsaved : settings'[f] = saved[f]
RestartRestores == [][init /\ readable /\ clean => Restored]_vars

\* However it ended, the program gets through init again (init).
StartsAgain == ~running ~> Booted
===============================================================================
