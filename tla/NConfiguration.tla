---------------------------- MODULE NConfiguration ----------------------------
(***************************************************************************)
(* command.NConfiguration: the server's one setting, the directory that    *)
(* holds the files to send.  It lives in the static field conf and in      *)
(* ~/.nenes/conf.json.  The constructor reads the file, or creates it with *)
(* the default; web threads save new values, each by assigning conf and    *)
(* then rewriting the file; neither is synchronised, and the file is       *)
(* rewritten in place: FileWriter truncates it when it is opened, and the  *)
(* text goes out in one piece when it is flushed.  The process may be      *)
(* killed at any point and started again.                                  *)
(***************************************************************************)
EXTENDS Integers

CONSTANTS
    Dirs,         \* directories a user may configure
    DefaultDir,   \* ~/.nenes/workspace
    Size,         \* length of the JSON text for a directory
    WebThreads,   \* threads that may run SaveConfiguration at the same time
    NoConf,       \* conf == null
    NoFile,       \* there is no conf.json
    MaxSaves,     \* bound: SaveConfiguration calls with a directory
    MaxKills,     \* bound: kills of the process
    MaxErrors     \* bound: I/O errors

ASSUME DefaultDirAssumption == DefaultDir \in Dirs
ASSUME SizeAssumption == Size \in [Dirs -> Nat \ {0}]
ASSUME NoConfAssumption == NoConf \notin Dirs
ASSUME NoFileAssumption == NoFile \notin [text : Dirs, length : Nat]
ASSUME BoundsAssumption == MaxSaves \in Nat /\ MaxKills \in Nat /\ MaxErrors \in Nat

\* What conf.json may hold: the text of a directory, followed by whatever else is left
\* of a longer one; its length tells.
Contents == {NoFile} \cup [text : Dirs, length : Nat]

VARIABLES
    status,     \* "down", "reading", "creating", "up"; "failed", "unread" if it did not start
    conf,       \* NConfiguration.conf
    disk,       \* the contents of conf.json
    pc,         \* where a web thread is in SaveConfiguration
    value,      \* the directory it saves
    \* History and bounds:
    saves, kills, errors,
    latest,     \* the last directory whose text was completely written
    raced,      \* two saves overlapped, and none has opened the file alone since
    torn,       \* the file was truncated, and its text never came
    unsaved     \* an I/O error kept conf from the file

threadVars == <<pc, value>>
boundVars == <<saves, kills, errors>>
history == <<latest, raced, torn, unsaved>>
vars == <<status, conf, disk, threadVars, boundVars, history>>

\* The file is just the text of d; it has no text; more comes behind the text.
Holds(d) == disk # NoFile /\ disk = [text |-> d, length |-> Size[d]]
IsEmpty == disk # NoFile /\ disk.length = 0
IsGarbled == disk # NoFile /\ disk.length > Size[disk.text]

Truncated == [text |-> DefaultDir, length |-> 0]

Init ==
    /\ status = "down"
    /\ conf = NoConf
    /\ disk = NoFile
    /\ pc = [t \in WebThreads |-> "idle"]
    /\ value = [t \in WebThreads |-> DefaultDir]
    /\ saves = 0 /\ kills = 0 /\ errors = 0
    /\ latest = NoConf
    /\ raced = FALSE /\ torn = FALSE /\ unsaved = FALSE

-----------------------------------------------------------------------------
(* Starting: the constructor and readConfigFile_Gson.                      *)

Start ==
    /\ status = "down"
    /\ status' = "reading"
    /\ UNCHANGED <<conf, disk, threadVars, boundVars, history>>

\* The file holds one JSON value, d; c is the setting in use.
Restore(d, c) ==
    /\ status = "reading"
    /\ Holds(d)
    /\ conf' = c
    /\ status' = "up"
    /\ unsaved' = FALSE
    /\ UNCHANGED <<disk, threadVars, boundVars, latest, raced, torn>>

\* Faulty ReadConf: what the file says is not used.
ReadConfIgnored == \E d \in Dirs : Restore(d, DefaultDir)

ReadConf == \E d \in Dirs : Restore(d, d)

\* Gson gives null for an empty text, and nobody looks.
ReadNothing ==
    /\ status = "reading"
    /\ IsEmpty
    /\ conf' = NoConf
    /\ status' = "up"
    /\ UNCHANGED <<disk, threadVars, boundVars, history>>

\* The file cannot be opened: the exception is printed, and null is returned.
ReadUnopened ==
    /\ status = "reading"
    /\ disk # NoFile
    /\ errors < MaxErrors
    /\ errors' = errors + 1
    /\ conf' = NoConf
    /\ status' = "up"
    /\ unsaved' = TRUE
    /\ UNCHANGED <<disk, threadVars, saves, kills, latest, raced, torn>>

\* Gson throws when the text goes on behind its value, and IOException is all that is
\* caught: the bean cannot be created, and the server does not start.
ReadFails ==
    /\ status = "reading"
    /\ IsGarbled
    /\ status' = "failed"
    /\ UNCHANGED <<conf, disk, threadVars, boundVars, history>>

\* A read of the open file fails: Gson makes a JsonIOException of it, which is no
\* IOException, and the server does not start either.
ReadBreaks ==
    /\ status = "reading"
    /\ disk # NoFile
    /\ errors < MaxErrors
    /\ errors' = errors + 1
    /\ status' = "unread"
    /\ UNCHANGED <<conf, disk, threadVars, saves, kills, history>>

\* There is no file: one is created, empty at first.
Create ==
    /\ status = "reading"
    /\ disk = NoFile
    /\ disk' = Truncated
    /\ status' = "creating"
    /\ UNCHANGED <<conf, threadVars, boundVars, history>>

WriteDefault ==
    /\ status = "creating"
    /\ disk' = [text |-> DefaultDir, length |-> Size[DefaultDir]]
    /\ latest' = DefaultDir
    /\ conf' = DefaultDir
    /\ status' = "up"
    /\ UNCHANGED <<threadVars, boundVars, raced, torn, unsaved>>

\* The file cannot be created or written: the default is used all the same.
CreateFails ==
    /\ status = "creating" \/ (status = "reading" /\ disk = NoFile)
    /\ errors < MaxErrors
    /\ errors' = errors + 1
    /\ torn' = (torn \/ status = "creating")
    /\ unsaved' = TRUE
    /\ conf' = DefaultDir
    /\ status' = "up"
    /\ UNCHANGED <<disk, threadVars, saves, kills, latest, raced>>

Boot ==
    \/ Start \/ ReadConf \/ ReadNothing \/ ReadUnopened \/ ReadFails \/ ReadBreaks
    \/ Create \/ WriteDefault \/ CreateFails

-----------------------------------------------------------------------------
(* SaveConfiguration and saveConfigFile_Gson, by a web thread.  Without a  *)
(* directory in the request it only shows conf, or throws if that is null. *)

\* The request of t to save d begins; c is the setting in use from now on.
BeginSave(t, d, c) ==
    /\ status = "up"
    /\ pc[t] = "idle"
    /\ saves < MaxSaves
    /\ saves' = saves + 1
    /\ conf' = c
    /\ value' = [value EXCEPT ![t] = d]
    /\ pc' = [pc EXCEPT ![t] = "open"]
    /\ raced' = (raced \/ \E u \in WebThreads : pc[u] # "idle")
    /\ UNCHANGED <<status, disk, kills, errors, latest, torn, unsaved>>

\* Faulty SaveConfiguration: the new setting is saved, but not used.
SaveConfigurationOnDiskOnly(t, d) == BeginSave(t, d, conf)

SaveConfiguration(t, d) == BeginSave(t, d, d)

\* The thread has the file open, which then is f.
Opened(t, f) ==
    /\ pc[t] = "open"
    /\ disk' = f
    /\ pc' = [pc EXCEPT ![t] = "write"]
    /\ raced' = (raced /\ (conf # value[t] \/ \E u \in WebThreads \ {t} : pc[u] # "idle"))
    /\ UNCHANGED <<status, conf, value, boundVars, latest, torn, unsaved>>

\* Faulty OpenFile: the file is not truncated.
OpenFileUntruncated(t) == Opened(t, IF disk = NoFile THEN Truncated ELSE disk)

\* new FileWriter(...): the file is created or truncated.
OpenFile(t) == Opened(t, Truncated)

\* The request is over as far as t knows; the file is f.
Written(t, f) ==
    /\ pc[t] = "write"
    /\ disk' = f
    /\ latest' = value[t]
    /\ torn' = FALSE
    /\ unsaved' = FALSE
    /\ pc' = [pc EXCEPT ![t] = "idle"]
    /\ UNCHANGED <<status, conf, value, boundVars, raced>>

\* Faulty WriteFile: the text stays in the writer's buffer.
WriteFileUnflushed(t) == Written(t, disk)

\* write, flush and close: the text goes to the start of the file, and a longer text
\* that another thread has put there since keeps its end.
WriteFile(t) ==
    LET size == Size[value[t]] IN
    Written(t, [text |-> value[t], length |-> IF disk.length > size THEN disk.length ELSE size])

\* An IOException is printed; the request succeeds, and conf keeps the new value.
SaveFails(t) ==
    /\ pc[t] \in {"open", "write"}
    /\ errors < MaxErrors
    /\ errors' = errors + 1
    /\ torn' = (torn \/ pc[t] = "write")
    /\ unsaved' = TRUE
    /\ pc' = [pc EXCEPT ![t] = "idle"]
    /\ UNCHANGED <<status, conf, disk, value, saves, kills, latest, raced>>

Save(t) == OpenFile(t) \/ WriteFile(t) \/ SaveFails(t)

\* The process dies; what is on disk stays.
Kill ==
    /\ status # "down"
    /\ kills < MaxKills
    /\ kills' = kills + 1
    /\ status' = "down"
    /\ conf' = NoConf
    /\ torn' = (torn \/ status = "creating" \/ \E t \in WebThreads : pc[t] = "write")
    /\ pc' = [t \in WebThreads |-> "idle"]
    /\ UNCHANGED <<disk, value, saves, errors, latest, raced, unsaved>>

Next ==
    \/ Boot
    \/ \E t \in WebThreads : Save(t) \/ \E d \in Dirs : SaveConfiguration(t, d)
    \/ Kill

Spec == Init /\ [][Next]_vars

-----------------------------------------------------------------------------
(* Properties.                                                             *)

\* Every variable has its type; while a thread has the file open, there is a file.
TypeOK ==
    /\ status \in {"down", "reading", "creating", "up", "failed", "unread"}
    /\ conf \in Dirs \cup {NoConf}
    /\ disk \in Contents
    /\ pc \in [WebThreads -> {"idle", "open", "write"}]
    /\ value \in [WebThreads -> Dirs]
    /\ saves \in 0..MaxSaves /\ kills \in 0..MaxKills /\ errors \in 0..MaxErrors
    /\ latest \in Dirs \cup {NoConf}
    /\ raced \in BOOLEAN /\ torn \in BOOLEAN /\ unsaved \in BOOLEAN
    /\ disk = NoFile => status # "creating" /\ \A t \in WebThreads : pc[t] # "write"

\* The setting the server works with is the one in the file, once no save is under
\* way, whatever races, kills and errors came before, if the last save met no other one,
\* no write has failed since, and the server did not start from an empty file.
DiskFollowsMemory ==
    status = "up" /\ ~raced /\ ~unsaved /\ conf # NoConf
        /\ (\A t \in WebThreads : pc[t] = "idle")
    => Holds(conf)

\* A start that can read the file fails only after a race of two saves: the text of a
\* directory over the longer text of another is what Gson refuses.
StartFailsOnlyAfterRace == status = "failed" => raced

\* The server runs without a setting (every later use of conf throws) only when a kill
\* or an error came between the truncation of the file and its text, or an error kept
\* the file from being read.
NullOnlyAfterTear == status = "up" /\ conf = NoConf => torn \/ errors > 0

\* A start that reads the file restores the last setting that was written, if the last
\* save met no other one and was not cut off.
RestartRestores ==
    [][status = "reading" /\ status' = "up" /\ errors' = errors /\ ~raced /\ ~torn
       => conf' = latest]_vars
=============================================================================
