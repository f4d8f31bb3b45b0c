--------------------------- MODULE DirWatchService ---------------------------
(***************************************************************************)
(* nene.service.DirWatchService: the thread that announces the files which *)
(* appear in the directory of the settings.  Spring starts it once;        *)
(* NOperationCommand's "watch" request calls start() a second time, which  *)
(* throws IllegalThreadStateException and changes nothing.                 *)
(*                                                                         *)
(* The JDK's watch service has a thread of its own: it appends what inotify *)
(* reports to the events of the directory's WatchKey and queues the key,   *)
(* if it is not signalled already.  take, pollEvents and reset are the     *)
(* watcher's half of that handshake.                                       *)
(***************************************************************************)
EXTENDS Integers, Sequences, SequencesExt

CONSTANTS
    Dirs,        \* directories a user may configure
    NoConf,      \* NConfiguration.conf is null
    Files,       \* names of the files that appear, each once
    Overflow,    \* the event that stands for dropped ones
    EventLimit,  \* events a WatchKey keeps (512 in the JDK)
    MaxSaves     \* bound: SaveConfiguration calls

ASSUME NoConfAssumption == NoConf \notin Dirs
ASSUME OverflowAssumption == Overflow \notin Files
ASSUME LimitAssumption == EventLimit \in Nat \ {0}
ASSUME MaxSavesAssumption == MaxSaves \in Nat

VARIABLES
    conf,       \* NConfiguration.conf.getFileDirectory()
    saves,
    thread,     \* "new", "started", "opening", "watching", "deaf", "dead"
    directory,  \* targetDir, which run has read
    exists,     \* directories that exist
    signalled,  \* the WatchKey's state
    queued,     \* the key is in the watch service's queue
    valid,      \* the key is valid
    events,     \* the events it keeps
    pc,         \* where the watcher is: "take", "poll", "publish"
    batch,      \* watchEvents that are not published yet
    published,  \* the announcements that were made, in order
    created     \* files that appeared in the watched directory, in order

keyVars == <<signalled, queued, valid, events>>
loopVars == <<pc, batch, published>>
vars == <<conf, saves, thread, directory, exists, keyVars, loopVars, created>>

Init ==
    /\ conf \in Dirs \cup {NoConf}
    /\ saves = 0
    /\ thread = "new"
    /\ directory = NoConf
    /\ exists \in SUBSET Dirs
    /\ signalled = FALSE /\ queued = FALSE /\ valid = TRUE
    /\ events = << >>
    /\ pc = "take"
    /\ batch = << >>
    /\ published = << >>
    /\ created = << >>

-----------------------------------------------------------------------------
(* Starting.                                                               *)

\* startService, after injection.
StartService ==
    /\ thread = "new"
    /\ thread' = "started"
    /\ UNCHANGED <<conf, saves, directory, exists, keyVars, loopVars, created>>

\* run calls watch(), which reads the directory; NullPointerException ends the thread
\* if there is no setting.
Run ==
    /\ thread = "started"
    /\ directory' = conf
    /\ thread' = IF conf = NoConf THEN "dead" ELSE "opening"
    /\ UNCHANGED <<conf, saves, exists, keyVars, loopVars, created>>

\* newWatchService and register.
Register ==
    /\ thread = "opening"
    /\ directory \in exists
    /\ thread' = "watching"
    /\ UNCHANGED <<conf, saves, directory, exists, keyVars, loopVars, created>>

\* An IOException is printed.  If register threw it, for want of the directory or of
\* inotify's watches, take waits on a service without keys for ever; if newWatchService
\* did, there is nothing to call take on.
RegisterFails ==
    /\ thread = "opening"
    /\ thread' \in {"dead", "deaf"}
    /\ UNCHANGED <<conf, saves, directory, exists, keyVars, loopVars, created>>

-----------------------------------------------------------------------------
(* The JDK's half: AbstractWatchKey.                                       *)

\* signal: the key is queued unless it is in the watcher's hands or queued already.
Signal == signalled' = TRUE /\ queued' = (queued \/ ~signalled)

\* A file appears in the watched directory: signalEvent.  When the limit is reached
\* the pending events give way to one Overflow, which stands for later ones as well.
FileAppears(f) ==
    /\ thread = "watching" /\ valid
    /\ ~Contains(created, f)
    /\ created' = Append(created, f)
    /\ IF events # << >> /\ Last(events) = Overflow
       THEN UNCHANGED keyVars
       ELSE /\ events' = IF Len(events) >= EventLimit THEN <<Overflow>> ELSE Append(events, f)
            /\ Signal
            /\ UNCHANGED valid
    /\ UNCHANGED <<conf, saves, thread, directory, exists, loopVars>>

\* A directory is deleted.  If it is the watched one the key becomes invalid, and is
\* signalled.
DirectoryDeleted(d) ==
    /\ d \in exists
    /\ exists' = exists \ {d}
    /\ IF thread = "watching" /\ d = directory
       THEN valid' = FALSE /\ Signal /\ UNCHANGED events
       ELSE UNCHANGED keyVars
    /\ UNCHANGED <<conf, saves, thread, directory, loopVars, created>>

\* A deleted directory is made again, which is another one to inotify.
DirectoryCreated(d) ==
    /\ d \notin exists
    /\ exists' = exists \cup {d}
    /\ UNCHANGED <<conf, saves, thread, directory, keyVars, loopVars, created>>

-----------------------------------------------------------------------------
(* The watcher's loop.                                                     *)

\* watchService.take().
Take ==
    /\ thread = "watching" /\ pc = "take"
    /\ queued
    /\ queued' = FALSE
    /\ pc' = "poll"
    /\ UNCHANGED <<conf, saves, thread, directory, exists, signalled, valid, events, batch,
                   published, created>>

\* changeKey.pollEvents().
PollEvents ==
    /\ thread = "watching" /\ pc = "poll"
    /\ batch' = events
    /\ events' = << >>
    /\ pc' = "publish"
    /\ UNCHANGED <<conf, saves, thread, directory, exists, signalled, queued, valid,
                   published, created>>

\* The listeners have run, in this thread, for event e; left are still to come.
PublishEvent(e, left) ==
    /\ thread = "watching" /\ pc = "publish"
    /\ published' = Append(published, e)
    /\ batch' = left
    /\ UNCHANGED <<conf, saves, thread, directory, exists, keyVars, pc, created>>

\* Faulty Publish: the newest event is announced first.
PublishNewest == batch # << >> /\ PublishEvent(Last(batch), Front(batch))

\* publisher.publishEvent of the next event.
Publish == batch # << >> /\ PublishEvent(Head(batch), Tail(batch))

\* Faulty PublishThrows: the exception is caught in the loop, and the key is not reset.
PublishThrowsSkipsReset ==
    /\ thread = "watching" /\ pc = "publish"
    /\ batch # << >>
    /\ batch' = << >>
    /\ pc' = "take"
    /\ UNCHANGED <<conf, saves, thread, directory, exists, keyVars, published, created>>

\* A listener throws: nothing in the loop catches it, and the thread ends.
PublishThrows ==
    /\ thread = "watching" /\ pc = "publish"
    /\ batch # << >>
    /\ thread' = "dead"
    /\ UNCHANGED <<conf, saves, directory, exists, keyVars, loopVars, created>>

\* The batch is published: the key becomes as given, and the loop goes on or ends.
BatchDone(isSignalled, isQueued, goesOn) ==
    /\ thread = "watching" /\ pc = "publish"
    /\ batch = << >>
    /\ signalled' = isSignalled /\ queued' = isQueued
    /\ thread' = IF goesOn THEN thread ELSE "dead"
    /\ pc' = IF goesOn THEN "take" ELSE pc
    /\ UNCHANGED <<conf, saves, directory, exists, valid, events, batch, published, created>>

\* Faulty Reset: the key is not reset; the result of reset() is not looked at.
ResetForgotten == BatchDone(signalled, queued, valid)
ResetUnchecked ==
    BatchDone(IF valid THEN events # << >> ELSE signalled,
              IF valid THEN events # << >> ELSE queued, TRUE)

\* changeKey.reset(): the key is queued again if events came meanwhile.  An invalid
\* key is left as it is and ends the loop, and with it the thread.
Reset ==
    BatchDone(IF valid THEN events # << >> ELSE signalled,
              IF valid THEN events # << >> ELSE queued, valid)

Loop == Take \/ PollEvents \/ Publish \/ PublishThrows \/ Reset

\* A user saves another directory: NConfiguration assigns conf, and tells nobody.
SaveConfiguration(d) ==
    /\ thread # "new"
    /\ saves < MaxSaves
    /\ saves' = saves + 1
    /\ conf' = d
    /\ UNCHANGED <<thread, directory, exists, keyVars, loopVars, created>>

Next ==
    \/ StartService \/ Run \/ Register \/ RegisterFails
    \/ Loop
    \/ \E f \in Files : FileAppears(f)
    \/ \E d \in Dirs : DirectoryDeleted(d) \/ DirectoryCreated(d) \/ SaveConfiguration(d)

Spec == Init /\ [][Next]_vars

\* The watcher is a thread of its own, which the scheduler runs.
FairSpec == Spec /\ WF_vars(Loop)

-----------------------------------------------------------------------------
(* Properties.                                                             *)

Announced(f) == Contains(published, f)

\* The watcher sleeps on a key that is not signalled only when every file that has
\* appeared is announced, or the announcements say that events were dropped: no file
\* slips between pollEvents and reset.
NothingDroppedSilently ==
    thread = "watching" /\ pc = "take" /\ ~queued
        => \A f \in Files : Contains(created, f) => Announced(f) \/ Announced(Overflow)

\* Files are announced in the order they appeared and each once, also across batches,
\* overflows and the end of the watcher.
AnnouncedInOrder ==
    \A i, j \in DOMAIN published :
        i < j /\ published[i] # Overflow /\ published[j] # Overflow
            => \E m, n \in DOMAIN created :
                m < n /\ created[m] = published[i] /\ created[n] = published[j]

\* Every file that appears is announced in the end, as itself or as an overflow, if
\* the watcher lives; it ends when a listener throws or the directory is deleted.
FilesAreAnnounced ==
    \A f \in Files :
        Contains(created, f) ~> (Announced(f) \/ Announced(Overflow) \/ thread = "dead")

\* A watcher whose directory is deleted comes to its end, however busy it is: it does
\* not go on waiting on an invalid key.
DeletionEndsWatch == ~valid ~> thread = "dead"

=============================================================================
