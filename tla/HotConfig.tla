------------------------------- MODULE HotConfig -------------------------------
(***************************************************************************)
(* The hot configuration of hot_config.rs: a snapshot with a version, set  *)
(* by callers and reloaded by a watcher that polls the modification time   *)
(* of a file, and a watch channel that tells subscribers of each change.   *)
(* set() bumps the version under one write lock; the watcher reads it      *)
(* under a read lock and writes the successor under a later write lock;    *)
(* both announce the version after their lock is released.                 *)
(*                                                                         *)
(* Of the values of a snapshot remain the file they were loaded from and   *)
(* the keys set since, one key to each caller.                             *)
(***************************************************************************)
EXTENDS FiniteSets, Integers

CONSTANTS
    Files,          \* what the file may say
    Valid,          \* the files that parse
    Nothing,        \* no file; no values; no modification time
    Times,          \* modification times
    Setters,        \* tasks that call set
    Subscribers,    \* holders of a receiver
    MaxEdits,       \* bound: edits of the file
    MaxSets         \* bound: calls of set

ASSUME ConfigAssumption ==
    /\ Valid \subseteq Files
    /\ Nothing \notin Files /\ Nothing \notin Times
    /\ MaxEdits \in Nat /\ MaxSets \in Nat

VARIABLES
    file, mtime,        \* the file on disk
    edits, sets,        \* how often it was edited, and set was called
    loaded, keys,       \* the values of the snapshot
    version,            \* and its version
    setter, mine,       \* where a caller is in set, and the version it announces
    watcher,            \* where the watcher is in its loop
    lastMtime, fetched, next,  \* last_mtime, new_snap, new_version
    announced,          \* the watch channel: the last version sent
    marked,             \* subscribers that have not seen the last one
    subscriber, view,   \* where a subscriber is, and what it has read
    overtaken,          \* history: calls of set since the watcher read the version
    missed              \* history: nothing will tell the watcher of the file

fileVars == <<file, mtime, edits>>
snapshotVars == <<loaded, keys, version>>
setterVars == <<setter, mine, sets>>
watcherVars == <<watcher, lastMtime, fetched, next>>
channelVars == <<announced, marked>>
subscriberVars == <<subscriber, view>>
configVars == <<fileVars, snapshotVars, setterVars, watcherVars, channelVars,
                subscriberVars, overtaken, missed>>

Versions == 0..(MaxSets + 2 * MaxEdits + 2)
Values == [loaded : Valid \cup {Nothing}, keys : SUBSET Setters]

ConfigTypeOK ==
    /\ file \in Files \cup {Nothing} /\ mtime \in Times \cup {Nothing}
    /\ edits \in 0..MaxEdits /\ sets \in 0..MaxSets
    /\ loaded \in Valid \cup {Nothing} /\ keys \subseteq Setters
    /\ version \in Versions
    /\ setter \in [Setters -> {"ready", "announcing"}]
    /\ mine \in [Setters -> Versions]
    /\ watcher \in {"none", "asleep", "loading", "reading", "writing", "announcing"}
    /\ lastMtime \in Times \cup {Nothing}
    /\ fetched \in Valid \cup {Nothing} /\ next \in Versions
    /\ announced \in Versions /\ marked \subseteq Subscribers
    /\ subscriber \in [Subscribers -> {"waiting", "reading"}]
    /\ view \in [Subscribers -> Values]
    /\ overtaken \in 0..MaxSets /\ missed \in BOOLEAN

\* load_toml(): the file is there and parses.
Parses(f) == f \in Valid

\* The values that get() reads.
Snapshot == [loaded |-> loaded, keys |-> keys]

\* new() loads the file, from_defaults() has none; a watcher is started, and
\* the one of from_defaults() ends at once.
ConfigInit ==
    /\ file \in Files \cup {Nothing}
    /\ mtime \in Times \cup {Nothing} /\ (mtime = Nothing <=> file = Nothing)
    /\ \/ /\ watcher = "asleep"
          /\ loaded = IF Parses(file) THEN file ELSE Nothing
       \/ /\ watcher = "none" /\ loaded = Nothing
    /\ edits = 0 /\ sets = 0
    /\ keys = {} /\ version = 0
    /\ setter = [s \in Setters |-> "ready"] /\ mine = [s \in Setters |-> 0]
    /\ lastMtime = Nothing /\ fetched = Nothing /\ next = 0
    /\ announced = 0 /\ marked = {}
    /\ subscriber = [u \in Subscribers |-> "waiting"]
    /\ view = [u \in Subscribers |-> Snapshot]
    /\ overtaken = 0 /\ missed = FALSE

-----------------------------------------------------------------------------
\* mutant: a version is used again
SameVersion(n) == n

Bumped(n) == n + 1

\* tx.send: every receiver is marked, also by a version it has seen before.
Announce(v) ==
    /\ announced' = v
    /\ marked' = Subscribers

\* set(): the key and the version change under the lock.
Set(s) ==
    /\ setter[s] = "ready" /\ sets < MaxSets
    /\ sets' = sets + 1
    /\ keys' = keys \cup {s}
    /\ version' = Bumped(version)
    /\ mine' = [mine EXCEPT ![s] = version']
    /\ setter' = [setter EXCEPT ![s] = "announcing"]
    /\ overtaken' = IF watcher = "writing" THEN overtaken + 1 ELSE overtaken
    /\ UNCHANGED <<fileVars, loaded, watcherVars, channelVars, subscriberVars, missed>>

\* set(): the announcement, after the lock.
AnnounceSet(s) ==
    /\ setter[s] = "announcing"
    /\ Announce(mine[s])
    /\ setter' = [setter EXCEPT ![s] = "ready"]
    /\ mine' = [mine EXCEPT ![s] = 0]
    /\ UNCHANGED <<fileVars, snapshotVars, sets, watcherVars, subscriberVars,
                   overtaken, missed>>

-----------------------------------------------------------------------------
\* mutant: only a later modification time counts as a change
ChangedLater ==
    mtime # Nothing /\ (lastMtime # Nothing => mtime > lastMtime)

\* changed: the first modification time, and any other one than the last.
Changed == mtime # Nothing /\ mtime # lastMtime

\* After its sleep the watcher looks at the modification time.  It remembers it
\* before the file is loaded.
Poll ==
    /\ watcher = "asleep" /\ Changed
    /\ lastMtime' = mtime
    /\ watcher' = "loading"
    /\ UNCHANGED <<fileVars, snapshotVars, setterVars, fetched, next, channelVars,
                   subscriberVars, overtaken, missed>>

\* load_toml: Ok.
Load ==
    /\ watcher = "loading" /\ Parses(file)
    /\ fetched' = file
    /\ watcher' = "reading"
    /\ UNCHANGED <<fileVars, snapshotVars, setterVars, lastMtime, next, channelVars,
                   subscriberVars, overtaken, missed>>

\* load_toml: Err.  The file does not parse, or cannot be read just now; it is
\* not loaded again before its modification time changes.
LoadFails ==
    /\ watcher = "loading"
    /\ watcher' = "asleep"
    /\ missed' = (missed \/ mtime = lastMtime)
    /\ UNCHANGED <<fileVars, snapshotVars, setterVars, lastMtime, fetched, next,
                   channelVars, subscriberVars, overtaken>>

\* The version of the new snapshot, under the read lock.
ReadVersion ==
    /\ watcher = "reading"
    /\ next' = Bumped(version)
    /\ watcher' = "writing"
    /\ UNCHANGED <<fileVars, snapshotVars, setterVars, lastMtime, fetched,
                   channelVars, subscriberVars, overtaken, missed>>

\* The new snapshot, under the write lock.
WriteSnapshot ==
    /\ watcher = "writing"
    /\ loaded' = fetched /\ keys' = {}
    /\ version' = next
    /\ watcher' = "announcing"
    /\ UNCHANGED <<fileVars, setterVars, lastMtime, fetched, next, channelVars,
                   subscriberVars, overtaken, missed>>

\* The announcement of a reload.
EndReload ==
    /\ watcher = "announcing"
    /\ Announce(next)
    /\ watcher' = "asleep"
    /\ fetched' = Nothing /\ next' = 0 /\ overtaken' = 0
    /\ UNCHANGED <<fileVars, snapshotVars, setterVars, lastMtime,
                   subscriberVars, missed>>

-----------------------------------------------------------------------------
\* changed().await and borrow_and_update(), then get().
Notified(u) ==
    /\ subscriber[u] = "waiting" /\ u \in marked
    /\ marked' = marked \ {u}
    /\ subscriber' = [subscriber EXCEPT ![u] = "reading"]
    /\ UNCHANGED <<fileVars, snapshotVars, setterVars, watcherVars, announced, view,
                   overtaken, missed>>

ReadValues(u) ==
    /\ subscriber[u] = "reading"
    /\ view' = [view EXCEPT ![u] = Snapshot]
    /\ subscriber' = [subscriber EXCEPT ![u] = "waiting"]
    /\ UNCHANGED <<fileVars, snapshotVars, setterVars, watcherVars, channelVars,
                   overtaken, missed>>

\* Somebody edits the file.  An edit within the resolution of the clock, or one
\* that restores the time, may leave the modification time as the watcher
\* knows it.
Edit(f, t) ==
    /\ edits < MaxEdits
    /\ edits' = edits + 1
    /\ file' = f /\ mtime' = t
    /\ missed' = (t = lastMtime)
    /\ UNCHANGED <<snapshotVars, setterVars, watcherVars, channelVars,
                   subscriberVars, overtaken>>

Remove ==
    /\ edits < MaxEdits /\ file # Nothing
    /\ edits' = edits + 1
    /\ file' = Nothing /\ mtime' = Nothing
    /\ UNCHANGED <<snapshotVars, setterVars, watcherVars, channelVars,
                   subscriberVars, overtaken, missed>>

-----------------------------------------------------------------------------
WatcherStep == Poll \/ Load \/ LoadFails \/ ReadVersion \/ WriteSnapshot \/ EndReload

SubscriberStep(u) == Notified(u) \/ ReadValues(u)

ConfigNext ==
    \/ \E s \in Setters : Set(s) \/ AnnounceSet(s)
    \/ WatcherStep
    \/ \E u \in Subscribers : SubscriberStep(u)
    \/ \E f \in Files, t \in Times : Edit(f, t)
    \/ Remove

ConfigSpec == ConfigInit /\ [][ConfigNext]_configVars

-----------------------------------------------------------------------------
\* Each change of the snapshot has the version after the one before, but a
\* reload that calls of set() have overtaken between its two locks: it falls
\* behind by as many, and may repeat or lower the version.
VersionAccounts ==
    [][Snapshot' # Snapshot =>
         version' = version + 1 - (IF watcher' = "announcing" /\ watcher = "writing"
                                   THEN overtaken ELSE 0)]_configVars

\* What the file says is loaded in the end, unless it is edited again, it does
\* not parse, or the watcher has nothing left to notice it by: its first load
\* failed, or the edit kept the modification time.
FileLoaded ==
    \A f \in Valid :
        file = f /\ watcher # "none" ~> loaded = f \/ file # f \/ missed

\* A subscriber that re-reads the snapshot whenever it is notified holds the
\* latest values in the end, although announcements are sent outside the lock
\* and may arrive in another order than the changes.
SubscribersCatchUp ==
    \A u \in Subscribers : <>[](view[u] = Snapshot)

\* A change reaches everyone: from the file to the snapshot, and from there to
\* the subscribers.
ChangesArrive == FileLoaded /\ SubscribersCatchUp
=============================================================================
