-------------------------------- MODULE Conf --------------------------------
(***************************************************************************)
(* Hot reload of configuration files (conf/conf.go, api.go, storage.go):   *)
(* the monitor goroutine that reloads a written file into Storage and      *)
(* notifies the channels made by WatchEvent, and the two kinds of readers: *)
(* those that call Get again on an event (mysql, redis) and those that     *)
(* take the value in it (conf.Watch).                                      *)
(*                                                                         *)
(* The text of a file is abstracted to the number of its version; 0 stands *)
(* for a file that is not there.  File names are taken to differ by more   *)
(* than their case, so that the lower-cased keys of Storage are the files. *)
(***************************************************************************)
EXTENDS Integers, Sequences

CONSTANTS
  Files,
  Hidden,      \* files whose events reloadFile filters (".name", "name~")
  Consumers,   \* calls of WatchEvent
  FileOf,      \* FileOf[c]: the key c watches
  ByValue,     \* the consumers that are conf.Watch
  Stoppers,    \* calls of Stop
  ChCap,       \* defChSize
  MaxVersion,  \* bound: versions of a file
  MaxQueue,    \* bound: fsnotify events not yet read
  MaxFaults    \* bound: failures of fsnotify, events it lost, failed reads of
               \* a file that is there

ASSUME ConfAssumption ==
  /\ Hidden \subseteq Files
  /\ FileOf \in [Consumers -> Files]
  /\ ByValue \subseteq Consumers
  /\ ChCap \in Nat \ {0}
  /\ MaxVersion \in Nat /\ MaxQueue \in Nat /\ MaxFaults \in Nat

VARIABLES
  disk,      \* the version of every file on disk
  version,   \* the latest version written so far
  reported,  \* history: files whose last change is a Write the watch reported,
             \* and that no failed read has given up
  queue,     \* watcher.Events
  content,   \* Storage.values: the published version of every file
  mpc,       \* where the monitor goroutine is
  name,      \* the file it reloads
  val,       \* what it read
  todo,      \* the channels it has still to notify
  watchChs,  \* the consumers whose channel is registered
  ch,        \* their channels: versions in EventUpdate events
  cpc,       \* where a consumer is
  view,      \* the version a consumer applied last
  told,      \* history: the consumers for whom a version was published, or an
             \* event arrived, since they registered
  spc,       \* where a call of Stop is
  faults

filesys  == <<disk, version, reported, queue>>
monitor  == <<mpc, name, val, todo>>
consumer == <<watchChs, ch, cpc, view, told>>
vars     == <<filesys, content, monitor, consumer, spc, faults>>

TypeOK ==
  /\ disk \in [Files -> Nat]
  /\ version \in Nat
  /\ reported \in SUBSET Files
  /\ queue \in Seq([file : Files, write : BOOLEAN])
  /\ content \in [Files -> Nat]
  /\ mpc \in {"start", "select", "sleep", "store", "lock", "send", "exit"}
  /\ name \in Files
  /\ val \in Nat
  /\ todo \in SUBSET Consumers
  /\ watchChs \in SUBSET Consumers
  /\ ch \in [Consumers -> Seq(Nat)]
  /\ cpc \in [Consumers -> {"new", "got", "wait", "woken"}]
  /\ view \in [Consumers -> Nat]
  /\ told \in SUBSET Consumers
  /\ spc \in [Stoppers -> {"idle", "sending", "waiting", "returned"}]
  /\ faults \in Nat

(* newConf has read every file; its monitor goroutine is not running yet.  *)
Init ==
  /\ disk = [f \in Files |-> 1]
  /\ version = 1
  /\ reported = {}
  /\ queue = <<>>
  /\ content = [f \in Files |-> 1]
  /\ mpc = "start"
  /\ name \in Files
  /\ val = 0
  /\ todo = {}
  /\ watchChs = {}
  /\ ch = [c \in Consumers |-> <<>>]
  /\ cpc = [c \in Consumers |-> "new"]
  /\ view = [c \in Consumers |-> 0]
  /\ told = {}
  /\ spc = [s \in Stoppers |-> "idle"]
  /\ faults = 0

Fault == faults < MaxFaults /\ faults' = faults + 1

-----------------------------------------------------------------------------
(* The directory and fsnotify.                                             *)

(* filterHideFile and filterBackupFile.                                    *)
Filtered(f) == f \in Hidden

Watched == mpc \notin {"start", "exit"}

(* fsnotify reports a change only while the directory is being watched.    *)
Report(f, write) ==
  /\ IF Watched
       THEN Len(queue) < MaxQueue /\ queue' = Append(queue, [file |-> f, write |-> write])
       ELSE UNCHANGED queue
  /\ reported' = IF Watched /\ write /\ ~Filtered(f) THEN reported \cup {f}
                                                        ELSE reported \ {f}
  /\ UNCHANGED faults

(* The system's queue of events runs over: what it lost is an error on     *)
(* watcher.Errors, which the monitor only logs.                            *)
Overflow(f) ==
  /\ Watched
  /\ Fault
  /\ reported' = reported \ {f}
  /\ UNCHANGED queue

(* An editor writes the file in place.                                     *)
Write(f) ==
  /\ version < MaxVersion
  /\ version' = version + 1
  /\ disk' = [disk EXCEPT ![f] = version + 1]
  /\ Report(f, TRUE) \/ Overflow(f)
  /\ UNCHANGED <<content, monitor, consumer, spc>>

(* A finished copy is renamed over the file: a Create event.               *)
Replace(f) ==
  /\ version < MaxVersion
  /\ version' = version + 1
  /\ disk' = [disk EXCEPT ![f] = version + 1]
  /\ Report(f, FALSE) \/ Overflow(f)
  /\ UNCHANGED <<content, monitor, consumer, spc>>

(* The file is removed or renamed away.                                    *)
Remove(f) ==
  /\ disk[f] # 0
  /\ disk' = [disk EXCEPT ![f] = 0]
  /\ Report(f, FALSE) \/ Overflow(f)
  /\ UNCHANGED <<version, content, monitor, consumer, spc>>

-----------------------------------------------------------------------------
(* The monitor goroutine.                                                  *)

(* NewWatcher and Add: changes made since newConf read the directory are   *)
(* not reported.                                                           *)
StartMonitor ==
  /\ mpc = "start"
  /\ mpc' = "select"
  /\ UNCHANGED <<filesys, content, name, val, todo, consumer, spc, faults>>

StartFails ==
  /\ mpc = "start"
  /\ Fault
  /\ mpc' = "exit"
  /\ UNCHANGED <<filesys, content, name, val, todo, consumer, spc>>

(* Mutant of Reload: it works on the event, not on its Name.               *)
ReloadEvent ==
  /\ mpc = "select"
  /\ queue # <<>>
  /\ Head(queue).write /\ ~Filtered(Head(queue).file)
  /\ name' = Head(queue)
  /\ queue' = Tail(queue)
  /\ mpc' = "sleep"
  /\ UNCHANGED <<disk, version, reported, content, val, todo, consumer, spc, faults>>

(* A Write event of a file that is not filtered: reloadFile, which sleeps. *)
Reload ==
  /\ mpc = "select"
  /\ queue # <<>>
  /\ Head(queue).write /\ ~Filtered(Head(queue).file)
  /\ name' = Head(queue).file
  /\ queue' = Tail(queue)
  /\ mpc' = "sleep"
  /\ UNCHANGED <<disk, version, reported, content, val, todo, consumer, spc, faults>>

(* Mutant of Ignore: an event may be dropped, whatever it says.            *)
IgnoreAny ==
  /\ mpc = "select"
  /\ queue # <<>>
  /\ queue' = Tail(queue)
  /\ UNCHANGED <<disk, version, reported, content, monitor, consumer, spc, faults>>

(* Any other event is dropped.                                             *)
Ignore ==
  /\ mpc = "select"
  /\ queue # <<>>
  /\ ~Head(queue).write \/ Filtered(Head(queue).file)
  /\ queue' = Tail(queue)
  /\ UNCHANGED <<disk, version, reported, content, monitor, consumer, spc, faults>>

(* Mutant of ReadFile: the event goes out before content.Store.            *)
ReadAndNotify ==
  /\ mpc = "sleep"
  /\ disk[name] # 0
  /\ val' = disk[name]
  /\ mpc' = "lock"
  /\ UNCHANGED <<filesys, content, name, todo, consumer, spc, faults>>

ReadFile ==
  /\ mpc = "sleep"
  /\ disk[name] # 0
  /\ val' = disk[name]
  /\ mpc' = "store"
  /\ UNCHANGED <<filesys, content, name, todo, consumer, spc, faults>>

(* Mutant of ReadFails: without its return, the empty text is stored.      *)
ReadNothing ==
  /\ mpc = "sleep"
  /\ disk[name] = 0
  /\ val' = 0
  /\ mpc' = "store"
  /\ UNCHANGED <<filesys, content, name, todo, consumer, spc, faults>>

(* A Write of f waits in the queue.                                        *)
Queued(f) == \E i \in 1..Len(queue) : queue[i].file = f /\ queue[i].write

(* The file is gone, or it is there and reading it fails: reloadFile       *)
(* returns, the old content stays, and nothing tries again before the next *)
(* Write of the file.                                                      *)
ReadFails ==
  /\ mpc = "sleep"
  /\ \/ disk[name] = 0 /\ UNCHANGED faults
     \/ disk[name] # 0 /\ Fault
  /\ mpc' = "select"
  /\ reported' = IF Queued(name) THEN reported ELSE reported \ {name}
  /\ UNCHANGED <<disk, version, queue, content, name, val, todo, consumer, spc>>

(* Mutant of StoreContent: events that came meanwhile are taken as done.   *)
StoreAndDrain ==
  /\ mpc = "store"
  /\ content' = [content EXCEPT ![name] = val]
  /\ told' = told \cup {c \in watchChs : FileOf[c] = name}
  /\ queue' = <<>>
  /\ mpc' = "lock"
  /\ UNCHANGED <<disk, version, reported, name, val, todo, watchChs, ch, cpc, view,
                 spc, faults>>

(* content.Store(c.raw): readers see the new version from here on.         *)
StoreContent ==
  /\ mpc = "store"
  /\ content' = [content EXCEPT ![name] = val]
  /\ told' = told \cup {c \in watchChs : FileOf[c] = name}
  /\ mpc' = "lock"
  /\ UNCHANGED <<filesys, name, val, todo, watchChs, ch, cpc, view, spc, faults>>

(* The channels of this moment, copied under the lock.                     *)
TakeChannels ==
  /\ mpc = "lock"
  /\ todo' = {c \in watchChs : FileOf[c] = name}
  /\ mpc' = "send"
  /\ UNCHANGED <<filesys, content, name, val, consumer, spc, faults>>

(* Mutant of Send: the channel is one event shorter.                       *)
SendShort(c) ==
  /\ mpc = "send"
  /\ c \in todo
  /\ ch' = IF Len(ch[c]) < ChCap - 1 THEN [ch EXCEPT ![c] = Append(@, val)] ELSE ch
  /\ todo' = todo \ {c}
  /\ UNCHANGED <<filesys, content, mpc, name, val, watchChs, cpc, view, told,
                 spc, faults>>

(* An event to one channel; the newest event is the one that is discarded  *)
(* when the channel is full.                                               *)
Send(c) ==
  /\ mpc = "send"
  /\ c \in todo
  /\ ch' = IF Len(ch[c]) < ChCap THEN [ch EXCEPT ![c] = Append(@, val)] ELSE ch
  /\ todo' = todo \ {c}
  /\ UNCHANGED <<filesys, content, mpc, name, val, watchChs, cpc, view, told,
                 spc, faults>>

ReloadDone ==
  /\ mpc = "send"
  /\ todo = {}
  /\ mpc' = "select"
  /\ UNCHANGED <<filesys, content, name, val, todo, consumer, spc, faults>>

-----------------------------------------------------------------------------
(* Stop.                                                                   *)

CallStop(s) ==
  /\ spc[s] = "idle"
  /\ spc' = [spc EXCEPT ![s] = "sending"]
  /\ UNCHANGED <<filesys, content, monitor, consumer, faults>>

(* Mutant of TakeDone: break in place of return only leaves the select.    *)
BreakOnDone(s) ==
  /\ mpc = "select"
  /\ spc[s] = "sending"
  /\ spc' = [spc EXCEPT ![s] = "waiting"]
  /\ UNCHANGED <<filesys, content, monitor, consumer, faults>>

(* The unbuffered channel done: the sender meets the monitor's select,     *)
(* which closes the watcher and returns.                                   *)
TakeDone(s) ==
  /\ mpc = "select"
  /\ spc[s] = "sending"
  /\ mpc' = "exit"
  /\ spc' = [spc EXCEPT ![s] = "waiting"]
  /\ queue' = <<>>
  /\ UNCHANGED <<disk, version, reported, content, name, val, todo, consumer, faults>>

(* wg.Wait *)
StopReturns(s) ==
  /\ spc[s] = "waiting"
  /\ mpc = "exit"
  /\ spc' = [spc EXCEPT ![s] = "returned"]
  /\ UNCHANGED <<filesys, content, monitor, consumer, faults>>

-----------------------------------------------------------------------------
(* The readers: Get, apply, then WatchEvent and a goroutine that ranges    *)
(* over its channel.                                                       *)

FirstGet(c) ==
  /\ cpc[c] = "new"
  /\ view' = [view EXCEPT ![c] = content[FileOf[c]]]
  /\ cpc' = [cpc EXCEPT ![c] = "got"]
  /\ UNCHANGED <<filesys, content, monitor, watchChs, ch, told, spc, faults>>

(* The channel is registered, and nothing says what was published since    *)
(* the Get.                                                                *)
WatchEvent(c) ==
  /\ cpc[c] = "got"
  /\ watchChs' = watchChs \cup {c}
  /\ cpc' = [cpc EXCEPT ![c] = "wait"]
  /\ UNCHANGED <<filesys, content, monitor, ch, view, told, spc, faults>>

(* conf.Watch: the setter gets the value of the event.                     *)
SetValue(c) ==
  /\ c \in ByValue
  /\ cpc[c] = "wait"
  /\ ch[c] # <<>>
  /\ view' = [view EXCEPT ![c] = Head(ch[c])]
  /\ ch' = [ch EXCEPT ![c] = Tail(@)]
  /\ UNCHANGED <<filesys, content, monitor, watchChs, cpc, told, spc, faults>>

(* mysql, redis: an event only says that there is something to Get.        *)
Receive(c) ==
  /\ c \notin ByValue
  /\ cpc[c] = "wait"
  /\ ch[c] # <<>>
  /\ ch' = [ch EXCEPT ![c] = Tail(@)]
  /\ cpc' = [cpc EXCEPT ![c] = "woken"]
  /\ UNCHANGED <<filesys, content, monitor, watchChs, view, told, spc, faults>>

(* Mutant of GetAgain: the reader stays with what it got first.            *)
GetCached(c) ==
  /\ cpc[c] = "woken"
  /\ cpc' = [cpc EXCEPT ![c] = "wait"]
  /\ UNCHANGED <<filesys, content, monitor, watchChs, ch, view, told, spc, faults>>

GetAgain(c) ==
  /\ cpc[c] = "woken"
  /\ view' = [view EXCEPT ![c] = content[FileOf[c]]]
  /\ told' = told \cup {c}
  /\ cpc' = [cpc EXCEPT ![c] = "wait"]
  /\ UNCHANGED <<filesys, content, monitor, watchChs, ch, spc, faults>>

-----------------------------------------------------------------------------
FileChange == \E f \in Files : Write(f) \/ Replace(f) \/ Remove(f)

MonitorStep ==
  \/ StartMonitor \/ StartFails \/ Reload \/ Ignore \/ ReadFile \/ ReadFails
  \/ StoreContent \/ TakeChannels \/ (\E c \in Consumers : Send(c)) \/ ReloadDone
  \/ \E s \in Stoppers : TakeDone(s)

ConsumerStep(c) ==
  FirstGet(c) \/ WatchEvent(c) \/ SetValue(c) \/ Receive(c) \/ GetAgain(c)

Next ==
  \/ FileChange
  \/ MonitorStep
  \/ \E c \in Consumers : ConsumerStep(c)
  \/ \E s \in Stoppers : CallStop(s) \/ StopReturns(s)

Spec == Init /\ [][Next]_vars

(* The monitor and the readers run; fsnotify owes no fault.  When an event *)
(* and a Stop are both ready, select takes one at random: a Stop is not    *)
(* passed over for ever.                                                   *)
Fairness ==
  /\ WF_vars(MonitorStep /\ faults' = faults)
  /\ SF_vars(\E s \in Stoppers : TakeDone(s))
  /\ \A c \in Consumers : WF_vars(ConsumerStep(c))
  /\ \A s \in Stoppers : WF_vars(StopReturns(s))

FairSpec == Spec /\ Fairness

-----------------------------------------------------------------------------
(* Properties. *)

(* The monitor has a Write of f still to read from disk.                   *)
ToRead(f) ==
  \/ Queued(f)
  \/ mpc = "sleep" /\ name = f

(* What the monitor read of f is on its way into Storage.                  *)
ToStore(f) == mpc = "store" /\ name = f /\ val = disk[f]

(* No reported write is lost between the disk and Storage, however writes, *)
(* lost events, failed reads and reloads overlap: unless the last read     *)
(* asked for failed or the monitor stopped, Storage has the version on     *)
(* disk, or a read of it is still to come.                                 *)
NoLostWrite ==
  \A f \in reported :
    mpc # "exit" => content[f] = disk[f] \/ ToRead(f) \/ ToStore(f)

(* An event in a channel never runs ahead of Storage: who receives it and  *)
(* calls Get finds that version or a newer one.                            *)
ContentBeforeEvent ==
  \A c \in Consumers : \A i \in 1..Len(ch[c]) : ch[c][i] <= content[FileOf[c]]

(* Nobody goes back: the versions published for a file only grow, and so   *)
(* do those a reader applies, be it by Get or out of an event that waited  *)
(* in its channel.                                                         *)
VersionsNeverGoBack ==
  [][/\ \A f \in Files : content'[f] >= content[f]
     /\ \A c \in Consumers : view'[c] >= view[c]]_vars

AboutToSend(c) ==
  FileOf[c] = name /\ (mpc = "lock" \/ (mpc = "send" /\ c \in todo))

(* The registered readers of f that call Get again, and those of them with *)
(* an event on its way.                                                    *)
ReadersOf(f) == {c \in Consumers \ ByValue : FileOf[c] = f}
Joined(f)  == watchChs \cap ReadersOf(f)
Pending(f) == {c \in Joined(f) : ch[c] # <<>> \/ cpc[c] = "woken" \/ AboutToSend(c)}

(* For a reader that calls Get again, a discarded event loses nothing: the *)
(* channel was not empty.  Once anything was published since it            *)
(* registered, a reader with no event on its way has applied what Storage  *)
(* has; before that it may be behind, by what was published between its    *)
(* first Get and WatchEvent.                                               *)
NoLostUpdate ==
  \A f \in Files : \A c \in (Joined(f) \cap told) \ Pending(f) : view[c] = content[f]

(* Each file is a NotifyCell for the readers that call Get again.          *)
Cell(f) == INSTANCE NotifyCell WITH
  Readers <- ReadersOf(f),
  Values  <- Nat,
  cell    <- content[f],
  joined  <- Joined(f),
  pending <- Pending(f),
  told    <- told \cap Joined(f),
  known   <- [c \in ReadersOf(f) |-> view[c]]

(* Conf implements NotifyCell, for every file.                             *)
ImplementsCell ==
  /\ \A f \in Files : Cell(f)!Init
  /\ [][\A f \in Files : Cell(f)!Next \/ UNCHANGED Cell(f)!vars]_vars

(* A written file that nobody touches any more is loaded, unless its event *)
(* was lost, the read of it failed or the monitor is stopped.              *)
ReportedWriteLoads ==
  \A f \in Files :
    <>[](f \in reported /\ mpc # "exit") => <>[](content[f] = disk[f])

(* A Stop meets a monitor that runs, even one that is kept busy by writes. *)
SomeStopReturns ==
  \A s \in Stoppers :
    spc[s] = "sending" /\ Watched ~> \E q \in Stoppers : spc[q] = "returned"

(* With the monitor at rest, c has handled all its events.                 *)
Quiet(c) == mpc = "select" /\ queue = <<>> /\ cpc[c] = "wait" /\ ch[c] = <<>>

(* WatchEvent: "receive notification of configuration change".  A setter   *)
(* of conf.Watch that handled all its events has the published value, once *)
(* a change was published after its channel was registered.                *)
SetterUpToDate ==
  \A c \in ByValue \cap told : Quiet(c) => view[c] = content[FileOf[c]]
=============================================================================
