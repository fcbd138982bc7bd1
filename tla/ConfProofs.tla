----------------------------- MODULE ConfProofs -----------------------------
(* Proofs about Conf, for any number of files, readers, versions and       *)
(* queued events, and any capacity of the channels.                        *)
EXTENDS Conf, TLAPS

Events == [file : Files, write : BOOLEAN]

(* Taking the first element of a queue leaves the rest in order.           *)
LEMMA QueueFacts ==
  ASSUME NEW S, NEW s \in Seq(S)
  PROVE  /\ \A e \in S : Append(s, e) \in Seq(S)
         /\ s # <<>> => /\ Head(s) \in S
                        /\ Tail(s) \in Seq(S)
                        /\ \A i \in 1..Len(s) : i = 1 \/ s[i] = Tail(s)[i - 1]
                        /\ Len(Tail(s)) = Len(s) - 1
                        /\ \A i \in 1..Len(Tail(s)) : Tail(s)[i] = s[i + 1]
OBVIOUS

(* A change of the directory may add one event to the queue.               *)
LEMMA ReportFacts ==
  ASSUME TypeOK, NEW f \in Files, NEW w \in BOOLEAN, Report(f, w) \/ Overflow(f)
  PROVE  /\ queue' \in Seq(Events)
         /\ reported' \in SUBSET Files
         /\ \A i \in 1..Len(queue) : i \in 1..Len(queue') /\ queue'[i] = queue[i]
         /\ f \in reported' =>
              /\ f \notin Hidden
              /\ \E i \in 1..Len(queue') : queue'[i].file = f /\ queue'[i].write
         /\ reported' \ {f} = reported \ {f}
<1> USE DEF TypeOK, Report, Filtered, Events
<1>1. CASE Report(f, w) /\ Watched
  <2> DEFINE e == [file |-> f, write |-> w]
  <2>1. e \in Events /\ queue' = Append(queue, e)
    BY <1>1
  <2>2. queue' \in Seq(Events) /\ Len(queue') = Len(queue) + 1
        /\ queue'[Len(queue) + 1] = e
        /\ \A i \in 1..Len(queue) : queue'[i] = queue[i]
    BY <2>1
  <2>3. f \in reported' => w /\ f \notin Hidden
    BY <1>1
  <2>4. ASSUME f \in reported'
        PROVE  \E i \in 1..Len(queue') : queue'[i].file = f /\ queue'[i].write
    <3>1. e.file = f /\ e.write
      BY <2>3, <2>4
    <3>2. Len(queue) + 1 \in 1..Len(queue')
      BY <2>2
    <3> QED
      BY <2>2, <3>1, <3>2
  <2>5. \A i \in 1..Len(queue) : i \in 1..Len(queue')
    BY <2>2
  <2>6. reported' \in SUBSET Files /\ reported' \ {f} = reported \ {f}
    BY <1>1
  <2> QED
    BY <2>2, <2>3, <2>4, <2>5, <2>6
<1>2. CASE Report(f, w) /\ ~Watched
  BY <1>2
<1>3. CASE Overflow(f)
  BY <1>3 DEF Overflow
<1> QED
  BY <1>1, <1>2, <1>3

(* A fault is counted.                                                     *)
LEMMA FaultFacts ==
  ASSUME TypeOK, NEW f \in Files, NEW w \in BOOLEAN,
         Report(f, w) \/ Overflow(f) \/ Fault
  PROVE  faults' \in Nat
BY DEF TypeOK, Report, Overflow, Fault

(* Every variable keeps its type.                                          *)
LEMMA TypeStep == TypeOK /\ [Next]_vars => TypeOK'
<1> SUFFICES ASSUME TypeOK, [Next]_vars
             PROVE  TypeOK'
  OBVIOUS
<1> USE ConfAssumption DEF TypeOK
<1>1. ASSUME NEW f \in Files, Write(f) PROVE TypeOK'
  <2>1. Report(f, TRUE) \/ Overflow(f)
    BY <1>1 DEF Write
  <2>2. queue' \in Seq(Events) /\ reported' \in SUBSET Files /\ faults' \in Nat
    BY <2>1, ReportFacts, FaultFacts
  <2> QED
    BY <1>1, <2>2 DEF Write, monitor, consumer, Events
<1>2. ASSUME NEW f \in Files, Replace(f) PROVE TypeOK'
  <2>1. Report(f, FALSE) \/ Overflow(f)
    BY <1>2 DEF Replace
  <2>2. queue' \in Seq(Events) /\ reported' \in SUBSET Files /\ faults' \in Nat
    BY <2>1, ReportFacts, FaultFacts
  <2> QED
    BY <1>2, <2>2 DEF Replace, monitor, consumer, Events
<1>3. ASSUME NEW f \in Files, Remove(f) PROVE TypeOK'
  BY <1>3, ReportFacts, FaultFacts DEF Remove, monitor, consumer, Events
<1>4. CASE StartMonitor
  BY <1>4 DEF StartMonitor, filesys, consumer
<1>5. CASE StartFails
  BY <1>5 DEF StartFails, Fault, filesys, consumer
<1>6. CASE Reload
  <2>1. Head(queue) \in Events /\ Tail(queue) \in Seq(Events)
    BY <1>6, QueueFacts DEF Reload, Events
  <2> QED
    BY <1>6, <2>1 DEF Reload, consumer, Events
<1>7. CASE Ignore
  BY <1>7, QueueFacts DEF Ignore, monitor, consumer
<1>8. CASE ReadFile
  BY <1>8 DEF ReadFile, filesys, consumer
<1>9. CASE ReadFails
  <2>1. faults' \in Nat /\ reported' \in SUBSET Files
    BY <1>9 DEF ReadFails, Fault
  <2> QED
    BY <1>9, <2>1 DEF ReadFails, consumer
<1>10. CASE StoreContent
  BY <1>10 DEF StoreContent, filesys, consumer
<1>11. CASE TakeChannels
  BY <1>11 DEF TakeChannels, filesys, consumer
<1>12. CASE ReloadDone
  BY <1>12 DEF ReloadDone, filesys, consumer
<1>13. ASSUME NEW c \in Consumers, Send(c) PROVE TypeOK'
  BY <1>13, SMTT(30) DEF Send, filesys
<1>14. ASSUME NEW s \in Stoppers, TakeDone(s) PROVE TypeOK'
  BY <1>14 DEF TakeDone, consumer
<1>15. ASSUME NEW s \in Stoppers, CallStop(s) PROVE TypeOK'
  BY <1>15 DEF CallStop, filesys, monitor, consumer
<1>16. ASSUME NEW s \in Stoppers, StopReturns(s) PROVE TypeOK'
  BY <1>16 DEF StopReturns, filesys, monitor, consumer
<1>17. ASSUME NEW c \in Consumers, FirstGet(c) PROVE TypeOK'
  BY <1>17 DEF FirstGet, filesys, monitor
<1>18. ASSUME NEW c \in Consumers, WatchEvent(c) PROVE TypeOK'
  BY <1>18 DEF WatchEvent, filesys, monitor
<1>19. ASSUME NEW c \in Consumers, GetAgain(c) PROVE TypeOK'
  BY <1>19 DEF GetAgain, filesys, monitor
<1>20. ASSUME NEW c \in Consumers, SetValue(c) PROVE TypeOK'
  BY <1>20, QueueFacts DEF SetValue, filesys, monitor
<1>21. ASSUME NEW c \in Consumers, Receive(c) PROVE TypeOK'
  BY <1>21, QueueFacts DEF Receive, filesys, monitor
<1>22. CASE UNCHANGED vars
  BY <1>22 DEF vars, filesys, monitor, consumer
<1> QED
  BY <1>1, <1>2, <1>3, <1>4, <1>5, <1>6, <1>7, <1>8, <1>9, <1>10, <1>11,
     <1>12, <1>13, <1>14, <1>15, <1>16, <1>17, <1>18, <1>19, <1>20, <1>21, <1>22
  DEF Next, FileChange, MonitorStep, ConsumerStep
-----------------------------------------------------------------------------
(* The inductive invariant.                                                *)

(* What is read from disk is at least as new as what Storage has, and what *)
(* is announced is in Storage already.                                     *)
Versions ==
  /\ \A f \in Files : disk[f] <= version /\ content[f] <= version
  /\ \A f \in Files : disk[f] # 0 => content[f] <= disk[f]
  /\ mpc = "store" =>
       content[name] <= val /\ val <= version /\ (disk[name] # 0 => val <= disk[name])
  /\ mpc \in {"lock", "send"} => val = content[name]
  /\ mpc = "send" => \A c \in todo : FileOf[c] = name

(* A file whose last change was a reported write is there.                 *)
ReportedThere == \A f \in reported : f \notin Hidden /\ disk[f] # 0

(* A reader waits once its channel is registered, and is told of nothing   *)
(* before.                                                                 *)
WaitingRegistered ==
  /\ \A c \in Consumers : c \in watchChs <=> cpc[c] \in {"wait", "woken"}
  /\ told \subseteq watchChs

(* Before a channel is registered nothing is sent to it.  A reader never   *)
(* has a version that Storage has not, and what waits in the channel of a  *)
(* setter is in order, and not older than what the setter has.             *)
ViewsOrdered ==
  /\ todo \subseteq watchChs
  /\ \A c \in Consumers \ watchChs : ch[c] = <<>>
  /\ \A c \in Consumers : view[c] <= content[FileOf[c]]
  /\ \A c \in ByValue :
       /\ cpc[c] # "woken"
       /\ \A i \in 1..Len(ch[c]) : view[c] <= ch[c][i]
       /\ \A i, j \in 1..Len(ch[c]) : i <= j => ch[c][i] <= ch[c][j]

(* The monitor takes done once, and ends.                                  *)
StopOnce ==
  \A s \in Stoppers : spc[s] \in {"waiting", "returned"} =>
    mpc = "exit" /\ \A q \in Stoppers : spc[q] \in {"waiting", "returned"} => q = s

IInv ==
  /\ TypeOK
  /\ Versions
  /\ ReportedThere
  /\ WaitingRegistered
  /\ NoLostWrite
  /\ ContentBeforeEvent
  /\ NoLostUpdate
  /\ ViewsOrdered
  /\ StopOnce

(* Versions only grow, on disk and on their way into Storage.              *)
LEMMA VersionsStep == TypeOK /\ Versions /\ [Next]_vars => Versions'
<1> SUFFICES ASSUME TypeOK /\ Versions, [Next]_vars
             PROVE  Versions'
  OBVIOUS
<1> USE DEF TypeOK, Versions
<1>1. ASSUME NEW f \in Files, Write(f) PROVE Versions'
  BY <1>1 DEF Write, monitor, consumer
<1>2. ASSUME NEW f \in Files, Replace(f) PROVE Versions'
  BY <1>2 DEF Replace, monitor, consumer
<1>3. ASSUME NEW f \in Files, Remove(f) PROVE Versions'
  BY <1>3 DEF Remove, monitor, consumer
<1>4. CASE StartMonitor \/ StartFails
  BY <1>4 DEF StartMonitor, StartFails, filesys, consumer
<1>5. CASE Reload
  BY <1>5 DEF Reload, consumer
<1>6. CASE Ignore
  BY <1>6 DEF Ignore, monitor, consumer
<1>7. CASE ReadFile
  BY <1>7 DEF ReadFile, filesys, consumer
<1>8. CASE ReadFails
  BY <1>8 DEF ReadFails, consumer
<1>9. CASE StoreContent
  BY <1>9 DEF StoreContent, filesys, consumer
<1>10. CASE TakeChannels
  BY <1>10 DEF TakeChannels, filesys, consumer
<1>11. CASE ReloadDone
  BY <1>11 DEF ReloadDone, filesys, consumer
<1>12. ASSUME NEW c \in Consumers, Send(c) PROVE Versions'
  BY <1>12 DEF Send, filesys
<1>13. ASSUME NEW s \in Stoppers, TakeDone(s) PROVE Versions'
  BY <1>13 DEF TakeDone, consumer
<1>14. ASSUME NEW s \in Stoppers, CallStop(s) \/ StopReturns(s) PROVE Versions'
  BY <1>14 DEF CallStop, StopReturns, filesys, monitor, consumer
<1>15. ASSUME NEW c \in Consumers,
              FirstGet(c) \/ WatchEvent(c) \/ GetAgain(c) PROVE Versions'
  BY <1>15 DEF FirstGet, WatchEvent, GetAgain, filesys, monitor
<1>16. ASSUME NEW c \in Consumers, SetValue(c) \/ Receive(c) PROVE Versions'
  BY <1>16 DEF SetValue, Receive, filesys, monitor
<1>17. CASE UNCHANGED vars
  BY <1>17 DEF vars, filesys, monitor, consumer
<1> QED
  BY <1>1, <1>2, <1>3, <1>4, <1>5, <1>6, <1>7, <1>8, <1>9, <1>10, <1>11, <1>12, <1>13,
     <1>14, <1>15, <1>16, <1>17
  DEF Next, FileChange, MonitorStep, ConsumerStep

(* Removing a file, or replacing it, takes it out of reported.             *)
LEMMA ReportedStep == TypeOK /\ ReportedThere /\ [Next]_vars => ReportedThere'
<1> SUFFICES ASSUME TypeOK /\ ReportedThere, [Next]_vars
             PROVE  ReportedThere'
  OBVIOUS
<1> USE DEF TypeOK, ReportedThere
<1>1. ASSUME NEW f \in Files, Write(f) PROVE ReportedThere'
  <2>1. Report(f, TRUE) \/ Overflow(f)
    BY <1>1 DEF Write
  <2>2. (f \in reported' => f \notin Hidden) /\ reported' \ {f} = reported \ {f}
    BY <2>1, ReportFacts
  <2>3. f \in reported' => disk'[f] # 0
    BY <1>1 DEF Write
  <2> QED
    BY <1>1, <2>2, <2>3 DEF Write
<1>2. ASSUME NEW f \in Files, Replace(f) PROVE ReportedThere'
  <2>1. Report(f, FALSE) \/ Overflow(f)
    BY <1>2 DEF Replace
  <2>2. (f \in reported' => f \notin Hidden) /\ reported' \ {f} = reported \ {f}
    BY <2>1, ReportFacts
  <2>3. f \in reported' => FALSE
    BY <1>2, <2>1 DEF Replace, Report, Overflow
  <2> QED
    BY <1>2, <2>2, <2>3 DEF Replace
<1>3. ASSUME NEW f \in Files, Remove(f) PROVE ReportedThere'
  <2>1. Report(f, FALSE) \/ Overflow(f)
    BY <1>3 DEF Remove
  <2>2. (f \in reported' => f \notin Hidden) /\ reported' \ {f} = reported \ {f}
    BY <2>1, ReportFacts
  <2>3. f \in reported' => FALSE
    BY <1>3, <2>1 DEF Remove, Report, Overflow
  <2> QED
    BY <1>3, <2>2, <2>3 DEF Remove
<1>4. CASE Reload \/ Ignore
  BY <1>4 DEF Reload, Ignore, consumer, monitor
<1>5. ASSUME NEW s \in Stoppers, TakeDone(s) PROVE ReportedThere'
  BY <1>5 DEF TakeDone, consumer
<1>6. CASE StartMonitor \/ StartFails \/ ReadFile \/ ReadFails \/ StoreContent \/ TakeChannels \/ ReloadDone
  <2>1. disk' = disk /\ reported' \subseteq reported
    BY <1>6 DEF StartMonitor, StartFails, ReadFile, ReadFails, StoreContent, TakeChannels,
                ReloadDone, filesys
  <2> QED
    BY <2>1
<1>7. ASSUME NEW c \in Consumers, Send(c) PROVE ReportedThere'
  BY <1>7 DEF Send, filesys
<1>8. ASSUME NEW s \in Stoppers, CallStop(s) \/ StopReturns(s) PROVE ReportedThere'
  BY <1>8 DEF CallStop, StopReturns, filesys, monitor, consumer
<1>9. ASSUME NEW c \in Consumers,
             FirstGet(c) \/ WatchEvent(c) \/ GetAgain(c) \/ SetValue(c) \/ Receive(c) PROVE ReportedThere'
  BY <1>9 DEF FirstGet, WatchEvent, GetAgain, SetValue, Receive, filesys, monitor
<1>10. CASE UNCHANGED vars
  BY <1>10 DEF vars, filesys, monitor, consumer
<1> QED
  BY <1>1, <1>2, <1>3, <1>4, <1>5, <1>6, <1>7, <1>8, <1>9, <1>10
  DEF Next, FileChange, MonitorStep, ConsumerStep

(* WatchEvent registers the channel and starts the wait.                   *)
LEMMA WaitingStep == TypeOK /\ WaitingRegistered /\ [Next]_vars => WaitingRegistered'
<1> SUFFICES ASSUME TypeOK /\ WaitingRegistered, [Next]_vars
             PROVE  WaitingRegistered'
  OBVIOUS
<1> USE DEF TypeOK, WaitingRegistered
<1>1. ASSUME NEW f \in Files, Write(f) \/ Replace(f) \/ Remove(f) PROVE WaitingRegistered'
  BY <1>1 DEF Write, Replace, Remove, monitor, consumer
<1>2. CASE StartMonitor \/ StartFails \/ Reload \/ Ignore \/ ReadFile \/ ReadFails \/ StoreContent \/ TakeChannels \/ ReloadDone
  <2>1. UNCHANGED <<watchChs, cpc>> /\ told' \subseteq told \cup watchChs
    BY <1>2 DEF StartMonitor, StartFails, Reload, Ignore, ReadFile, ReadFails,
           StoreContent, TakeChannels, ReloadDone, filesys, consumer, monitor
  <2> QED
    BY <2>1
<1>3. ASSUME NEW c \in Consumers, Send(c) PROVE WaitingRegistered'
  BY <1>3 DEF Send, filesys
<1>4. ASSUME NEW s \in Stoppers,
             TakeDone(s) \/ CallStop(s) \/ StopReturns(s) PROVE WaitingRegistered'
  BY <1>4 DEF TakeDone, CallStop, StopReturns, consumer, filesys, monitor
<1>5. ASSUME NEW c \in Consumers, FirstGet(c) PROVE WaitingRegistered'
  BY <1>5 DEF FirstGet, filesys, monitor
<1>6. ASSUME NEW c \in Consumers, WatchEvent(c) PROVE WaitingRegistered'
  BY <1>6 DEF WatchEvent, filesys, monitor
<1>7. ASSUME NEW c \in Consumers, GetAgain(c) PROVE WaitingRegistered'
  BY <1>7 DEF GetAgain, filesys, monitor
<1>8. ASSUME NEW c \in Consumers, SetValue(c) \/ Receive(c) PROVE WaitingRegistered'
  BY <1>8 DEF SetValue, Receive, filesys, monitor
<1>9. CASE UNCHANGED vars
  BY <1>9 DEF vars, filesys, monitor, consumer
<1> QED
  BY <1>1, <1>2, <1>3, <1>4, <1>5, <1>6, <1>7, <1>8, <1>9
  DEF Next, FileChange, MonitorStep, ConsumerStep

-----------------------------------------------------------------------------
(* NoLostWrite. *)

(* A step that leaves queue, disk and the monitor's read alone, but may    *)
(* report fewer files, keeps NoLostWrite.                                  *)
LEMMA WriteStutter ==
  ASSUME NoLostWrite, UNCHANGED <<disk, queue, content, name, val>>,
         reported' \subseteq reported,
         \/ UNCHANGED mpc
         \/ mpc \notin {"sleep", "store", "exit"} /\ mpc' \notin {"sleep", "store"}
  PROVE  NoLostWrite'
BY DEF NoLostWrite, ToRead, Queued, ToStore

(* A change of f: its own event is in the queue if it is reported, and the *)
(* events of other files stay there.                                       *)
LEMMA WriteReported ==
  ASSUME TypeOK, NoLostWrite, NEW f \in Files, NEW w \in BOOLEAN,
         Report(f, w) \/ Overflow(f), \A g \in Files \ {f} : disk'[g] = disk[g],
         UNCHANGED <<content, mpc, name, val>>
  PROVE  NoLostWrite'
<1> SUFFICES ASSUME NEW g \in reported', mpc # "exit"
             PROVE  content[g] = disk'[g] \/ ToRead(g)' \/ ToStore(g)'
  BY DEF NoLostWrite
<1>1. CASE g = f
  BY <1>1, ReportFacts DEF ToRead, Queued
<1>2. CASE g # f
  <2>1. g \in reported /\ g \in Files
    BY <1>2, ReportFacts DEF TypeOK
  <2>2. content[g] = disk[g] \/ ToRead(g) \/ ToStore(g)
    BY <2>1 DEF NoLostWrite
  <2>3. ToRead(g) => ToRead(g)'
    BY ReportFacts DEF ToRead, Queued
  <2>4. ToStore(g) => ToStore(g)'
    BY <1>2, <2>1 DEF ToStore
  <2> QED
    BY <1>2, <2>1, <2>2, <2>3, <2>4
<1> QED
  BY <1>1, <1>2

(* Taking an event off the queue: the read it asks for is the next step.   *)
LEMMA WriteTaken ==
  TypeOK /\ ReportedThere /\ NoLostWrite /\ (Reload \/ Ignore) => NoLostWrite'
<1> SUFFICES ASSUME TypeOK, ReportedThere, NoLostWrite, Reload \/ Ignore,
                    NEW f \in reported', mpc' # "exit"
             PROVE  content'[f] = disk'[f] \/ ToRead(f)'
  BY DEF NoLostWrite
<1>1. /\ f \in reported /\ f \notin Hidden
      /\ mpc = "select"
      /\ queue # <<>> /\ queue' = Tail(queue)
      /\ UNCHANGED <<disk, content>>
      /\ Head(queue).write /\ Head(queue).file = f => mpc' = "sleep" /\ name' = f
  BY DEF Reload, Ignore, Filtered, ReportedThere
<1>2. CASE content[f] = disk[f]
  BY <1>1, <1>2
<1>3. CASE ToRead(f)
  <2>1. PICK i \in 1..Len(queue) : queue[i].file = f /\ queue[i].write
    BY <1>1, <1>3 DEF ToRead, Queued
  <2>2. CASE i = 1
    BY <1>1, <2>1, <2>2 DEF ToRead, Queued, TypeOK
  <2>3. CASE i # 1
    <3>1. i - 1 \in 1..Len(Tail(queue)) /\ Tail(queue)[i - 1] = queue[i]
      BY <1>1, <2>3, QueueFacts DEF TypeOK
    <3> QED
      BY <1>1, <2>1, <3>1 DEF ToRead, Queued
  <2> QED
    BY <2>2, <2>3
<1> QED
  BY <1>1, <1>2, <1>3 DEF NoLostWrite, ToStore

(* A reload reads what is on disk, and stores nothing older.               *)
LEMMA WriteStep ==
  TypeOK /\ Versions /\ ReportedThere /\ NoLostWrite /\ [Next]_vars => NoLostWrite'
<1> SUFFICES ASSUME TypeOK, Versions, ReportedThere, NoLostWrite, [Next]_vars
             PROVE  NoLostWrite'
  OBVIOUS
<1>1. ASSUME NEW f \in Files, Write(f) PROVE NoLostWrite'
  BY <1>1, WriteReported DEF Write, monitor, TypeOK
<1>2. ASSUME NEW f \in Files, Replace(f) PROVE NoLostWrite'
  BY <1>2, WriteReported DEF Replace, monitor, TypeOK
<1>3. ASSUME NEW f \in Files, Remove(f) PROVE NoLostWrite'
  BY <1>3, WriteReported DEF Remove, monitor, TypeOK
<1>4. CASE StartMonitor \/ StartFails \/ TakeChannels \/ ReloadDone
  BY <1>4, WriteStutter DEF StartMonitor, StartFails, TakeChannels, ReloadDone, filesys
<1>5. CASE Reload \/ Ignore
  BY <1>5, WriteTaken
<1>6. CASE ReadFile
  BY <1>6 DEF ReadFile, filesys, NoLostWrite, ToRead, Queued, ToStore
<1>7. CASE ReadFails
  <2> SUFFICES ASSUME NEW f \in reported'
               PROVE  content[f] = disk[f] \/ ToRead(f)'
    BY <1>7 DEF ReadFails, NoLostWrite
  <2>1. f \in reported /\ (f = name => Queued(f)) /\ UNCHANGED <<disk, queue, content>>
        /\ mpc = "sleep"
    BY <1>7 DEF ReadFails
  <2>2. Queued(f) => ToRead(f)'
    BY <2>1 DEF ToRead, Queued
  <2> QED
    BY <2>1, <2>2 DEF NoLostWrite, ToRead, ToStore
<1>8. CASE StoreContent
  <2> SUFFICES ASSUME NEW f \in reported, f \in Files
               PROVE  content'[f] = disk[f] \/ ToRead(f)'
    BY <1>8 DEF StoreContent, filesys, NoLostWrite, TypeOK
  <2>1. content[f] = disk[f] => content'[f] = disk[f]
    BY <1>8 DEF StoreContent, Versions, ReportedThere, TypeOK
  <2>2. ToStore(f) => content'[f] = disk[f]
    BY <1>8 DEF StoreContent, ToStore, TypeOK
  <2>3. ToRead(f) => ToRead(f)'
    BY <1>8 DEF StoreContent, filesys, ToRead, Queued
  <2> QED
    BY <1>8, <2>1, <2>2, <2>3 DEF NoLostWrite, StoreContent
<1>9. ASSUME NEW c \in Consumers, Send(c) PROVE NoLostWrite'
  BY <1>9, WriteStutter DEF Send, filesys
<1>10. ASSUME NEW s \in Stoppers, TakeDone(s) PROVE NoLostWrite'
  BY <1>10 DEF TakeDone, NoLostWrite
<1>11. ASSUME NEW s \in Stoppers, CallStop(s) \/ StopReturns(s) PROVE NoLostWrite'
  BY <1>11, WriteStutter DEF CallStop, StopReturns, filesys, monitor
<1>12. ASSUME NEW c \in Consumers, ConsumerStep(c) PROVE NoLostWrite'
  BY <1>12, WriteStutter
  DEF ConsumerStep, FirstGet, WatchEvent, GetAgain, SetValue, Receive, filesys, monitor
<1>13. CASE UNCHANGED vars
  BY <1>13, WriteStutter DEF vars, filesys, monitor
<1> QED
  BY <1>1, <1>2, <1>3, <1>4, <1>5, <1>6, <1>7, <1>8, <1>9, <1>10, <1>11, <1>12, <1>13
  DEF Next, FileChange, MonitorStep

-----------------------------------------------------------------------------
(* ContentBeforeEvent. *)

(* content grows, and a channel gets what content has or loses an event.   *)
LEMMA EventStep ==
  TypeOK /\ Versions /\ ContentBeforeEvent /\ [Next]_vars => ContentBeforeEvent'
<1> SUFFICES ASSUME TypeOK, Versions, ContentBeforeEvent, [Next]_vars
             PROVE  ContentBeforeEvent'
  OBVIOUS
<1> USE ConfAssumption
<1>1. CASE StoreContent
  <2>1. \A f \in Files : content'[f] >= content[f] /\ content'[f] \in Nat
    BY <1>1 DEF StoreContent, TypeOK, Versions
  <2>2. ch' = ch
    BY <1>1 DEF StoreContent, consumer
  <2>3. \A c \in Consumers : \A i \in 1..Len(ch[c]) : ch[c][i] \in Nat
    BY DEF TypeOK
  <2> QED
    BY <2>1, <2>2, <2>3 DEF ContentBeforeEvent, TypeOK
<1>2. ASSUME NEW c \in Consumers, Send(c) PROVE ContentBeforeEvent'
  <2>1. FileOf[c] = name /\ val <= content[name] /\ content' = content
    BY <1>2 DEF Send, Versions, TypeOK
  <2>2. \A i \in 1..Len(ch'[c]) : ch'[c][i] = val \/ (i \in 1..Len(ch[c]) /\ ch'[c][i] = ch[c][i])
    BY <1>2 DEF Send, TypeOK
  <2>3. \A q \in Consumers \ {c} : ch'[q] = ch[q]
    BY <1>2 DEF Send, TypeOK
  <2> QED
    BY <2>1, <2>2, <2>3 DEF ContentBeforeEvent
<1>3. ASSUME NEW c \in Consumers, SetValue(c) \/ Receive(c) PROVE ContentBeforeEvent'
  <2>1. ch[c] # <<>> /\ ch' = [ch EXCEPT ![c] = Tail(@)] /\ content' = content
    BY <1>3 DEF SetValue, Receive
  <2>2. \A i \in 1..Len(ch'[c]) : i + 1 \in 1..Len(ch[c]) /\ ch'[c][i] = ch[c][i + 1]
    BY <2>1 DEF TypeOK
  <2>3. \A q \in Consumers \ {c} : ch'[q] = ch[q]
    BY <2>1 DEF TypeOK
  <2> QED
    BY <2>1, <2>2, <2>3 DEF ContentBeforeEvent
<1>4. CASE UNCHANGED <<content, ch>>
  BY <1>4 DEF ContentBeforeEvent
<1> QED
  BY <1>1, <1>2, <1>3, <1>4
  DEF Next, FileChange, MonitorStep, ConsumerStep, Write, Replace, Remove,
      StartMonitor, StartFails, Reload, Ignore, ReadFile, ReadFails, TakeChannels,
      ReloadDone, TakeDone, CallStop, StopReturns, FirstGet, WatchEvent, GetAgain,
      consumer, vars

(* What a setter gets was published after what it has.                     *)
LEMMA ViewsStep ==
  TypeOK /\ Versions /\ WaitingRegistered /\ ContentBeforeEvent /\ ViewsOrdered
    /\ [Next]_vars => ViewsOrdered'
<1> SUFFICES ASSUME TypeOK, Versions, WaitingRegistered, ContentBeforeEvent,
                    ViewsOrdered, [Next]_vars
             PROVE  ViewsOrdered'
  OBVIOUS
<1> USE ConfAssumption
<1>1. ASSUME UNCHANGED <<content, view, ch>>, todo' \subseteq watchChs',
             watchChs \subseteq watchChs',
             \A c \in ByValue : cpc'[c] # "woken"
      PROVE  ViewsOrdered'
  BY <1>1 DEF ViewsOrdered
<1>2. CASE \/ FileChange \/ StartMonitor \/ StartFails \/ Reload \/ Ignore
           \/ ReadFile \/ ReadFails \/ TakeChannels \/ ReloadDone
           \/ (\E s \in Stoppers : TakeDone(s) \/ CallStop(s) \/ StopReturns(s))
           \/ UNCHANGED vars
  BY <1>1, <1>2
  DEF FileChange, Write, Replace, Remove, StartMonitor, StartFails, Reload,
      Ignore, ReadFile, ReadFails, TakeChannels, ReloadDone, TakeDone, CallStop,
      StopReturns, ViewsOrdered, consumer, monitor, vars
<1>3. CASE StoreContent
  <2>1. \A c \in Consumers : content'[FileOf[c]] >= content[FileOf[c]]
                            /\ content'[FileOf[c]] \in Nat
    BY <1>3 DEF StoreContent, TypeOK, Versions
  <2>2. \A c \in Consumers : view[c] <= content'[FileOf[c]]
    BY <2>1 DEF ViewsOrdered, TypeOK
  <2>3. UNCHANGED <<todo, watchChs, ch, cpc, view>>
    BY <1>3 DEF StoreContent
  <2> QED
    BY <2>2, <2>3 DEF ViewsOrdered
<1>4. ASSUME NEW c \in Consumers, Send(c) PROVE ViewsOrdered'
  <2>1. /\ c \in watchChs /\ FileOf[c] = name /\ val = content[name]
        /\ todo' \subseteq watchChs /\ UNCHANGED <<content, view, watchChs, cpc>>
        /\ \A q \in Consumers \ {c} : ch'[q] = ch[q]
    BY <1>4 DEF Send, Versions, ViewsOrdered, TypeOK
  <2>2. CASE ch' = ch
    BY <2>1, <2>2 DEF ViewsOrdered
  <2>3. CASE ch'[c] = Append(ch[c], val)
    <3>1. /\ Len(ch'[c]) = Len(ch[c]) + 1 /\ Len(ch[c]) \in Nat
          /\ ch'[c][Len(ch[c]) + 1] = content[FileOf[c]]
          /\ \A i \in 1..Len(ch[c]) : ch'[c][i] = ch[c][i]
      BY <2>1, <2>3 DEF TypeOK
    <3>2. \A i \in 1..Len(ch'[c]) : i \in 1..Len(ch[c]) \/ i = Len(ch[c]) + 1
      BY <3>1
    <3>3. \A i \in 1..Len(ch'[c]) :
            ch'[c][i] \in Nat /\ ch'[c][i] <= content[FileOf[c]]
      <4>1. content[FileOf[c]] \in Nat
        BY DEF TypeOK
      <4>2. \A i \in 1..Len(ch[c]) : ch[c][i] \in Nat /\ ch[c][i] <= content[FileOf[c]]
        BY DEF ContentBeforeEvent, TypeOK
      <4> QED
        BY <3>1, <3>2, <4>1, <4>2
    <3>4. ASSUME c \in ByValue, NEW i \in 1..Len(ch'[c])
          PROVE  view[c] <= ch'[c][i]
      BY <3>1, <3>2, <3>4 DEF ViewsOrdered
    <3>5. ASSUME c \in ByValue, NEW i \in 1..Len(ch'[c]), NEW j \in 1..Len(ch'[c]), i <= j
          PROVE  ch'[c][i] <= ch'[c][j]
      <4>1. CASE j = Len(ch[c]) + 1
        BY <3>1, <3>3, <4>1
      <4>2. CASE j \in 1..Len(ch[c])
        <5>1. i \in 1..Len(ch[c])
          BY <3>1, <3>5, <4>2
        <5> QED
          BY <3>1, <3>5, <4>2, <5>1 DEF ViewsOrdered
      <4> QED
        BY <3>2, <4>1, <4>2
    <3> QED
      BY <2>1, <3>4, <3>5 DEF ViewsOrdered
  <2>4. ch' = ch \/ ch'[c] = Append(ch[c], val)
    BY <1>4 DEF Send, TypeOK
  <2> QED
    BY <2>2, <2>3, <2>4
<1>5. ASSUME NEW c \in Consumers, FirstGet(c) PROVE ViewsOrdered'
  <2>1. /\ c \notin watchChs /\ ch[c] = <<>>
        /\ view' = [view EXCEPT ![c] = content[FileOf[c]]]
        /\ cpc'[c] = "got" /\ \A q \in Consumers \ {c} : cpc'[q] = cpc[q]
        /\ UNCHANGED <<content, todo, watchChs, ch>>
    BY <1>5 DEF FirstGet, monitor, WaitingRegistered, ViewsOrdered, TypeOK
  <2>2. \A q \in Consumers : view'[q] <= content[FileOf[q]]
    BY <2>1 DEF ViewsOrdered, TypeOK
  <2>3. \A q \in ByValue : \A i \in 1..Len(ch[q]) : view'[q] <= ch[q][i]
    BY <2>1, SMTT(30) DEF ViewsOrdered, TypeOK
  <2> QED
    BY <2>1, <2>2, <2>3 DEF ViewsOrdered
<1>6. ASSUME NEW c \in Consumers, WatchEvent(c) PROVE ViewsOrdered'
  <2>1. /\ UNCHANGED <<content, view, ch, todo>> /\ watchChs' = watchChs \cup {c}
        /\ \A q \in ByValue : cpc'[q] # "woken"
    BY <1>6 DEF WatchEvent, monitor, ViewsOrdered, TypeOK
  <2> QED
    BY <1>1, <2>1 DEF ViewsOrdered
<1>7. ASSUME NEW c \in Consumers, GetAgain(c) PROVE ViewsOrdered'
  <2>1. /\ c \notin ByValue
        /\ view' = [view EXCEPT ![c] = content[FileOf[c]]]
        /\ \A q \in Consumers \ {c} : cpc'[q] = cpc[q]
        /\ UNCHANGED <<content, todo, watchChs, ch>>
    BY <1>7 DEF GetAgain, monitor, ViewsOrdered, TypeOK
  <2>2. \A q \in Consumers : view'[q] <= content[FileOf[q]]
    BY <2>1 DEF ViewsOrdered, TypeOK
  <2>3. \A q \in ByValue : view'[q] = view[q] /\ cpc'[q] = cpc[q]
    BY <2>1 DEF TypeOK
  <2> QED
    BY <2>1, <2>2, <2>3 DEF ViewsOrdered
<1>8. ASSUME NEW c \in Consumers, SetValue(c) \/ Receive(c) PROVE ViewsOrdered'
  <2>1. /\ ch[c] # <<>> /\ ch' = [ch EXCEPT ![c] = Tail(@)]
        /\ UNCHANGED <<content, todo, watchChs>>
    BY <1>8 DEF SetValue, Receive, monitor
  <2>2. /\ Len(ch[c]) \in Nat /\ Len(ch[c]) >= 1 /\ Head(ch[c]) = ch[c][1]
        /\ Len(ch'[c]) = Len(ch[c]) - 1
        /\ \A i \in 1..Len(ch'[c]) : i + 1 \in 1..Len(ch[c]) /\ ch'[c][i] = ch[c][i + 1]
        /\ \A q \in Consumers \ {c} : ch'[q] = ch[q]
    BY <2>1 DEF TypeOK
  <2>3. c \in watchChs /\ \A q \in Consumers \ watchChs : ch'[q] = <<>>
    BY <1>8, <2>2 DEF SetValue, Receive, WaitingRegistered, ViewsOrdered
  <2>4. CASE SetValue(c)
    <3>1. /\ c \in ByValue /\ cpc' = cpc
          /\ view' = [view EXCEPT ![c] = ch[c][1]]
      BY <2>2, <2>4 DEF SetValue
    <3>2. \A q \in Consumers : view'[q] <= content[FileOf[q]]
      <4>1. ch[c][1] <= content[FileOf[c]]
        BY <2>2 DEF ContentBeforeEvent
      <4> QED
        BY <3>1, <4>1 DEF ViewsOrdered, TypeOK
    <3>3. \A i \in 1..Len(ch'[c]) : view'[c] <= ch'[c][i]
      BY <2>2, <3>1 DEF ViewsOrdered, TypeOK
    <3>4. \A i, j \in 1..Len(ch'[c]) : i <= j => ch'[c][i] <= ch'[c][j]
      <4> SUFFICES ASSUME NEW i \in 1..Len(ch'[c]), NEW j \in 1..Len(ch'[c]), i <= j
                   PROVE  ch[c][i + 1] <= ch[c][j + 1]
        BY <2>2
      <4>1. i + 1 \in 1..Len(ch[c]) /\ j + 1 \in 1..Len(ch[c]) /\ i + 1 <= j + 1
        BY <2>2
      <4> QED
        BY <3>1, <4>1 DEF ViewsOrdered
    <3>5. \A q \in ByValue \ {c} : view'[q] = view[q] /\ ch'[q] = ch[q]
      BY <2>2, <3>1 DEF TypeOK
    <3> QED
      BY <2>1, <2>3, <3>1, <3>2, <3>3, <3>4, <3>5 DEF ViewsOrdered
  <2>5. CASE Receive(c)
    <3>1. c \notin ByValue /\ view' = view /\ \A q \in Consumers \ {c} : cpc'[q] = cpc[q]
      BY <2>5 DEF Receive, TypeOK
    <3>2. \A q \in ByValue : ch'[q] = ch[q] /\ cpc'[q] = cpc[q]
      BY <2>2, <3>1
    <3> QED
      BY <2>1, <2>3, <3>1, <3>2 DEF ViewsOrdered
  <2> QED
    BY <1>8, <2>4, <2>5
<1> QED
  BY <1>2, <1>3, <1>4, <1>5, <1>6, <1>7, <1>8 DEF Next, MonitorStep, ConsumerStep

(* A monitor that has ended takes no step.                                 *)
LEMMA ExitStays ==
  ASSUME mpc = "exit", [Next]_vars
  PROVE  mpc' = "exit" /\ content' = content /\ \A s \in Stoppers : ~TakeDone(s)
BY DEF Next, FileChange, MonitorStep, ConsumerStep, Write, Replace, Remove,
   StartMonitor, StartFails, Reload, Ignore, ReadFile, ReadFails, StoreContent,
   TakeChannels, Send, ReloadDone, TakeDone, CallStop, StopReturns, FirstGet,
   WatchEvent, GetAgain, SetValue, Receive, vars, monitor

LEMMA StopStep == TypeOK /\ StopOnce /\ [Next]_vars => StopOnce'
<1> SUFFICES ASSUME TypeOK, StopOnce, [Next]_vars
             PROVE  StopOnce'
  OBVIOUS
<1> USE DEF TypeOK
<1>1. CASE UNCHANGED spc
  BY <1>1, ExitStays DEF StopOnce
<1>2. ASSUME NEW s \in Stoppers, TakeDone(s) PROVE StopOnce'
  BY <1>2 DEF TakeDone, StopOnce
<1>3. ASSUME NEW s \in Stoppers, CallStop(s) \/ StopReturns(s) PROVE StopOnce'
  BY <1>3 DEF CallStop, StopReturns, monitor, StopOnce
<1> QED
  BY <1>1, <1>2, <1>3
  DEF Next, FileChange, MonitorStep, ConsumerStep, Write, Replace, Remove,
      StartMonitor, StartFails, Reload, Ignore, ReadFile, ReadFails, StoreContent,
      TakeChannels, Send, ReloadDone, FirstGet, WatchEvent, GetAgain, SetValue,
      Receive, vars

-----------------------------------------------------------------------------
(* NoLostUpdate: which readers have an event on its way.                   *)

(* Steps that say nothing to a reader.                                     *)
LEMMA PendingStutter ==
  ASSUME NEW f \in Files, UNCHANGED <<ch, watchChs, cpc>>,
         \A c \in watchChs : AboutToSend(c)' <=> AboutToSend(c)
  PROVE  Pending(f)' = Pending(f) /\ Joined(f)' = Joined(f)
BY DEF Pending, Joined

(* The steps that leave Storage and the readers alone do not take an event *)
(* away, nor announce one.                                                 *)
Quietly ==
  \/ FileChange
  \/ StartMonitor \/ StartFails \/ Reload \/ Ignore \/ ReadFile \/ ReadFails
  \/ TakeChannels \/ ReloadDone
  \/ \E s \in Stoppers : TakeDone(s) \/ CallStop(s) \/ StopReturns(s)
  \/ UNCHANGED vars

LEMMA QuietlyFacts ==
  ASSUME TypeOK, WaitingRegistered, Quietly, NEW f \in Files
  PROVE  /\ Pending(f)' = Pending(f) /\ Joined(f)' = Joined(f)
         /\ UNCHANGED <<content, view, told>>
<1>1. CASE FileChange \/ (\E s \in Stoppers : CallStop(s) \/ StopReturns(s)) \/ UNCHANGED vars
  BY <1>1, PendingStutter
  DEF FileChange, Write, Replace, Remove, CallStop, StopReturns, vars,
      monitor, consumer, AboutToSend
<1>2. CASE StartMonitor \/ StartFails \/ ReadFile \/ ReadFails \/ ReloadDone
  BY <1>2, PendingStutter
  DEF StartMonitor, StartFails, ReadFile, ReadFails, ReloadDone, consumer, AboutToSend
<1>3. CASE Reload \/ Ignore \/ (\E s \in Stoppers : TakeDone(s))
  BY <1>3, PendingStutter
  DEF Reload, Ignore, TakeDone, monitor, consumer, AboutToSend
<1>4. CASE TakeChannels
  BY <1>4, PendingStutter DEF TakeChannels, consumer, AboutToSend
<1> QED
  BY <1>1, <1>2, <1>3, <1>4 DEF Quietly

(* FirstGet: a reader that has not registered reads.                       *)
LEMMA PeekFacts ==
  ASSUME TypeOK, WaitingRegistered, NEW c \in Consumers, FirstGet(c), NEW f \in Files
  PROVE  /\ Pending(f)' = Pending(f) /\ Joined(f)' = Joined(f)
         /\ UNCHANGED <<content, told>> /\ c \notin Joined(f)
         /\ view' = [view EXCEPT ![c] = content[FileOf[c]]]
<1>1. UNCHANGED <<watchChs, ch, content, told, mpc, name, todo>>
  BY DEF FirstGet, monitor
<1>2. c \notin watchChs /\ \A q \in watchChs : cpc'[q] = cpc[q]
  BY DEF FirstGet, WaitingRegistered, TypeOK
<1>3. \A q \in watchChs : AboutToSend(q)' <=> AboutToSend(q)
  BY <1>1 DEF AboutToSend
<1> QED
  BY <1>1, <1>2, <1>3 DEF Pending, Joined, FirstGet

(* Publishing a version announces it to all readers of the file.           *)
LEMMA StoreFacts ==
  ASSUME TypeOK, StoreContent, NEW f \in Files
  PROVE  /\ UNCHANGED <<view, watchChs>> /\ Joined(f)' = Joined(f)
         /\ f = name => Pending(f)' = Joined(f) /\ told' \cap Joined(f) = Joined(f)
         /\ f # name => /\ Pending(f)' = Pending(f) /\ content'[f] = content[f]
                        /\ told' \cap Joined(f) = told \cap Joined(f)
<1> USE DEF StoreContent, filesys, consumer, TypeOK, Pending, Joined, ReadersOf, AboutToSend
<1>1. UNCHANGED <<view, watchChs, ch, cpc>> /\ mpc = "store" /\ mpc' = "lock"
      /\ name' = name
  OBVIOUS
<1>2. CASE f = name
  BY <1>1, <1>2
<1>3. CASE f # name
  BY <1>1, <1>3
<1> QED
  BY <1>1, <1>2, <1>3

(* The event of a Send is in the channel, or the channel is full.          *)
LEMMA SendFacts ==
  ASSUME TypeOK, Versions, NEW c \in Consumers, Send(c), NEW f \in Files
  PROVE  /\ Pending(f)' = Pending(f) /\ Joined(f)' = Joined(f)
         /\ UNCHANGED <<content, view, told>>
<1>1. mpc = "send" /\ c \in todo /\ todo' = todo \ {c}
      /\ UNCHANGED <<mpc, name, watchChs, cpc>>
  BY DEF Send
<1>2. ch'[c] # <<>> /\ \A q \in Consumers \ {c} : ch'[q] = ch[q]
  <2>1. CASE Len(ch[c]) < ChCap
    BY <2>1 DEF Send, TypeOK
  <2>2. CASE ~(Len(ch[c]) < ChCap)
    BY <2>2, ConfAssumption DEF Send, TypeOK
  <2> QED
    BY <2>1, <2>2
<1>3. \A q \in Consumers \ {c} : AboutToSend(q)' <=> AboutToSend(q)
  BY <1>1 DEF AboutToSend
<1>4. c \in Joined(f) => c \in Pending(f) /\ c \in Pending(f)'
  <2>1. AboutToSend(c)
    BY <1>1 DEF AboutToSend, Versions
  <2> QED
    BY <1>1, <1>2, <2>1 DEF Pending, Joined
<1>5. Joined(f)' = Joined(f)
  BY <1>1 DEF Joined
<1>6. \A q \in Joined(f) \ {c} : q \in Pending(f)' <=> q \in Pending(f)
  BY <1>1, <1>2, <1>3, <1>5 DEF Pending, Joined, ReadersOf
<1>7. Pending(f)' = Pending(f)
  BY <1>4, <1>5, <1>6 DEF Pending
<1> QED
  BY <1>5, <1>7 DEF Send

(* Who takes an event to Get is about to read.                             *)
LEMMA ReceiveFacts ==
  ASSUME TypeOK, WaitingRegistered, NEW c \in Consumers, SetValue(c) \/ Receive(c),
         NEW f \in Files
  PROVE  /\ Pending(f)' = Pending(f) /\ Joined(f)' = Joined(f)
         /\ UNCHANGED <<content, told>>
         /\ \A q \in ReadersOf(f) : view'[q] = view[q]
<1>1. /\ UNCHANGED <<content, told, watchChs, mpc, name, todo>>
      /\ \A q \in Consumers \ ByValue : view'[q] = view[q]
      /\ \A q \in Consumers \ {c} : ch'[q] = ch[q] /\ cpc'[q] = cpc[q]
      /\ c \in ByValue \/ (ch[c] # <<>> /\ cpc'[c] = "woken")
  BY DEF SetValue, Receive, monitor, TypeOK
<1>2. \A q \in Consumers : AboutToSend(q)' <=> AboutToSend(q)
  BY <1>1 DEF AboutToSend
<1>3. \A q \in Joined(f) : q \in Consumers /\ q \notin ByValue
  BY DEF Joined, ReadersOf
<1>4. Joined(f)' = Joined(f)
  BY <1>1 DEF Joined
<1>5. Pending(f)' = Pending(f)
  BY <1>1, <1>2, <1>3, <1>4 DEF Pending
<1> QED
  BY <1>1, <1>4, <1>5 DEF ReadersOf

(* WatchEvent: a reader joins, and is told nothing.                        *)
LEMMA JoinFacts ==
  ASSUME TypeOK, WaitingRegistered, NEW c \in Consumers, WatchEvent(c), NEW f \in Files
  PROVE  /\ UNCHANGED <<content, view, told>> /\ c \notin told
         /\ c \in ReadersOf(f) =>
              /\ c \notin Joined(f)
              /\ Joined(f)' = Joined(f) \cup {c}
              /\ Pending(f)' \in {Pending(f), Pending(f) \cup {c}}
         /\ c \notin ReadersOf(f) => Joined(f)' = Joined(f) /\ Pending(f)' = Pending(f)
<1>1. /\ UNCHANGED <<content, view, told, ch, mpc, name, todo>> /\ c \notin told
      /\ c \notin watchChs /\ watchChs' = watchChs \cup {c}
      /\ \A q \in Consumers \ {c} : cpc'[q] = cpc[q]
  BY DEF WatchEvent, monitor, TypeOK, WaitingRegistered
<1>2. \A q \in Consumers : AboutToSend(q)' <=> AboutToSend(q)
  BY <1>1 DEF AboutToSend
<1>3. \A q \in Joined(f) : q \in Consumers /\ q # c
  BY <1>1 DEF Joined, ReadersOf
<1>4. c \in ReadersOf(f) => Joined(f)' = Joined(f) \cup {c}
  BY <1>1 DEF Joined
<1>5. c \notin ReadersOf(f) => Joined(f)' = Joined(f)
  BY <1>1 DEF Joined
<1>6. \A q \in Joined(f) : q \in Pending(f)' <=> q \in Pending(f)
  BY <1>1, <1>2, <1>3, <1>4, <1>5 DEF Pending
<1> QED
  BY <1>1, <1>3, <1>4, <1>5, <1>6 DEF Pending

(* GetAgain: a woken reader applies what Storage has now.                  *)
LEMMA ReadFacts ==
  ASSUME TypeOK, WaitingRegistered, NEW c \in Consumers, GetAgain(c), NEW f \in Files
  PROVE  /\ content' = content /\ view' = [view EXCEPT ![c] = content[FileOf[c]]]
         /\ Joined(f)' = Joined(f) /\ told' = told \cup {c}
         /\ c \in ReadersOf(f) =>
              c \in Pending(f) /\ Pending(f)' \in {Pending(f), Pending(f) \ {c}}
         /\ c \notin ReadersOf(f) => Pending(f)' = Pending(f)
<1>1. /\ UNCHANGED <<content, watchChs, ch, mpc, name, todo>>
      /\ view' = [view EXCEPT ![c] = content[FileOf[c]]] /\ told' = told \cup {c}
      /\ cpc[c] = "woken" /\ c \in watchChs
      /\ \A q \in Consumers \ {c} : cpc'[q] = cpc[q]
  BY DEF GetAgain, monitor, TypeOK, WaitingRegistered
<1>2. \A q \in Consumers : AboutToSend(q)' <=> AboutToSend(q)
  BY <1>1 DEF AboutToSend
<1>3. Joined(f)' = Joined(f) /\ Joined(f) \subseteq Consumers
  BY <1>1 DEF Joined, ReadersOf
<1>4. \A q \in Joined(f) \ {c} : q \in Pending(f)' <=> q \in Pending(f)
  BY <1>1, <1>2, <1>3 DEF Pending
<1>5. c \in ReadersOf(f) => c \in Pending(f)
  BY <1>1 DEF Pending, Joined
<1> QED
  BY <1>1, <1>3, <1>4, <1>5 DEF Pending, Joined

(* A reader that was told, with no event on its way, has what Storage has. *)
LEMMA UpdateStep ==
  TypeOK /\ Versions /\ WaitingRegistered /\ NoLostUpdate /\ [Next]_vars => NoLostUpdate'
<1> SUFFICES ASSUME TypeOK, Versions, WaitingRegistered, NoLostUpdate, [Next]_vars,
                    NEW f \in Files, NEW c \in (Joined(f)' \cap told') \ Pending(f)'
             PROVE  view'[c] = content'[f]
  BY DEF NoLostUpdate
<1> USE DEF NoLostUpdate
<1>0. FileOf[c] = f /\ c \in Consumers /\ c \in ReadersOf(f)
  BY DEF Joined, ReadersOf
<1>1. CASE Quietly
  BY <1>1, QuietlyFacts
<1>2. CASE StoreContent
  BY <1>2, StoreFacts
<1>3. ASSUME NEW q \in Consumers, Send(q) PROVE view'[c] = content'[f]
  BY <1>3, SendFacts
<1>4. ASSUME NEW q \in Consumers, SetValue(q) \/ Receive(q) PROVE view'[c] = content'[f]
  BY <1>0, <1>4, ReceiveFacts
<1>5. ASSUME NEW q \in Consumers, WatchEvent(q) PROVE view'[c] = content'[f]
  <2>1. c # q
    BY <1>5, JoinFacts
  <2>2. c \in (Joined(f) \cap told) \ Pending(f)
    BY <1>0, <1>5, <2>1, JoinFacts
  <2> QED
    BY <1>5, <2>2, JoinFacts
<1>6. ASSUME NEW q \in Consumers, GetAgain(q) PROVE view'[c] = content'[f]
  <2>1. CASE c = q
    BY <1>0, <1>6, <2>1, ReadFacts DEF TypeOK
  <2>2. CASE c # q
    <3>1. c \in (Joined(f) \cap told) \ Pending(f)
      BY <1>6, <2>2, ReadFacts
    <3>2. view'[c] = view[c] /\ content' = content
      BY <1>0, <1>6, <2>2, ReadFacts, SMTT(30) DEF TypeOK
    <3> QED
      BY <3>1, <3>2
  <2> QED
    BY <2>1, <2>2
<1>7. ASSUME NEW q \in Consumers, FirstGet(q) PROVE view'[c] = content'[f]
  <2>1. c \in (Joined(f) \cap told) \ Pending(f) /\ c # q
    BY <1>7, PeekFacts
  <2>2. view'[c] = view[c] /\ content' = content
    BY <1>0, <1>7, <2>1, PeekFacts, SMTT(30) DEF TypeOK
  <2> QED
    BY <2>1, <2>2
<1> QED
  BY <1>1, <1>2, <1>3, <1>4, <1>5, <1>6, <1>7 DEF Next, MonitorStep, ConsumerStep, Quietly

-----------------------------------------------------------------------------
(* Theorems. *)

(* At first every file has one version, and nobody has registered.         *)
LEMMA IInvInit == Init => IInv
<1> SUFFICES ASSUME Init PROVE IInv
  OBVIOUS
<1>1. TypeOK
  BY DEF Init, TypeOK
<1>2. Versions /\ ReportedThere /\ WaitingRegistered /\ NoLostWrite
      /\ ContentBeforeEvent /\ NoLostUpdate
  BY DEF Init, Versions, ReportedThere, WaitingRegistered, NoLostWrite,
     ContentBeforeEvent, NoLostUpdate, Joined
<1>3. ViewsOrdered /\ StopOnce
  BY ConfAssumption DEF Init, ViewsOrdered, StopOnce
<1> QED
  BY <1>1, <1>2, <1>3 DEF IInv

(* The inductive invariant.                                                *)
THEOREM Invariance == Spec => []IInv
<1>1. IInv /\ [Next]_vars => IInv'
  BY TypeStep, VersionsStep, ReportedStep, WaitingStep, WriteStep, EventStep,
     UpdateStep, ViewsStep, StopStep DEF IInv
<1> QED
  BY <1>1, IInvInit, PTL DEF Spec

(* Conf keeps its types.                                                   *)
THEOREM TypeCorrect == Spec => []TypeOK
BY Invariance, PTL DEF IInv

(* NoLostWrite: a write that fsnotify reported is in Storage, or a read of *)
(* it is still to come, unless the last read asked for failed.             *)
THEOREM WritesKept == Spec => []NoLostWrite
BY Invariance, PTL DEF IInv

(* ContentBeforeEvent: an event never runs ahead of Storage.               *)
THEOREM EventAfterContent == Spec => []ContentBeforeEvent
BY Invariance, PTL DEF IInv

(* NoLostUpdate: once a version was published since it registered, a       *)
(* reader that calls Get on events and has none on its way has applied     *)
(* what Storage has, whatever events were discarded.                       *)
THEOREM UpdatesKept == Spec => []NoLostUpdate
BY Invariance, PTL DEF IInv

(* VersionsNeverGoBack: reloads publish versions in the order written, and *)
(* no event takes a reader, a setter included, back to an older one.       *)
THEOREM VersionsMonotonic == Spec => VersionsNeverGoBack
<1> DEFINE Forward == /\ \A f \in Files : content'[f] >= content[f]
                      /\ \A c \in Consumers : view'[c] >= view[c]
<1>1. IInv /\ [Next]_vars => Forward \/ UNCHANGED vars
  <2> SUFFICES ASSUME IInv, Next PROVE Forward
    OBVIOUS
  <2> USE ConfAssumption DEF IInv, TypeOK
  <2>1. CASE StoreContent
    BY <2>1 DEF StoreContent, consumer, Versions
  <2>2. ASSUME NEW c \in Consumers, FirstGet(c) \/ GetAgain(c) PROVE Forward
    <3>1. view' = [view EXCEPT ![c] = content[FileOf[c]]] /\ content' = content
      BY <2>2 DEF FirstGet, GetAgain
    <3>2. content[FileOf[c]] >= view[c] /\ \A q \in Consumers : view[q] \in Nat
      BY DEF ViewsOrdered
    <3> QED
      BY <3>1, <3>2
  <2>3. ASSUME NEW c \in Consumers, SetValue(c) PROVE Forward
    <3>1. ch[c][1] >= view[c] /\ Head(ch[c]) = ch[c][1]
      BY <2>3 DEF SetValue, ViewsOrdered
    <3> QED
      BY <2>3, <3>1, SMTT(30) DEF SetValue
  <2>4. CASE UNCHANGED <<content, view>>
    BY <2>4
  <2> QED
    BY <2>1, <2>2, <2>3, <2>4
    DEF Next, FileChange, MonitorStep, ConsumerStep, Write, Replace, Remove,
        StartMonitor, StartFails, Reload, Ignore, ReadFile, ReadFails, TakeChannels,
        Send, ReloadDone, TakeDone, CallStop, StopReturns, WatchEvent, Receive,
        consumer
<1> QED
  BY <1>1, Invariance, PTL DEF Spec, VersionsNeverGoBack

(* One Stop at most gets through, and the monitor has ended before it      *)
(* returns; every other call of Stop waits for ever.                       *)
THEOREM OneStopReturns == Spec => []StopOnce
BY Invariance, PTL DEF IInv

(* Stop is final: once a call of it has returned, or is about to, no       *)
(* reload is published any more, not even one that was under way.          *)
THEOREM StopFinal ==
  Spec => [][(\E s \in Stoppers : spc[s] \in {"waiting", "returned"})
               => content' = content]_vars
<1>1. IInv /\ [Next]_vars =>
        ((\E s \in Stoppers : spc[s] \in {"waiting", "returned"}) => content' = content)
  BY ExitStays DEF IInv, StopOnce
<1> QED
  BY <1>1, Invariance, PTL DEF Spec

(* Conf implements NotifyCell, one cell for every file: content.Store      *)
(* publishes, the first Get peeks, WatchEvent joins, the Get after an      *)
(* event reads, and every other step leaves the cell as it is.             *)
THEOREM Refinement == Spec => ImplementsCell
<1> DEFINE CellStep(f) == Cell(f)!Next \/ UNCHANGED Cell(f)!vars
<1>1. ASSUME Init PROVE \A f \in Files : Cell(f)!Init
  <2>1. \A f \in Files : content[f] \in Nat /\ Joined(f) = {} /\ Pending(f) = {}
    BY <1>1 DEF Init, Joined, Pending
  <2>2. \A c \in Consumers : view[c] \in Nat
    BY <1>1 DEF Init
  <2> QED
    BY <2>1, <2>2 DEF Cell!Init, ReadersOf
<1>2. ASSUME IInv, Next, NEW f \in Files PROVE CellStep(f)
  <2> USE <1>2 DEF IInv
  <2> DEFINE Views == [q \in ReadersOf(f) |-> view[q]]
  <2>1. ASSUME Pending(f)' = Pending(f), Joined(f)' = Joined(f), UNCHANGED <<content,
               told>>,
               \A q \in ReadersOf(f) : view'[q] = view[q]
        PROVE  CellStep(f)
    BY <2>1 DEF Cell!vars
  <2>2. CASE Quietly
    BY <2>1, <2>2, QuietlyFacts
  <2>3. CASE StoreContent
    <3>1. CASE f = name
      <4>1. Cell(f)!Publish
        BY <2>3, <3>1, StoreFacts DEF StoreContent, Cell!Publish, TypeOK
      <4> QED
        BY <4>1 DEF Cell!Next
    <3>2. CASE f # name
      BY <2>3, <3>2, StoreFacts DEF Cell!vars
    <3> QED
      BY <3>1, <3>2
  <2>4. ASSUME NEW c \in Consumers, Send(c) PROVE CellStep(f)
    BY <2>1, <2>4, SendFacts
  <2>5. ASSUME NEW c \in Consumers, SetValue(c) \/ Receive(c) PROVE CellStep(f)
    BY <2>1, <2>5, ReceiveFacts
  <2>6. ASSUME NEW c \in Consumers, WatchEvent(c) PROVE CellStep(f)
    <3>1. CASE c \in ReadersOf(f)
      <4>1. told' \cap (Joined(f) \cup {c}) = told \cap Joined(f)
        BY <2>6, JoinFacts
      <4>2. Cell(f)!Join(c)
        BY <2>6, <3>1, <4>1, JoinFacts DEF Cell!Join
      <4> QED
        BY <3>1, <4>2 DEF Cell!Next
    <3>2. CASE c \notin ReadersOf(f)
      BY <2>6, <3>2, JoinFacts DEF Cell!vars
    <3> QED
      BY <3>1, <3>2
  <2>7. ASSUME NEW c \in Consumers, view' = [view EXCEPT ![c] = content[FileOf[c]]]
        PROVE  /\ c \in ReadersOf(f) => Views' = [Views EXCEPT ![c] = content[f]]
               /\ c \notin ReadersOf(f) => Views' = Views
    BY <2>7 DEF TypeOK, ReadersOf
  <2>8. ASSUME NEW c \in Consumers, GetAgain(c) PROVE CellStep(f)
    <3>1. CASE c \in ReadersOf(f)
      <4>1. Views' = [Views EXCEPT ![c] = content[f]]
        BY <2>7, <2>8, <3>1, ReadFacts
      <4>2. told' \cap Joined(f)' = (told \cap Joined(f)) \cup {c}
        BY <2>8, <3>1, ReadFacts DEF Pending
      <4>3. Cell(f)!Read(c)
        BY <2>8, <3>1, <4>1, <4>2, ReadFacts DEF Cell!Read
      <4> QED
        BY <3>1, <4>3 DEF Cell!Next
    <3>2. CASE c \notin ReadersOf(f)
      <4>1. Views' = Views
        BY <2>7, <2>8, <3>2, ReadFacts
      <4>2. told' \cap Joined(f) = told \cap Joined(f)
        BY <2>8, <3>2, ReadFacts DEF Joined
      <4> QED
        BY <2>8, <3>2, <4>1, <4>2, ReadFacts DEF Cell!vars
    <3> QED
      BY <3>1, <3>2
  <2>9. ASSUME NEW c \in Consumers, FirstGet(c) PROVE CellStep(f)
    <3>1. CASE c \in ReadersOf(f)
      <4>1. Views' = [Views EXCEPT ![c] = content[f]]
        BY <2>7, <2>9, <3>1, PeekFacts
      <4>2. Cell(f)!Peek(c)
        BY <2>9, <3>1, <4>1, PeekFacts DEF Cell!Peek
      <4> QED
        BY <3>1, <4>2 DEF Cell!Next
    <3>2. CASE c \notin ReadersOf(f)
      <4>1. Views' = Views
        BY <2>7, <2>9, <3>2, PeekFacts
      <4> QED
        BY <2>9, <4>1, PeekFacts DEF Cell!vars
    <3> QED
      BY <3>1, <3>2
  <2> QED
    BY <2>2, <2>3, <2>4, <2>5, <2>6, <2>8, <2>9 DEF Next, MonitorStep, ConsumerStep,
           Quietly
<1>3. IInv /\ [Next]_vars =>
        (\A f \in Files : Cell(f)!Next \/ UNCHANGED Cell(f)!vars) \/ UNCHANGED vars
  BY <1>2
<1> QED
  BY <1>1, <1>3, Invariance, PTL DEF Spec, ImplementsCell
=============================================================================
