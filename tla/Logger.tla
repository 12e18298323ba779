------------------------------- MODULE Logger -------------------------------
(***************************************************************************)
(* The kernel's logger (Kernel/Log): AsyncLog queues a node that the log   *)
(* thread writes and hands back for the main thread to free; ThreadLog is  *)
(* the same for other threads, but the log thread frees the node itself.   *)
(*                                                                         *)
(* Each of the three LogListThreadData has a list of its own on either     *)
(* side and one between them under a mutex; lists are only ever swapped.   *)
(* A section under a mutex is one step.  The nodes of a stream are         *)
(* numbered in the order in which they were logged.  SyncLog writes its    *)
(* file directly and shares nothing with this.  The file system is assumed *)
(* to work: WriteLogNode finds or makes its file.                          *)
(***************************************************************************)
EXTENDS Integers, Sequences

CONSTANT MaxLogs   \* bound on the nodes logged in each stream

ASSUME MaxLogsAssumption == MaxLogs \in Nat

VARIABLES
  write, dels, threadLog,    \* the LogListThreadData
  file, threadFile,          \* what _asyncFile and _asyncThreadFile hold
  freed,                     \* how many nodes of AsyncLog the main thread has freed
  logged, threadLogged,      \* how many nodes each stream got
  terminate,                 \* _terminate
  pcMain, pcLog

vars == <<write, dels, threadLog, file, threadFile, freed, logged, threadLogged,
          terminate, pcMain, pcLog>>

\* threadA, swap and threadB.
NoNodes == [a |-> <<>>, swap |-> <<>>, b |-> <<>>]

\* The two directions of std::list::swap; both are only used on an empty target.
FromA(lists) == [lists EXCEPT !.a = lists.swap, !.swap = lists.a]
FromB(lists) == [lists EXCEPT !.b = lists.swap, !.swap = lists.b]

Init ==
  /\ write = NoNodes /\ dels = NoNodes /\ threadLog = NoNodes
  /\ file = <<>> /\ threadFile = <<>> /\ freed = 0
  /\ logged = 0 /\ threadLogged = 0
  /\ terminate = FALSE
  /\ pcMain = "client" /\ pcLog = "write"

(***************************************************************************)
(* The main thread, and the other threads that log.                        *)
(***************************************************************************)
AsyncLog ==
  /\ pcMain = "client" /\ logged < MaxLogs
  /\ logged' = logged + 1
  /\ write' = [write EXCEPT !.a = Append(@, logged + 1)]
  /\ UNCHANGED <<dels, threadLog, file, threadFile, freed, threadLogged, terminate,
                 pcMain, pcLog>>

ThreadLog ==
  /\ threadLogged < MaxLogs
  /\ threadLogged' = threadLogged + 1
  /\ threadLog' = [threadLog EXCEPT !.a = Append(@, threadLogged + 1)]
  /\ UNCHANGED <<write, dels, file, threadFile, freed, logged, terminate, pcMain, pcLog>>

Bug_ProcessWrite ==
  /\ pcMain = "client"
  /\ write' = FromA(write)
  /\ pcMain' = "dels"
  /\ UNCHANGED <<dels, threadLog, file, threadFile, freed, logged, threadLogged,
                 terminate, pcLog>>

\* Logger::Process, section by section.
ProcessWrite ==
  /\ pcMain = "client"
  /\ write' = IF write.swap = <<>> THEN FromA(write) ELSE write
  /\ pcMain' = "dels"
  /\ UNCHANGED <<dels, threadLog, file, threadFile, freed, logged, threadLogged,
                 terminate, pcLog>>

ProcessDels ==
  /\ pcMain = "dels"
  /\ dels' = IF dels.swap # <<>> /\ dels.a = <<>> THEN FromA(dels) ELSE dels
  /\ pcMain' = "threads"
  /\ UNCHANGED <<write, threadLog, file, threadFile, freed, logged, threadLogged,
                 terminate, pcLog>>

ProcessThreads ==
  /\ pcMain = "threads"
  /\ threadLog' = IF threadLog.swap = <<>> THEN FromA(threadLog) ELSE threadLog
  /\ pcMain' = "free"
  /\ UNCHANGED <<write, dels, file, threadFile, freed, logged, threadLogged,
                 terminate, pcLog>>

\* The nodes handed back are freed; the loop may stop early when its time is up.
ProcessFree ==
  /\ pcMain = "free"
  /\ \E n \in 0 .. Len(dels.a) :
       /\ dels.a # <<>> => n > 0
       /\ freed' = freed + n
       /\ dels' = [dels EXCEPT !.a = SubSeq(@, n + 1, Len(@))]
  /\ pcMain' = "client"
  /\ UNCHANGED <<write, threadLog, file, threadFile, logged, threadLogged, terminate,
                 pcLog>>

\* Destroy sets the flag and joins the log thread, then closes the files.
Destroy ==
  /\ pcMain = "client"
  /\ terminate' = TRUE
  /\ pcMain' = "join"
  /\ UNCHANGED <<write, dels, threadLog, file, threadFile, freed, logged, threadLogged,
                 pcLog>>

Joined ==
  /\ pcMain = "join" /\ pcLog = "returned"
  /\ pcMain' = "closed"
  /\ UNCHANGED <<write, dels, threadLog, file, threadFile, freed, logged, threadLogged,
                 terminate, pcLog>>

(***************************************************************************)
(* The log thread: Logger::ThreadRun.                                      *)
(***************************************************************************)
WriteNode ==
  /\ pcLog = "write" /\ write.b # <<>>
  /\ file' = Append(file, Head(write.b))
  /\ dels' = [dels EXCEPT !.b = Append(@, Head(write.b))]
  /\ write' = [write EXCEPT !.b = Tail(@)]
  /\ pcLog' = "thread"
  /\ UNCHANGED <<threadLog, threadFile, freed, logged, threadLogged, terminate, pcMain>>

FetchWrite ==
  /\ pcLog = "write" /\ write.b = <<>>
  /\ write' = IF write.swap # <<>> THEN FromB(write) ELSE write
  /\ pcLog' = "return"
  /\ UNCHANGED <<dels, threadLog, file, threadFile, freed, logged, threadLogged,
                 terminate, pcMain>>

Bug_ReturnDels ==
  /\ pcLog = "return"
  /\ dels' = FromB(dels)
  /\ pcLog' = "check"
  /\ UNCHANGED <<write, threadLog, file, threadFile, freed, logged, threadLogged,
                 terminate, pcMain>>

ReturnDels ==
  /\ pcLog = "return"
  /\ dels' = IF dels.swap = <<>> THEN FromB(dels) ELSE dels
  /\ pcLog' = "check"
  /\ UNCHANGED <<write, threadLog, file, threadFile, freed, logged, threadLogged,
                 terminate, pcMain>>

Check ==
  /\ pcLog = "check"
  /\ pcLog' = IF terminate THEN "returned" ELSE "thread"
  /\ UNCHANGED <<write, dels, threadLog, file, threadFile, freed, logged, threadLogged,
                 terminate, pcMain>>

WriteThreadNode ==
  /\ pcLog = "thread" /\ threadLog.b # <<>>
  /\ threadFile' = Append(threadFile, Head(threadLog.b))
  /\ threadLog' = [threadLog EXCEPT !.b = Tail(@)]
  /\ pcLog' = "write"
  /\ UNCHANGED <<write, dels, file, freed, logged, threadLogged, terminate, pcMain>>

Bug_FetchThread ==
  /\ pcLog = "thread" /\ threadLog.b = <<>>
  /\ pcLog' = "write"
  /\ UNCHANGED <<write, dels, threadLog, file, threadFile, freed, logged, threadLogged,
                 terminate, pcMain>>

FetchThread ==
  /\ pcLog = "thread" /\ threadLog.b = <<>>
  /\ threadLog' = IF threadLog.swap # <<>> THEN FromB(threadLog) ELSE threadLog
  /\ pcLog' = "write"
  /\ UNCHANGED <<write, dels, file, threadFile, freed, logged, threadLogged, terminate,
                 pcMain>>

(***************************************************************************)
(* Specification.                                                          *)
(***************************************************************************)
Process == ProcessWrite \/ ProcessDels \/ ProcessThreads \/ ProcessFree \/ Joined
Run == \/ WriteNode \/ FetchWrite \/ ReturnDels \/ Check
       \/ WriteThreadNode \/ FetchThread

\* After Joined the process ends; the last disjunct stands for that.
Next == \/ AsyncLog \/ ThreadLog \/ Process \/ Destroy \/ Run
        \/ pcMain = "closed" /\ UNCHANGED vars

Spec == Init /\ [][Next]_vars

\* The kernel calls Process in every loop, and the log thread runs.
FairSpec == Spec /\ WF_vars(Process) /\ WF_vars(Run)

(***************************************************************************)
(* Properties.                                                             *)
(***************************************************************************)
Nodes == Seq(1 .. MaxLogs)
Lists == [a : Nodes, swap : Nodes, b : Nodes]

\* Every variable has its type; a log thread that has returned was told to.
TypeOK ==
  /\ write \in Lists /\ dels \in Lists /\ threadLog \in Lists
  /\ file \in Nodes /\ threadFile \in Nodes
  /\ freed \in 0 .. Len(file)
  /\ logged \in 0 .. MaxLogs /\ threadLogged \in 0 .. MaxLogs
  /\ terminate \in BOOLEAN
  /\ pcMain \in {"client", "dels", "threads", "free", "join", "closed"}
  /\ pcLog \in {"write", "return", "check", "thread", "returned"}
  /\ pcLog = "returned" => terminate

UpTo(n) == [i \in 1 .. n |-> i]

\* Between the threads no node is lost, duplicated or overtaken by a later one, and each
\* node is in one place only (the swaps of Process and ThreadRun).
LogsInOrder ==
  /\ file \o write.b \o write.swap \o write.a = UpTo(logged)
  /\ threadFile \o threadLog.b \o threadLog.swap \o threadLog.a = UpTo(threadLogged)

\* A node is handed back for freeing once it was written and only then, and it is freed
\* once: no node is leaked and none is freed while the log thread may read it.
FreedOnceWritten == UpTo(freed) \o dels.a \o dels.swap \o dels.b = file

\* Everything logged gets written, unless the logger is being destroyed: ThreadRun then
\* returns with what is still in the lists.
EverythingWritten ==
  \A n \in 1 .. MaxLogs :
    /\ logged >= n ~> Len(file) >= n \/ terminate
    /\ threadLogged >= n ~> Len(threadFile) >= n \/ terminate
=============================================================================
