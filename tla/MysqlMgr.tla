------------------------------ MODULE MysqlMgr ------------------------------
(***************************************************************************)
(* Statements to a database (logic/Core/MysqlMgr): the main thread pushes  *)
(* a handler, a worker of the async queue executes its statement on a      *)
(* connection and reads the result back from that connection, and the main *)
(* thread tells the handler.  Besides, any task that runs on a worker may  *)
(* use the connection of that worker.                                      *)
(*                                                                         *)
(* A worker and the main thread exchange jobs as AsyncThread shows: they   *)
(* are begun and told in the order in which they were started; a finished  *)
(* job is handed over right after it or a later one, and only if the       *)
(* chain between the threads is seen empty then; and the pointer of a job  *)
(* that was told may lead the main thread to the next one, which is told   *)
(* and released though it was not executed.  `ub' is set when a released   *)
(* job is used, and nothing is claimed after it.                           *)
(***************************************************************************)
EXTENDS Integers, FiniteSets, SequencesExt

CONSTANTS
  Handlers,       \* IMysqlHandlers; each is pushed once, nothing clears its base
  Tasks,          \* IAsyncHandlers whose OnExecute calls ExecSqlInAsyncThread once
  Ids,            \* ids given by callers; an s64 is taken as a u64
  threadcount,    \* attributes of the configuration file
  connectionnum,
  NULL

\* With connectionnum 0 the first push divides by zero.
ASSUME ConfigAssumption == threadcount \in Nat \ {0} /\ connectionnum \in Int \ {0}
ASSUME IdAssumption == Ids \subseteq Nat
ASSUME NameAssumption ==
  /\ Handlers \cap Tasks = {} /\ NULL \notin Handlers \cup Tasks
  /\ NULL \notin Nat /\ NULL \notin {"OnSuccess", "OnFail", "none"}

Jobs == Handlers \cup Tasks
Threads == 0 .. threadcount - 1

\* LoadConfigFile; the connection behind the last one belongs to the main thread.
_asyncConnectionNum ==
  LET num == IF connectionnum < 0 THEN 1 ELSE connectionnum
  IN  IF num > threadcount THEN threadcount ELSE num
Connections == 0 .. _asyncConnectionNum - 1

VARIABLES
  id,          \* the id a job was pushed with, or NULL
  connection,  \* MysqlBase::_connection, or what the task asks for
  ready,       \* jobs waiting for each worker
  running,     \* the job that each worker executes
  pc,          \* where it is in OnExecute
  pending,     \* per connection: the job whose result mysql_store_result would fetch
  result,      \* MysqlResult: whose statement it is the result of, or "none" of a failed store
  outcome,     \* AsyncBase::_executed and _successed
  flight,      \* jobs started on each worker and not yet told, in order
  handed,      \* jobs that the worker has handed over to the main thread
  linked,      \* jobs to which `next' of the job started before leads
  ub,          \* a released job has been used
  serial,      \* whether every worker gets a job only when its last one was told (constant)
  told,        \* history: what the handler heard
  pushed,      \* history: the handlers in the order of their pushes
  runs         \* history: how often the server executed the statement of a job

asyncVars == <<outcome, flight, handed, linked, ub, serial>>
vars == <<id, connection, ready, running, pc, pending, result, asyncVars, told, pushed, runs>>

PCs == {"idle", "query", "active", "again", "store", "fail"}

Init ==
  /\ id = [j \in Jobs |-> NULL] /\ connection = [j \in Jobs |-> NULL]
  /\ ready = [t \in Threads |-> <<>>] /\ flight = [t \in Threads |-> <<>>]
  /\ running = [t \in Threads |-> NULL] /\ pc = [t \in Threads |-> "idle"]
  /\ pending = [c \in Connections |-> NULL] /\ result = [j \in Jobs |-> NULL]
  /\ outcome = [j \in Jobs |-> NULL] /\ handed = {} /\ linked = {}
  /\ ub = FALSE /\ serial \in BOOLEAN
  /\ told = [j \in Jobs |-> NULL] /\ pushed = <<>>
  /\ runs = [j \in Jobs |-> 0]

GetConnectionThreadIdx(i) == i % _asyncConnectionNum

\* AsyncQueue::StartAsync and AsyncThread::Add.  The job before it may still be in a chain of
\* the main thread, and is then linked to it, or be in one of the worker already.
StartAsync(threadId, j) ==
  LET t == threadId % threadcount
  IN  /\ ~ub /\ (serial => flight[t] = <<>>)
      /\ ready' = [ready EXCEPT ![t] = Append(@, j)]
      /\ flight' = [flight EXCEPT ![t] = Append(@, j)]
      /\ \/ /\ ready[t] # <<>>
            /\ linked' = linked \cup {j}
            /\ ub' = (told[Last(ready[t])] # NULL)
         \/ UNCHANGED <<linked, ub>>
      /\ UNCHANGED <<outcome, handed, serial>>

Bug_PushMysqlHandler(h, i) ==
  /\ id[h] = NULL
  /\ id' = [id EXCEPT ![h] = i]
  /\ connection' = [connection EXCEPT ![h] = GetConnectionThreadIdx(i)]
  /\ StartAsync(i, h)
  /\ pushed' = Append(pushed, h)
  /\ UNCHANGED <<running, pc, pending, result, told, runs>>

PushMysqlHandler(h, i) ==
  LET threadIdx == GetConnectionThreadIdx(i)
  IN  /\ id[h] = NULL
      /\ id' = [id EXCEPT ![h] = i]
      /\ connection' = [connection EXCEPT ![h] = threadIdx]
      /\ StartAsync(threadIdx, h)
      /\ pushed' = Append(pushed, h)
      /\ UNCHANGED <<running, pc, pending, result, told, runs>>

\* Somebody starts a task of his own.
StartTask(j, i) ==
  /\ id[j] = NULL
  /\ id' = [id EXCEPT ![j] = i]
  /\ StartAsync(i, j)
  /\ UNCHANGED <<pushed, connection, running, pc, pending, result, told, runs>>

(***************************************************************************)
(* The worker.                                                             *)
(***************************************************************************)
CheckThreadIdx(threadIdx) == threadIdx < _asyncConnectionNum

\* The worker uses a job: undefined once the job has been told, and so released.
Touch(j) == ub' = (told[j] # NULL)

Bug_OnExecute(t) ==
  LET j == Last(ready[t])
      mayUse == j \in Handlers \/ CheckThreadIdx(t)
  IN  /\ ~ub /\ pc[t] = "idle" /\ ready[t] # <<>>
      /\ ready' = [ready EXCEPT ![t] = Front(@)]
      /\ running' = [running EXCEPT ![t] = j]
      /\ connection' = IF j \in Tasks /\ mayUse THEN [connection EXCEPT ![j] = t] ELSE connection
      /\ pc' = [pc EXCEPT ![t] = IF mayUse THEN "query" ELSE "fail"]
      /\ Touch(j)
      /\ UNCHANGED <<id, pending, result, outcome, flight, handed, linked, serial, told,
                     pushed, runs>>

\* MysqlBase::OnExecute begins, or a task calls ExecSqlInAsyncThread with its threadIdx.
OnExecute(t) ==
  LET j == Head(ready[t])
      mayUse == j \in Handlers \/ CheckThreadIdx(t)
  IN  /\ ~ub /\ pc[t] = "idle" /\ ready[t] # <<>>
      /\ ready' = [ready EXCEPT ![t] = Tail(@)]
      /\ running' = [running EXCEPT ![t] = j]
      /\ connection' = IF j \in Tasks /\ mayUse THEN [connection EXCEPT ![j] = t] ELSE connection
      /\ pc' = [pc EXCEPT ![t] = IF mayUse THEN "query" ELSE "fail"]
      /\ Touch(j)
      /\ UNCHANGED <<id, pending, result, outcome, flight, handed, linked, serial, told,
                     pushed, runs>>

\* What mysql_real_query does: the server executes the statement and the answer arrives, or
\* is lost, or the statement is not executed at all.
Runs(t) == runs' = [runs EXCEPT ![running[t]] = @ + 1]
Answered(t) ==
  /\ Runs(t)
  /\ pending' = [pending EXCEPT ![connection[running[t]]] = running[t]]
AnswerLost(t) == Runs(t) /\ UNCHANGED pending
Unreachable(t) == UNCHANGED <<runs, pending>>

\* DBConnection::InnerExecute: after an error, whatever it was, the statement is tried once
\* more if isActive reaches the server, by a ping or by opening the connection again.
InnerExecute(t) ==
  \/ pc[t] = "query"  /\ pc' = [pc EXCEPT ![t] = "store"]  /\ Answered(t)
  \/ pc[t] = "query"  /\ pc' = [pc EXCEPT ![t] = "active"] /\ (AnswerLost(t) \/ Unreachable(t))
  \/ pc[t] = "active" /\ pc' = [pc EXCEPT ![t] = "again"]  /\ UNCHANGED <<runs, pending>>
  \/ pc[t] = "active" /\ pc' = [pc EXCEPT ![t] = "fail"]   /\ UNCHANGED <<runs, pending>>
  \/ pc[t] = "again"  /\ pc' = [pc EXCEPT ![t] = "store"]  /\ Answered(t)
  \/ pc[t] = "again"  /\ pc' = [pc EXCEPT ![t] = "fail"]   /\ (AnswerLost(t) \/ Unreachable(t))

\* isActive looks at the connection only.
Execute(t) ==
  /\ ~ub
  /\ InnerExecute(t)
  /\ IF pc[t] = "active" THEN UNCHANGED ub ELSE Touch(running[t])
  /\ UNCHANGED <<id, connection, ready, running, result, outcome, flight, handed, linked,
                 serial, told, pushed>>

\* ThreadProc after OnExecute: it hands over what is executed, unless it sees what it handed
\* over before still waiting for the main thread; then it may stay until the next job.
HandOver(t) ==
  LET F == ToSet(flight[t])
  IN  \/ handed' = handed \cup {j \in F : outcome'[j] # NULL}
      \/ F \cap handed # {} /\ UNCHANGED handed

Bug_Executed(t) ==
  LET j == running[t]
      c == connection[j]
  IN  /\ ~ub
      /\ \/ /\ pc[t] = "store"
            /\ result' = [result EXCEPT ![j] = pending[c]]
            /\ pending' = [pending EXCEPT ![c] = NULL]
            /\ outcome' = [outcome EXCEPT ![j] = "OnSuccess"]
            /\ HandOver(t)
         \/ /\ pc[t] = "fail"
            /\ UNCHANGED <<result, pending, outcome, handed>>
      /\ pc' = [pc EXCEPT ![t] = "idle"]
      /\ running' = [running EXCEPT ![t] = NULL]
      /\ Touch(j)
      /\ UNCHANGED <<id, connection, ready, flight, linked, serial, told, pushed, runs>>

\* MysqlResult::Init, or the error is read.  mysql_store_result may fail after a statement
\* that succeeded: Init skips the rows, and OnSuccess follows all the same.  A task may call
\* ExecSqlInAsyncThread without a callback: it leaves the result where it is.
Executed(t) ==
  LET j == running[t]
      c == connection[j]
  IN  /\ ~ub
      /\ \/ /\ pc[t] = "store"
            /\ \E r \in {pending[c], "none"} : result' = [result EXCEPT ![j] = r]
            /\ pending' = [pending EXCEPT ![c] = NULL]
         \/ /\ pc[t] = "fail" \/ (pc[t] = "store" /\ j \in Tasks)
            /\ UNCHANGED <<result, pending>>
      /\ outcome' = [outcome EXCEPT ![j] = IF pc[t] = "store" THEN "OnSuccess" ELSE "OnFail"]
      /\ HandOver(t)
      /\ pc' = [pc EXCEPT ![t] = "idle"]
      /\ running' = [running EXCEPT ![t] = NULL]
      /\ Touch(j)
      /\ UNCHANGED <<id, connection, ready, flight, linked, serial, told, pushed, runs>>

(***************************************************************************)
(* The main thread: OnSuccess or OnFailed, then OnRelease.                 *)
(***************************************************************************)
\* The next job in order, if it was handed over, or if the job told before leads to it,
\* wherever it is then: a job that was not executed, or not yet, is told of a failure.
Loop(t) ==
  LET j == Head(flight[t])
  IN  /\ ~ub /\ flight[t] # <<>>
      /\ j \in handed \cup linked
      /\ flight' = [flight EXCEPT ![t] = Tail(@)]
      /\ told' = [told EXCEPT ![j] = IF outcome[j] = "OnSuccess" THEN "OnSuccess" ELSE "OnFail"]
      /\ UNCHANGED <<id, connection, ready, running, pc, pending, result, outcome, handed,
                     linked, ub, serial, pushed, runs>>

Next == \/ \E i \in Ids : \/ \E h \in Handlers : PushMysqlHandler(h, i)
                          \/ \E j \in Tasks : StartTask(j, i)
        \/ \E t \in Threads : OnExecute(t) \/ Execute(t) \/ Executed(t) \/ Loop(t)

\* The workers and the main loop run for ever, and isActive gives up after RECONNECT_TIME_OUT.
Fairness == \A t \in Threads : /\ WF_vars(OnExecute(t) \/ Execute(t) \/ Executed(t))
                               /\ WF_vars(Loop(t))

Spec == Init /\ [][Next]_vars /\ Fairness

(***************************************************************************)
(* Properties.                                                             *)
(***************************************************************************)
\* Every variable has its type: no job has a connection that is not one of the workers'.
TypeOK ==
  /\ id \in [Jobs -> Ids \cup {NULL}]
  /\ connection \in [Jobs -> Connections \cup {NULL}]
  /\ ready \in [Threads -> Seq(Jobs)]
  /\ running \in [Threads -> Jobs \cup {NULL}] /\ pc \in [Threads -> PCs]
  /\ pending \in [Connections -> Jobs \cup {NULL}]
  /\ result \in [Jobs -> Jobs \cup {NULL, "none"}]
  /\ outcome \in [Jobs -> {NULL, "OnSuccess", "OnFail"}]
  /\ flight \in [Threads -> Seq(Jobs)]
  /\ handed \subseteq Jobs /\ linked \subseteq Jobs
  /\ ub \in BOOLEAN /\ serial \in BOOLEAN
  /\ told \in [Jobs -> {NULL, "OnSuccess", "OnFail"}]
  /\ runs \in [Jobs -> 0 .. 2]

\* Whoever hears of success gets the result of his own statement, which the server has
\* executed, or none if it could not be stored, but never that of somebody else: though
\* statement and result are two calls on a connection that is shared by all the ids of a
\* worker and by the tasks running there.
ResultIsOwn ==
  \A j \in Jobs : told[j] = "OnSuccess" =>
                   /\ runs[j] > 0
                   /\ result[j] \in {j, "none"} \/ (j \in Tasks /\ result[j] = NULL)

\* IMysqlMgr.h: what is pushed with the same id is executed in order.  A statement that is
\* executed again is so before the next one of its id.
SameIdInOrder ==
  [][\A m, n \in DOMAIN pushed :
       /\ m < n /\ id[pushed[m]] = id[pushed[n]]
       /\ runs'[pushed[m]] # runs[pushed[m]]
       => runs[pushed[n]] = 0]_vars

\* Where no worker has two jobs at a time, every handler that is pushed hears of the end of
\* its statement, even when the database is gone.  With two, the first may lead to the second
\* before that one is executed, and the second may never be handed over.
EveryoneIsTold == serial => \A j \in Jobs : id[j] # NULL ~> told[j] # NULL
=============================================================================
