----------------------------- MODULE TaskQueue -----------------------------
(***************************************************************************)
(* The basic task queue of cx/taskqueue: clients that add, cancel and      *)
(* reset tasks (BasicTask), a pool of worker threads that run them, a      *)
(* manager that releases the finished ones, and a controller that starts   *)
(* and stops the queue.  The manager is a thread of its own                *)
(* (TQDedicatedManager) or code that the workers run under a try-lock      *)
(* (TQInWorkerManager).                                                    *)
(*                                                                         *)
(* The run and done queues are FIFO queues that lose nothing and workev    *)
(* and mgrnotify are events that lose no signal: what prqueue.h and        *)
(* event.h promise, not what PrQueue and Event say of their races.         *)
(* Thread creation and prqPush succeed, a task's run() returns, and the    *)
(* size of the pool does not change: of updatePoolSize only the time under *)
(* mgrlock is left.                                                        *)
(***************************************************************************)
EXTENDS Naturals, Sequences, FiniteSets

CONSTANTS
  Tasks, Clients, Workers,
  Nobody,       \* the holder of a free mgrlock; the task of a thread without one
  Controller,   \* the thread that starts and stops the queue
  MaxCalls      \* bound on the calls each client makes, a function of the client

ASSUME TaskQueueAssumption ==
  /\ MaxCalls \in [Clients -> Nat]
  /\ Nobody \notin Tasks \union Workers \union {Controller}
  /\ Controller \notin Workers
  /\ Clients \cap Workers = {}
  /\ IsFiniteSet(Clients) /\ IsFiniteSet(Workers)

VARIABLES
  inworker,             \* manager->needsWorkerTick; never changes
  qstate,               \* tq->state
  runq, doneq,          \* tq->runq, tq->doneq
  workev,               \* tq->workev: "unset", "set" or "locked"
  tstate, cancelled,    \* the state and the flag of each task's state word
  refs,                 \* references to each task that the queue owns
  pc,                   \* where each client and worker is
  task,                 \* the task it is working on
  snap,                 \* BasicTask__setState: the word it validated
  waittime,             \* TQThreadWorker_tick: NoWait, Interval or Forever
  ticked,               \* TQThreadWorker_tick: workertick, from the moment a task is popped
  calls,                \* calls each client has made
  needrun, mgrlock,     \* the in-worker manager
  mgr, mgrnotify,       \* the dedicated manager: its thread and its event
  attached,             \* manager->tq is set
  ctl,                  \* where the controller is
  wants,                \* tasks whose last cancel returned true (history)
  raced,                \* tasks whose state word setState got wrong (history)
  early,                \* tasks reset before the queue let go of them (history)
  expired               \* whether stop has run out of patience (history)

taskvars == <<tstate, cancelled, wants, raced, early>>
queues == <<runq, doneq, refs>>
mgrvars == <<needrun, mgrlock, mgr, mgrnotify, attached>>
loopvars == <<waittime, ticked, calls>>
control == <<ctl, expired>>
vars == <<inworker, qstate, workev, taskvars, queues, pc, task, snap, loopvars, mgrvars, control>>

Threads == Clients \union Workers

States == {"Created", "Waiting", "Running", "Succeeded", "Failed"}
Finished == {"Succeeded", "Failed"}

ClientLabels == {"idle", "addload", "addcas", "addpush", "addsignal", "cancelcas"}
WorkerLabels == {"none", "loop", "pretask", "resize", "pop", "load", "cas", "drop", "dropcas", "release", "run",
                 "resload", "rescas", "pushdone", "notify", "tick", "clear", "done", "unlock",
                 "tickcheck", "wait", "park", "stopped"}

(* How long a worker waits: not at all, MAX_MANAGER_INTERVAL, timeForever. *)
NoWait == 0
Interval == 1
Forever == 2

TypeOK ==
  /\ inworker \in BOOLEAN
  /\ qstate \in {"Init", "Starting", "Running", "Stopping"}
  /\ runq \in Seq(Tasks) /\ doneq \in Seq(Tasks)
  /\ workev \in {"unset", "set", "locked"}
  /\ tstate \in [Tasks -> States] /\ cancelled \in [Tasks -> BOOLEAN]
  /\ refs \in [Tasks -> Nat]
  /\ pc \in [Threads -> ClientLabels \union WorkerLabels]
  /\ task \in [Threads -> Tasks \union {Nobody}]
  /\ snap \in [Threads -> [state : States, cancel : BOOLEAN, new : States]]
  /\ waittime \in [Workers -> NoWait..Forever] /\ ticked \in [Workers -> BOOLEAN]
  /\ calls \in [Clients -> Nat]
  /\ needrun \in BOOLEAN /\ mgrlock \in Workers \union {Controller, Nobody}
  /\ mgr \in {"none", "loop", "done", "wait", "exited"} /\ mgrnotify \in BOOLEAN
  /\ attached \in BOOLEAN
  /\ ctl \in {"init", "starting", "running", "lock", "manager", "runner", "clear", "stopped"}
  /\ wants \subseteq Tasks /\ raced \subseteq Tasks /\ early \subseteq Tasks
  /\ expired \in BOOLEAN

NoSnap == [state |-> "Created", cancel |-> FALSE, new |-> "Created"]

(* TaskQueue_create and TaskQueue_init, with tasks just created.           *)
Init ==
  /\ inworker \in BOOLEAN
  /\ qstate = "Init"
  /\ runq = <<>> /\ doneq = <<>>
  /\ workev = "unset"
  /\ tstate = [t \in Tasks |-> "Created"] /\ cancelled = [t \in Tasks |-> FALSE]
  /\ refs = [t \in Tasks |-> 0]
  /\ pc = [p \in Threads |-> IF p \in Clients THEN "idle" ELSE "none"]
  /\ task = [p \in Threads |-> Nobody]
  /\ snap = [p \in Threads |-> NoSnap]
  /\ waittime = [w \in Workers |-> Forever] /\ ticked = [w \in Workers |-> FALSE]
  /\ calls = [c \in Clients |-> 0]
  /\ needrun = FALSE /\ mgrlock = Nobody
  /\ mgr = "none" /\ mgrnotify = FALSE /\ attached = FALSE
  /\ ctl = "init"
  /\ wants = {} /\ raced = {} /\ early = {} /\ expired = FALSE
----------------------------------------------------------------------------

Goto(p, from, to) == pc[p] = from /\ pc' = [pc EXCEPT ![p] = to]

StartCall(c) == calls[c] < MaxCalls[c] /\ calls' = [calls EXCEPT ![c] = @ + 1]

(* tqmanagerNotify(manager, !needsWorkerTick)                              *)
Notify ==
  \/ inworker /\ needrun' = (needrun \/ attached) /\ UNCHANGED <<mgrlock, mgr, mgrnotify, attached>>
  \/ ~inworker /\ mgrnotify' = TRUE /\ UNCHANGED <<needrun, mgrlock, mgr, attached>>

(* Mutant: any task may be queued.                                         *)
AllowedAny(old, new) ==
  \/ new = "Waiting"
  \/ new = "Running" /\ old = "Waiting"
  \/ new = "Succeeded" /\ old = "Running"
  \/ new = "Failed" /\ old # "Succeeded"

(* The transitions that BasicTask__setState allows for a basic task.       *)
Allowed(old, new) ==
  \/ new = "Waiting" /\ old = "Created"
  \/ new = "Running" /\ old = "Waiting"
  \/ new = "Succeeded" /\ old = "Running"
  \/ new = "Failed" /\ old # "Succeeded"

(* BasicTask__setState, up to the exchange: load the word and validate the *)
(* transition.  A task already in the new state counts as moved.           *)
SetStateLoad(p, t, new, from, okay, cas, fail) ==
  /\ pc[p] = from
  /\ \/ /\ tstate[t] = new
        /\ Goto(p, from, okay)
        /\ raced' = raced \union {t}
        /\ snap' = [snap EXCEPT ![p] = NoSnap]
     \/ /\ tstate[t] # new /\ Allowed(tstate[t], new)
        /\ Goto(p, from, cas)
        /\ snap' = [snap EXCEPT ![p] = [state |-> tstate[t], cancel |-> cancelled[t], new |-> new]]
        /\ UNCHANGED raced
     \/ /\ tstate[t] # new /\ ~Allowed(tstate[t], new)
        /\ Goto(p, from, fail)
        /\ snap' = [snap EXCEPT ![p] = NoSnap]
        /\ UNCHANGED raced
  /\ UNCHANGED <<tstate, cancelled, wants, early>>

(* Mutant: the new word has no cancelled flag.                             *)
SetStateCasDropsFlag(p, t, from, to) ==
  /\ Goto(p, from, to)
  /\ tstate' = [tstate EXCEPT ![t] = snap[p].new]
  /\ cancelled' = [cancelled EXCEPT ![t] = FALSE]
  /\ snap' = [snap EXCEPT ![p] = NoSnap]
  /\ UNCHANGED <<wants, raced, early>>

(* BasicTask__setState: the exchange is retried with the word it finds,    *)
(* but the new word, and whether to write it, come from the first load.    *)
SetStateCas(p, t, from, to) ==
  /\ Goto(p, from, to)
  /\ tstate' = [tstate EXCEPT ![t] = snap[p].new]
  /\ cancelled' = [cancelled EXCEPT ![t] = snap[p].cancel]
  /\ raced' = IF tstate[t] # snap[p].state \/ cancelled[t] # snap[p].cancel
              THEN raced \union {t} ELSE raced
  /\ snap' = [snap EXCEPT ![p] = NoSnap]
  /\ UNCHANGED <<wants, early>>
----------------------------------------------------------------------------

(* TaskQueue_add: the queue runs and the task is freshly created.          *)
Add(c) ==
  /\ StartCall(c)
  /\ qstate = "Running"
  /\ \E t \in Tasks : tstate[t] = "Created" /\ task' = [task EXCEPT ![c] = t]
  /\ Goto(c, "idle", "addload")
  /\ UNCHANGED <<inworker, qstate, workev, taskvars, queues, snap, waittime, ticked, mgrvars, control>>

AddLoad(c) ==
  /\ SetStateLoad(c, task[c], "Waiting", "addload", "addpush", "addcas", "idle")
  /\ task' = [task EXCEPT ![c] = IF pc'[c] = "idle" THEN Nobody ELSE @]
  /\ UNCHANGED <<inworker, qstate, workev, queues, loopvars, mgrvars, control>>

AddCas(c) ==
  /\ SetStateCas(c, task[c], "addcas", "addpush")
  /\ UNCHANGED <<inworker, qstate, workev, queues, task, loopvars, mgrvars, control>>

(* objAcquire and prqPush                                                  *)
AddPush(c) ==
  /\ Goto(c, "addpush", "addsignal")
  /\ refs' = [refs EXCEPT ![task[c]] = @ + 1]
  /\ runq' = Append(runq, task[c])
  /\ UNCHANGED <<inworker, qstate, workev, taskvars, doneq, task, snap, loopvars, mgrvars, control>>

(* Mutant: the workers are not told.                                       *)
AddSignalManager(c) ==
  /\ Goto(c, "addsignal", "idle")
  /\ task' = [task EXCEPT ![c] = Nobody]
  /\ Notify
  /\ UNCHANGED <<inworker, qstate, workev, taskvars, queues, snap, loopvars, control>>

(* eventSignal and tqmanagerNotify                                         *)
AddSignal(c) ==
  /\ Goto(c, "addsignal", "idle")
  /\ task' = [task EXCEPT ![c] = Nobody]
  /\ workev' = IF workev = "locked" THEN "locked" ELSE "set"
  /\ Notify
  /\ UNCHANGED <<inworker, qstate, taskvars, queues, snap, loopvars, control>>

(* BasicTask_cancel: the load, and the check of state and flag.            *)
Cancel(c) ==
  /\ StartCall(c)
  /\ \E t \in Tasks : /\ ~cancelled[t] /\ tstate[t] \notin Finished
                      /\ task' = [task EXCEPT ![c] = t]
  /\ Goto(c, "idle", "cancelcas")
  /\ UNCHANGED <<inworker, qstate, workev, taskvars, queues, snap, waittime, ticked, mgrvars, control>>

(* BasicTask_cancel: the exchange sets the flag on whatever state it finds *)
(* by then, unless someone else has set it.                                *)
CancelCas(c) ==
  /\ Goto(c, "cancelcas", "idle")
  /\ task' = [task EXCEPT ![c] = Nobody]
  /\ cancelled' = [cancelled EXCEPT ![task[c]] = TRUE]
  /\ wants' = IF cancelled[task[c]] THEN wants ELSE wants \union {task[c]}
  /\ UNCHANGED <<inworker, qstate, workev, tstate, raced, early, queues, snap, loopvars, mgrvars, control>>

(* BasicTask_reset: one exchange, validated against the word it replaces.  *)
Reset(c) ==
  /\ StartCall(c)
  /\ pc[c] = "idle"
  /\ \E t \in Tasks :
       /\ tstate[t] \in Finished
       /\ tstate' = [tstate EXCEPT ![t] = "Created"]
       /\ cancelled' = [cancelled EXCEPT ![t] = FALSE]
       /\ wants' = wants \ {t}
       /\ early' = IF refs[t] > 0 THEN early \union {t} ELSE early
  /\ UNCHANGED <<inworker, qstate, workev, raced, queues, pc, task, snap, waittime, ticked, mgrvars, control>>
----------------------------------------------------------------------------

(* tqWorkerThread: the head of the loop.                                   *)
WorkerLoop(w) ==
  /\ \/ qstate = "Running" /\ Goto(w, "loop", IF inworker THEN "pretask" ELSE "pop")
     \/ qstate = "Starting" /\ Goto(w, "loop", "park")
     \/ qstate = "Stopping" /\ Goto(w, "loop", "stopped")
  /\ UNCHANGED <<inworker, qstate, workev, taskvars, queues, task, snap, loopvars, mgrvars, control>>

(* TQInWorkerManager_pretask: the pool is sized under mgrlock, if free.    *)
WorkerPretask(w) ==
  /\ \/ mgrlock = Nobody /\ mgrlock' = w /\ Goto(w, "pretask", "resize")
     \/ mgrlock # Nobody /\ Goto(w, "pretask", "pop") /\ UNCHANGED mgrlock
  /\ UNCHANGED <<inworker, qstate, workev, taskvars, queues, task, snap, loopvars,
                 needrun, mgr, mgrnotify, attached, control>>

WorkerPretaskUnlock(w) ==
  /\ Goto(w, "resize", "pop")
  /\ mgrlock' = Nobody
  /\ UNCHANGED <<inworker, qstate, workev, taskvars, queues, task, snap, loopvars,
                 needrun, mgr, mgrnotify, attached, control>>

(* eventWaitTimeout(&tq->workev, maxwait)                                  *)
WorkerWait(w) ==
  /\ Goto(w, "wait", "loop") \/ Goto(w, "park", "loop")
  /\ workev # "unset"
  /\ workev' = IF workev = "locked" THEN "locked" ELSE "unset"
  /\ UNCHANGED <<inworker, qstate, taskvars, queues, task, snap, loopvars, mgrvars, control>>

(* The wait is over after MAX_MANAGER_INTERVAL, if that is its bound.      *)
WorkerWaitEnds(w) ==
  /\ Goto(w, "wait", "loop")
  /\ UNCHANGED <<inworker, qstate, workev, taskvars, queues, task, snap, loopvars, mgrvars, control>>

(* The end of TQThreadWorker_tick: go round again, or wait that long.      *)
EndTick(w, from, wait) ==
  /\ Goto(w, from, CASE wait = NoWait -> "loop" [] wait = Interval -> "wait" [] OTHER -> "park")
  /\ waittime' = [waittime EXCEPT ![w] = Forever] /\ ticked' = [ticked EXCEPT ![w] = FALSE]

(* TQThreadWorker_tick: take a task; or, if there was none at all, let the *)
(* manager run once; or finish the tick.                                   *)
WorkerPop(w) ==
  /\ \/ /\ runq # <<>>
        /\ Goto(w, "pop", "load")
        /\ task' = [task EXCEPT ![w] = Head(runq)]
        /\ runq' = Tail(runq)
        /\ ticked' = [ticked EXCEPT ![w] = inworker]
        /\ UNCHANGED waittime
     \/ /\ runq = <<>> /\ inworker /\ ~ticked[w]
        /\ Goto(w, "pop", "tick")
        /\ UNCHANGED <<runq, task, waittime, ticked>>
     \/ /\ runq = <<>> /\ (inworker => ticked[w])
        /\ EndTick(w, "pop", waittime[w])
        /\ UNCHANGED <<runq, task>>
  /\ UNCHANGED <<inworker, qstate, workev, taskvars, doneq, refs, snap, calls, mgrvars, control>>

(* TaskQueue__runTask: move to Running ...                                 *)
WorkerRunLoad(w) ==
  /\ SetStateLoad(w, task[w], "Running", "load", "run", "cas", "drop")
  /\ UNCHANGED <<inworker, qstate, workev, queues, task, loopvars, mgrvars, control>>

WorkerRunCas(w) ==
  /\ SetStateCas(w, task[w], "cas", "run")
  /\ UNCHANGED <<inworker, qstate, workev, queues, task, loopvars, mgrvars, control>>

(* ... or, if that is not allowed, fail the task and let go of it ...      *)
WorkerFailLoad(w) ==
  /\ SetStateLoad(w, task[w], "Failed", "drop", "release", "dropcas", "release")
  /\ UNCHANGED <<inworker, qstate, workev, queues, task, loopvars, mgrvars, control>>

WorkerFailCas(w) ==
  /\ SetStateCas(w, task[w], "dropcas", "release")
  /\ UNCHANGED <<inworker, qstate, workev, queues, task, loopvars, mgrvars, control>>

(* Mutant: the reference of a task that may not run is kept.               *)
WorkerForget(w) ==
  /\ Goto(w, "release", IF inworker THEN "tick" ELSE "pop")
  /\ task' = [task EXCEPT ![w] = Nobody]
  /\ UNCHANGED <<inworker, qstate, workev, taskvars, queues, snap, loopvars, mgrvars, control>>

WorkerRelease(w) ==
  /\ Goto(w, "release", IF inworker THEN "tick" ELSE "pop")
  /\ refs' = [refs EXCEPT ![task[w]] = @ - 1]
  /\ task' = [task EXCEPT ![w] = Nobody]
  /\ UNCHANGED <<inworker, qstate, workev, taskvars, runq, doneq, snap, loopvars, mgrvars, control>>

(* ... run it, with one result or the other, unless it is cancelled ...    *)
WorkerRun(w) ==
  /\ Goto(w, "run", "resload")
  /\ \E r \in Finished :
       /\ cancelled[task[w]] => r = "Failed"
       /\ snap' = [snap EXCEPT ![w].new = r]
  /\ UNCHANGED <<inworker, qstate, workev, taskvars, queues, task, loopvars, mgrvars, control>>

(* ... and record the result.                                              *)
WorkerResultLoad(w) ==
  /\ SetStateLoad(w, task[w], snap[w].new, "resload", "pushdone", "rescas", "pushdone")
  /\ UNCHANGED <<inworker, qstate, workev, queues, task, loopvars, mgrvars, control>>

WorkerResultCas(w) ==
  /\ SetStateCas(w, task[w], "rescas", "pushdone")
  /\ UNCHANGED <<inworker, qstate, workev, queues, task, loopvars, mgrvars, control>>

(* The task goes to the done queue ...                                     *)
WorkerPushDone(w) ==
  /\ Goto(w, "pushdone", "notify")
  /\ doneq' = Append(doneq, task[w])
  /\ task' = [task EXCEPT ![w] = Nobody]
  /\ UNCHANGED <<inworker, qstate, workev, taskvars, runq, refs, snap, loopvars, mgrvars, control>>

(* ... and the manager is told.                                            *)
WorkerNotify(w) ==
  /\ Goto(w, "notify", IF inworker THEN "tick" ELSE "pop")
  /\ Notify
  /\ UNCHANGED <<inworker, qstate, workev, taskvars, queues, task, snap, loopvars, control>>

(* TQInWorkerManager_tick: the manager runs if its lock is free, and has   *)
(* no reason to be run again; otherwise it is, after MAX_MANAGER_INTERVAL. *)
WorkerTick(w) ==
  /\ \/ /\ mgrlock = Nobody
        /\ mgrlock' = w
        /\ Goto(w, "tick", IF attached THEN "clear" ELSE "done")
     \/ mgrlock # Nobody /\ Goto(w, "tick", "tickcheck") /\ UNCHANGED mgrlock
  /\ waittime' = IF (mgrlock = Nobody /\ attached) \/ waittime[w] = NoWait
                 THEN waittime ELSE [waittime EXCEPT ![w] = Interval]
  /\ UNCHANGED <<inworker, qstate, workev, taskvars, queues, task, snap, ticked, calls,
                 needrun, mgr, mgrnotify, attached, control>>

WorkerTickClear(w) ==
  /\ Goto(w, "clear", "done")
  /\ needrun' = FALSE
  /\ UNCHANGED <<inworker, qstate, workev, taskvars, queues, task, snap, loopvars,
                 mgrlock, mgr, mgrnotify, attached, control>>

(* TaskQueue__processDone, one task of it.                                 *)
ReleaseDone ==
  /\ doneq # <<>>
  /\ doneq' = Tail(doneq)
  /\ refs' = [refs EXCEPT ![Head(doneq)] = @ - 1]
  /\ UNCHANGED runq

WorkerProcessDone(w) ==
  /\ pc[w] = "done" /\ attached
  /\ ReleaseDone
  /\ UNCHANGED <<inworker, qstate, workev, taskvars, pc, task, snap, loopvars, mgrvars, control>>

(* The done queue is empty: what is left of the tick is updatePoolSize.    *)
WorkerProcessed(w) ==
  /\ attached => doneq = <<>>
  /\ Goto(w, "done", "unlock")
  /\ UNCHANGED <<inworker, qstate, workev, taskvars, queues, task, snap, loopvars, mgrvars, control>>

WorkerTickUnlock(w) ==
  /\ Goto(w, "unlock", "tickcheck")
  /\ mgrlock' = Nobody
  /\ UNCHANGED <<inworker, qstate, workev, taskvars, queues, task, snap, loopvars,
                 needrun, mgr, mgrnotify, attached, control>>

(* Mutant: nobody looks whether the manager was needed in the meantime.    *)
WorkerTickNoCheck(w) ==
  /\ \/ ticked[w] /\ Goto(w, "tickcheck", "pop") /\ UNCHANGED <<waittime, ticked>>
     \/ ~ticked[w] /\ EndTick(w, "tickcheck", waittime[w])
  /\ UNCHANGED <<inworker, qstate, workev, taskvars, queues, task, snap, calls, mgrvars, control>>

(* If the manager was needed in the meantime, do not wait.  After a task   *)
(* the worker looks for the next; a tick that had no task ends here, with  *)
(* no further look at the run queue.                                       *)
WorkerTickCheck(w) ==
  /\ \/ /\ ticked[w]
        /\ Goto(w, "tickcheck", "pop")
        /\ waittime' = IF needrun THEN [waittime EXCEPT ![w] = NoWait] ELSE waittime
        /\ UNCHANGED ticked
     \/ ~ticked[w] /\ EndTick(w, "tickcheck", IF needrun THEN NoWait ELSE waittime[w])
  /\ UNCHANGED <<inworker, qstate, workev, taskvars, queues, task, snap, calls, mgrvars, control>>
----------------------------------------------------------------------------

(* tqManagerThread: the head of the loop; the controller's thrRequestExit  *)
(* comes after the state has left Running.                                 *)
ManagerLoop ==
  /\ mgr = "loop"
  /\ mgr' = CASE qstate = "Running" -> "done" [] qstate = "Starting" -> "wait" [] OTHER -> "exited"
  /\ UNCHANGED <<inworker, qstate, workev, taskvars, queues, pc, task, snap, loopvars,
                 needrun, mgrlock, mgrnotify, attached, control>>

ManagerProcessDone ==
  /\ mgr = "done"
  /\ ReleaseDone
  /\ UNCHANGED <<inworker, qstate, workev, taskvars, pc, task, snap, loopvars, mgrvars, control>>

ManagerTickEnds ==
  /\ mgr = "done" /\ doneq = <<>>
  /\ mgr' = "wait"
  /\ UNCHANGED <<inworker, qstate, workev, taskvars, queues, pc, task, snap, loopvars,
                 needrun, mgrlock, mgrnotify, attached, control>>

ManagerWait ==
  /\ mgr = "wait" /\ mgrnotify
  /\ mgr' = "loop" /\ mgrnotify' = FALSE
  /\ UNCHANGED <<inworker, qstate, workev, taskvars, queues, pc, task, snap, loopvars,
                 needrun, mgrlock, attached, control>>

(* MAX_MANAGER_INTERVAL has passed.                                        *)
ManagerWaitEnds ==
  /\ mgr = "wait"
  /\ mgr' = "loop"
  /\ UNCHANGED <<inworker, qstate, workev, taskvars, queues, pc, task, snap, loopvars,
                 needrun, mgrlock, mgrnotify, attached, control>>
----------------------------------------------------------------------------

(* TaskQueue_start: reset the event and start the workers and the manager. *)
Start ==
  /\ ctl = "init" /\ ctl' = "starting"
  /\ qstate' = "Starting"
  /\ workev' = "unset"
  /\ pc' = [p \in Threads |-> IF p \in Workers THEN "loop" ELSE pc[p]]
  /\ attached' = TRUE
  /\ mgr' = IF inworker THEN mgr ELSE "loop"
  /\ UNCHANGED <<inworker, taskvars, queues, task, snap, loopvars, needrun, mgrlock, mgrnotify, expired>>

StartDone ==
  /\ ctl = "starting" /\ ctl' = "running"
  /\ qstate' = "Running"
  /\ UNCHANGED <<inworker, workev, taskvars, queues, pc, task, snap, loopvars, mgrvars, expired>>

(* TaskQueue_stop: the state changes first ...                             *)
Stop ==
  /\ ctl = "running" /\ ctl' = "lock"
  /\ qstate' = "Stopping"
  /\ UNCHANGED <<inworker, workev, taskvars, queues, pc, task, snap, loopvars, mgrvars, expired>>

(* Mutant: the event is signaled once.                                     *)
StopSignal ==
  /\ ctl = "lock" /\ ctl' = "manager"
  /\ workev' = "set"
  /\ mgrnotify' = (mgrnotify \/ ~inworker)
  /\ UNCHANGED <<inworker, qstate, taskvars, queues, pc, task, snap, loopvars,
                 needrun, mgrlock, mgr, attached, expired>>

(* ... then the event is locked, and the manager's thread told to exit ... *)
StopLock ==
  /\ ctl = "lock" /\ ctl' = "manager"
  /\ workev' = "locked"
  /\ mgrnotify' = (mgrnotify \/ ~inworker)
  /\ UNCHANGED <<inworker, qstate, taskvars, queues, pc, task, snap, loopvars,
                 needrun, mgrlock, mgr, attached, expired>>

(* ... the manager is stopped, when its thread has exited or when no       *)
(* worker is inside it ...                                                 *)
StopManager ==
  /\ ctl = "manager" /\ ctl' = "runner"
  /\ IF inworker THEN mgrlock = Nobody ELSE mgr = "exited"
  /\ attached' = FALSE
  /\ UNCHANGED <<inworker, qstate, workev, taskvars, queues, pc, task, snap, loopvars,
                 needrun, mgrlock, mgr, mgrnotify, expired>>

(* ... or 10 seconds have passed ...                                       *)
StopManagerExpires ==
  /\ ctl = "manager" /\ ctl' = "runner"
  /\ ~inworker /\ mgr # "exited"
  /\ expired' = TRUE
  /\ UNCHANGED <<inworker, qstate, workev, taskvars, queues, pc, task, snap, loopvars, mgrvars>>

(* Mutant: the workers are not waited for.                                 *)
StopRunnerNoWait ==
  /\ ctl = "runner" /\ ctl' = "clear"
  /\ UNCHANGED <<inworker, qstate, workev, taskvars, queues, pc, task, snap, loopvars, mgrvars, expired>>

(* ... every worker has shut down ...                                      *)
StopRunner ==
  /\ ctl = "runner" /\ ctl' = "clear"
  /\ \A w \in Workers : pc[w] = "stopped"
  /\ UNCHANGED <<inworker, qstate, workev, taskvars, queues, pc, task, snap, loopvars, mgrvars, expired>>

(* ... or 15 seconds have passed ...                                       *)
StopRunnerExpires ==
  /\ ctl = "runner" /\ ctl' = "clear"
  /\ \E w \in Workers : pc[w] # "stopped"
  /\ expired' = TRUE
  /\ UNCHANGED <<inworker, qstate, workev, taskvars, queues, pc, task, snap, loopvars, mgrvars>>

(* ... and TaskQueue__clear lets go of what is left, task by task.         *)
StopClear ==
  /\ ctl = "clear"
  /\ \/ /\ runq # <<>>
        /\ runq' = Tail(runq)
        /\ refs' = [refs EXCEPT ![Head(runq)] = @ - 1]
        /\ UNCHANGED doneq
     \/ runq = <<>> /\ ReleaseDone
  /\ UNCHANGED <<inworker, qstate, workev, taskvars, pc, task, snap, loopvars, mgrvars, control>>

StopDone ==
  /\ ctl = "clear" /\ ctl' = "stopped"
  /\ runq = <<>> /\ doneq = <<>>
  /\ UNCHANGED <<inworker, qstate, workev, taskvars, queues, pc, task, snap, loopvars, mgrvars, expired>>
----------------------------------------------------------------------------

ClientStep(c) ==
  AddLoad(c) \/ AddCas(c) \/ AddPush(c) \/ AddSignal(c) \/ CancelCas(c)

WorkerStep(w) ==
  \/ WorkerLoop(w) \/ WorkerPretask(w) \/ WorkerPretaskUnlock(w) \/ WorkerWait(w) \/ WorkerPop(w)
  \/ WorkerRunLoad(w) \/ WorkerRunCas(w) \/ WorkerFailLoad(w) \/ WorkerFailCas(w) \/ WorkerRelease(w) \/ WorkerRun(w)
  \/ WorkerResultLoad(w) \/ WorkerResultCas(w) \/ WorkerPushDone(w) \/ WorkerNotify(w)
  \/ WorkerTick(w) \/ WorkerTickClear(w) \/ WorkerProcessDone(w)
  \/ WorkerProcessed(w) \/ WorkerTickUnlock(w) \/ WorkerTickCheck(w)

ManagerStep == ManagerLoop \/ ManagerProcessDone \/ ManagerTickEnds \/ ManagerWait

ControlStep == StartDone \/ StopLock \/ StopManager \/ StopRunner \/ StopClear \/ StopDone

(* The calls that the program makes, and the clock.                        *)
Environment ==
  \/ \E c \in Clients : Add(c) \/ Cancel(c) \/ Reset(c)
  \/ \E w \in Workers : WorkerWaitEnds(w)
  \/ ManagerWaitEnds \/ StopManagerExpires \/ StopRunnerExpires
  \/ Start \/ Stop

Next ==
  \/ \E c \in Clients : ClientStep(c)
  \/ \E w \in Workers : WorkerStep(w)
  \/ ManagerStep \/ ControlStep \/ Environment

Spec == Init /\ [][Next]_vars

(* Every thread inside an operation is scheduled, and run() returns.       *)
FairSpec ==
  /\ Spec
  /\ \A c \in Clients : WF_vars(ClientStep(c))
  /\ \A w \in Workers : WF_vars(WorkerStep(w))
  /\ WF_vars(ManagerStep) /\ WF_vars(ControlStep)
----------------------------------------------------------------------------

Count(s, t) == Cardinality({i \in DOMAIN s : s[i] = t})

Holders(t) == {w \in Workers : task[w] = t}

(* The queue owns one reference to a task for each place it keeps it in:   *)
(* the run queue, the done queue and the hands of a worker.  Nothing is    *)
(* released twice and nothing is forgotten, whatever races there are.      *)
RefsExact == \A t \in Tasks : refs[t] = Count(runq, t) + Count(doneq, t) + Cardinality(Holders(t))

(* A task is on its way to the run queue, in it, or with the worker that   *)
(* runs it, and once only, so that no two workers run it at the same time, *)
(* unless setState has gone wrong on it.  (A worker that has recorded the  *)
(* result is only about to put it on the done queue.)                      *)
OnePlace ==
  \A t \in Tasks \ raced :
    Count(runq, t) + Cardinality({w \in Holders(t) : pc[w] # "pushdone"})
      + Cardinality({c \in Clients : task[c] = t /\ pc[c] = "addpush"}) <= 1

(* "The task will be marked cancelled" (taskqueue.h) once taskCancel has   *)
(* returned true, until it is reset.                                       *)
CancelSticks == \A t \in wants : cancelled[t]

(* The same, unless setState has gone wrong on the task.                   *)
CancelSticksUnlessRaced == \A t \in wants \ raced : cancelled[t]

(* What comes off the done queue is finished (the devAssert of             *)
(* TaskQueue__processDone), unless it was reset before the queue let go.   *)
DoneIsFinished ==
  \A t \in Tasks \ (early \union raced) : Count(doneq, t) > 0 => tstate[t] \in Finished

(* Finished tasks do not lie about: while there are some, the manager is   *)
(* at work or told to be, so that they are released without waiting for    *)
(* MAX_MANAGER_INTERVAL.  If the workers run the manager, the one that     *)
(* finds mgrlock taken leaves a needrun that someone acts on before all of *)
(* them wait.  And what they release is finished.                          *)
DoneIsAttended ==
  /\ DoneIsFinished
  /\ qstate = "Running" /\ doneq # <<>> =>
       IF inworker THEN \E w \in Workers : pc[w] \notin {"wait", "park"}
       ELSE mgr # "wait" \/ mgrnotify \/ \E w \in Workers : pc[w] = "notify"

(* The workers and the manager leave nothing behind: after stop returns,   *)
(* unless it ran out of patience, all that the queue may still keep was    *)
(* pushed by an add that it overtook.                                      *)
StopReleases ==
  ctl = "stopped" /\ ~expired =>
    /\ doneq = <<>>
    /\ \A w \in Workers : task[w] = Nobody

(* Queued tasks are taken by the workers once clients stop adding, or stop *)
(* gets under way: no signal is missed between a worker's last look at the *)
(* run queue and its wait, the manager tick that may lie between included. *)
QueueDrains == (runq # <<>>) ~> (runq = <<>> \/ qstate = "Stopping")

(* A stop that has begun comes to its end.                                 *)
StopReturns == (ctl = "lock") ~> (ctl = "stopped")
============================================================================
