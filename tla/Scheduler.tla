------------------------------ MODULE Scheduler ------------------------------
(***************************************************************************)
(* The threads of the archiver for one worker group: scheduler.rs (run,    *)
(* the two producers and the two worker threads), the receive loops of     *)
(* Worker::consumme_list in nntp_worker.rs and pi_worker.rs, and the       *)
(* Ctrl+C flag of main.rs.                                                 *)
(*                                                                         *)
(* In normal mode ("consume") the tasks on the channel are lists; in range *)
(* mode ("range") they are pairs of a list and an e-mail index, in the     *)
(* order the producer walks them.  A setting, which the configuration      *)
(* fixes for the whole run, says which mode it is, whether the producer    *)
(* rescans, and for each message of one sweep the list it is about.        *)
(*                                                                         *)
(* Simplifications: what a worker does with a list is one step of unknown  *)
(* duration; sleeps are left out except for the producer's rescan pause,   *)
(* which ends by itself or at a shutdown.  The producer of range mode      *)
(* reads the flag once per list, before the first index of that list.      *)
(***************************************************************************)
EXTENDS Naturals, Sequences, FiniteSets

CONSTANTS
    Workers,      \* worker threads of the group
    Settings,     \* the configurations to run with
    Capacity,     \* CHANNEL_CAPACITY, 10 in the code
    MaxDeaths     \* workers that may fail for good (bound)

IsSetting(s) ==
    /\ DOMAIN s = {"mode", "loopGroups", "tasks"}
    /\ s.mode \in {"consume", "range"}
    /\ s.loopGroups \in BOOLEAN
    /\ s.tasks \in Seq(STRING) \ {<<>>}

ASSUME SchedulerAssumption ==
    /\ \A s \in Settings : IsSetting(s)
    /\ Capacity \in Nat \ {0}
    /\ MaxDeaths \in Nat

VARIABLES
    setting,   \* the configuration, never changed
    main,      \* "spawn", "join", "done": the main thread in run()
    producer,  \* "unborn", "check", "send", "sleep", "done"
    next,      \* the message the producer sends next
    channel,   \* messages (indexes of Tasks) in the bounded channel
    wpc,       \* per worker: "unborn", "check", "recv", "work",
               \*   "done" (returned Ok), "failed" (Err), "panicked"
    task,      \* per worker: the message it works on, 0 if none
    broken,    \* per worker: needs_reconnection
    shutdown,  \* the flag
    started,   \* history: how often each message was begun, 2 means more
    late       \* history: per worker, messages begun after Ctrl+C, 2 means more

vars == <<setting, main, producer, next, channel, wpc, task, broken,
          shutdown, started, late>>

Mode  == setting.mode
Tasks == setting.tasks

Messages == DOMAIN Tasks
ListOf(m) == Tasks[m]

Ended == {"done", "failed", "panicked"}
Alive(w) == wpc[w] \notin Ended
Dead == {w \in Workers : wpc[w] \in {"failed", "panicked"}}
Spawned(w) == wpc[w] # "unborn"

\* Faulty variant: run() holds on to its receiver.
ReceiverKept == TRUE

\* run() keeps a receiver of its own until all workers are spawned.
Connected == main = "spawn" \/ \E w \in Workers : Alive(w)
SenderDropped == producer = "done"

Saturate(n) == IF n >= 2 THEN 2 ELSE n + 1

Loops == setting.loopGroups /\ Mode = "consume"

\* Where a worker thread begins, and where it is again after each task.
TopOfLoop == IF Mode = "consume" THEN "check" ELSE "recv"

\* The range producer checks the flag only where a new list begins.
FirstOfList(m) == m = 1 \/ Tasks[m] # Tasks[m - 1]

-----------------------------------------------------------------------------
Init ==
    /\ setting \in Settings
    /\ main = "spawn"
    /\ producer = "unborn" /\ next = 1
    /\ channel = <<>>
    /\ wpc = [w \in Workers |-> "unborn"]
    /\ task = [w \in Workers |-> 0]
    /\ broken = [w \in Workers |-> FALSE]
    /\ shutdown = FALSE
    /\ started = [m \in Messages |-> 0]
    /\ late = [w \in Workers |-> 0]

\* Ctrl+C
RequestShutdown ==
    /\ ~shutdown /\ main # "done"
    /\ shutdown' = TRUE
    /\ UNCHANGED <<main, producer, next, channel, wpc, task, broken, started, late>>

(* run(): the main thread *)

SpawnWorker(w) ==
    /\ main = "spawn"
    /\ wpc[w] = "unborn"
    /\ wpc' = [wpc EXCEPT ![w] = TopOfLoop]
    /\ UNCHANGED <<main, producer, next, channel, task, broken, shutdown, started, late>>

SpawnProducer ==
    /\ main = "spawn"
    /\ \A w \in Workers : Spawned(w)
    /\ main' = "join"
    /\ producer' = "check"
    /\ UNCHANGED <<next, channel, wpc, task, broken, shutdown, started, late>>

\* A failed join (a panic) is logged; run() returns Ok in any case.
JoinAll ==
    /\ main = "join"
    /\ producer = "done"
    /\ \A w \in Workers : wpc[w] \in Ended
    /\ main' = "done"
    /\ UNCHANGED <<producer, next, channel, wpc, task, broken, shutdown, started, late>>

(* The producer thread *)

\* Normal mode: at the top of a sweep.  Range mode: before each list.
ProducerCheck ==
    /\ producer = "check"
    /\ producer' = IF shutdown THEN "done" ELSE "send"
    /\ UNCHANGED <<main, next, channel, wpc, task, broken, shutdown, started, late>>

\* Faulty variant: the end of a sweep is not noticed.
AfterSendPastEnd(m) ==
    IF m > Len(Tasks) THEN "done" ELSE "send"

\* Faulty variant: the producer rescans in every mode.
AfterSendAlwaysLooping(m) == IF m = Len(Tasks) THEN "sleep" ELSE "send"

\* What follows a send: the next message, the check of the next list, or
\* the end of the sweep.
AfterSend(m) ==
    IF m = Len(Tasks) THEN IF Loops THEN "sleep" ELSE "done"
    ELSE IF Mode = "range" /\ FirstOfList(m + 1) THEN "check" ELSE "send"

Send ==
    /\ producer = "send"
    /\ Connected
    /\ Len(channel) < Capacity
    /\ channel' = Append(channel, next)
    /\ next' = next + 1
    /\ producer' = AfterSend(next)
    /\ UNCHANGED <<main, wpc, task, broken, shutdown, started, late>>

\* send() fails once every receiver is gone, also while it blocks.
SendFails ==
    /\ producer = "send"
    /\ ~Connected
    /\ producer' = "done"
    /\ UNCHANGED <<main, next, channel, wpc, task, broken, shutdown, started, late>>

\* The rescan interval is over, or the flag ended it: a new sweep begins.
Rescan ==
    /\ producer = "sleep"
    /\ producer' = "check"
    /\ next' = 1
    /\ UNCHANGED <<main, channel, wpc, task, broken, shutdown, started, late>>

(* The worker threads *)

\* Faulty variant: the flag is not read between two lists.
WorkerIgnoresFlag(w) ==
    /\ wpc[w] = "check"
    /\ wpc' = [wpc EXCEPT ![w] = "recv"]
    /\ broken' = [broken EXCEPT ![w] = FALSE]
    /\ UNCHANGED <<main, producer, next, channel, task, shutdown, started, late>>

\* The flag is read first; then a broken connection is made anew.
WorkerCheck(w) ==
    /\ wpc[w] = "check"
    /\ wpc' = [wpc EXCEPT ![w] = IF shutdown THEN "done" ELSE "recv"]
    /\ broken' = [broken EXCEPT ![w] = broken[w] /\ shutdown]
    /\ UNCHANGED <<main, producer, next, channel, task, shutdown, started, late>>

\* recv() returns a message even when the sender is gone already.
Recv(w) ==
    /\ wpc[w] = "recv"
    /\ channel # <<>>
    /\ channel' = Tail(channel)
    /\ task' = [task EXCEPT ![w] = Head(channel)]
    /\ wpc' = [wpc EXCEPT ![w] = "work"]
    /\ started' = [started EXCEPT ![Head(channel)] = Saturate(@)]
    /\ late' = IF shutdown THEN [late EXCEPT ![w] = Saturate(@)] ELSE late
    /\ UNCHANGED <<main, producer, next, broken, shutdown>>

\* Faulty variant: a dropped sender ends the worker, queued messages or not.
RecvDisconnected(w) ==
    /\ wpc[w] = "recv"
    /\ SenderDropped
    /\ wpc' = [wpc EXCEPT ![w] = "done"]
    /\ UNCHANGED <<main, producer, next, channel, task, broken, shutdown, started, late>>

RecvClosed(w) ==
    /\ wpc[w] = "recv"
    /\ channel = <<>> /\ SenderDropped
    /\ wpc' = [wpc EXCEPT ![w] = "done"]
    /\ UNCHANGED <<main, producer, next, channel, task, broken, shutdown, started, late>>

\* The list (or the index) is finished; an error is logged, and in normal
\* mode an NNTP worker drops its connection.
FinishTask(w) ==
    /\ wpc[w] = "work"
    /\ wpc' = [wpc EXCEPT ![w] = TopOfLoop]
    /\ task' = [task EXCEPT ![w] = 0]
    /\ \/ UNCHANGED broken
       \/ Mode = "consume" /\ broken' = [broken EXCEPT ![w] = TRUE]
    /\ UNCHANGED <<main, producer, next, channel, shutdown, started, late>>

\* re_connect fails: consumme_list returns an error.
ReconnectFails(w) ==
    /\ wpc[w] = "check" /\ ~shutdown /\ broken[w]
    /\ Cardinality(Dead) < MaxDeaths
    /\ wpc' = [wpc EXCEPT ![w] = "failed"]
    /\ UNCHANGED <<main, producer, next, channel, task, broken, shutdown, started, late>>

\* An unwrap or expect unwinds the thread while it works on a message.
Panic(w) ==
    /\ wpc[w] = "work"
    /\ Cardinality(Dead) < MaxDeaths
    /\ wpc' = [wpc EXCEPT ![w] = "panicked"]
    /\ task' = [task EXCEPT ![w] = 0]
    /\ UNCHANGED <<main, producer, next, channel, broken, shutdown, started, late>>

-----------------------------------------------------------------------------
MainStep == (\E w \in Workers : SpawnWorker(w)) \/ SpawnProducer \/ JoinAll

ProducerStep == ProducerCheck \/ Send \/ SendFails \/ Rescan

WorkerStep(w) == WorkerCheck(w) \/ Recv(w) \/ RecvClosed(w) \/ FinishTask(w)

Disturbance ==
    \/ RequestShutdown
    \/ \E w \in Workers : ReconnectFails(w) \/ Panic(w)

\* All threads are joined and the program is over.
Terminated == main = "done" /\ UNCHANGED vars

Step ==
    \/ MainStep \/ ProducerStep \/ (\E w \in Workers : WorkerStep(w))
    \/ Disturbance \/ Terminated

Next == Step /\ UNCHANGED setting

Spec == Init /\ [][Next]_vars

\* Every thread keeps running; a message and a rescan pause take finite time.
Fairness ==
    /\ WF_vars(MainStep /\ UNCHANGED setting)
    /\ WF_vars(ProducerStep /\ UNCHANGED setting)
    /\ \A w \in Workers : WF_vars(WorkerStep(w) /\ UNCHANGED setting)

FairSpec == Spec /\ Fairness

-----------------------------------------------------------------------------
(* Properties *)

\* The variables keep their types; no index beyond the sweep is sent.
TypeOK ==
    /\ setting \in Settings
    /\ main \in {"spawn", "join", "done"}
    /\ producer \in {"unborn", "check", "send", "sleep", "done"}
    /\ next \in 1 .. Len(Tasks) + 1
    /\ channel \in Seq(Messages)
    /\ wpc \in [Workers -> {"unborn", "check", "recv", "work"} \cup Ended]
    /\ task \in [Workers -> Messages \cup {0}]
    /\ broken \in [Workers -> BOOLEAN]
    /\ shutdown \in BOOLEAN
    /\ started \in [Messages -> 0 .. 2]
    /\ late \in [Workers -> 0 .. 2]

\* Without rescans (loop_groups off, or range mode) no message reaches two
\* workers, or one worker twice.
AtMostOnce == ~Loops => \A m \in Messages : started[m] <= 1

\* A run that ends by itself has begun every message, also when workers die
\* and the sender is dropped with messages in the channel, unless all its
\* workers are gone.
AllStarted ==
    main = "done" /\ ~shutdown =>
        \/ \A m \in Messages : started[m] >= 1
        \/ Workers = Dead

\* The lists two workers are at work on are different ones: the README's
\* "each worker writes to a distinct output path per list".
ListsApart ==
    \A v, w \in Workers :
        v # w /\ wpc[v] = "work" /\ wpc[w] = "work"
            => ListOf(task[v]) # ListOf(task[w])

\* ... which is so in normal mode without rescans, when no list is named
\* twice; a rescan and range mode break it.
OneWorkerPerList == Mode = "consume" /\ ~Loops => ListsApart

\* After Ctrl+C a worker of normal mode begins at most the one list it was
\* waiting for, as the flag is read before every other recv().  (The loop of
\* range mode does not read the flag.)
LateWorkBounded == Mode = "consume" => \A w \in Workers : late[w] <= 1

\* Ctrl+C ends the program: no thread waits on the channel for ever, wherever
\* each of them is when the flag is set and whichever workers have died.
ShutdownTerminates == shutdown ~> main = "done"

\* Without rescans the program ends by itself, also if all workers die while
\* the producer waits for room in the channel.
OneShotTerminates == ~Loops => <>(main = "done")

=============================================================================
