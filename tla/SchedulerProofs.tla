--------------------------- MODULE SchedulerProofs ---------------------------
(***************************************************************************)
(* The safety properties of Scheduler, for any number of workers, any      *)
(* settings, channel capacity and number of failures.                      *)
(*                                                                         *)
(* Once and None follow a message from the producer's counter through the  *)
(* channel to the worker: what is behind the counter is in the channel or  *)
(* begun, and in a single sweep never both, and never twice.               *)
(***************************************************************************)
EXTENDS Scheduler, SequenceTheorems, TLAPS

\* The producer is inside the sweep as long as it has something to send, and
\* born after the last worker.
NextInSweep ==
    /\ producer \in {"unborn", "check", "send"} => next <= Len(Tasks)
    /\ main = "spawn" => producer = "unborn"

TypeInv == TypeOK /\ NextInSweep

\* A worker that has begun a list after Ctrl+C is not waiting for another.
LateInv ==
    Mode = "consume" =>
        \A w \in Workers :
            /\ late[w] <= 1
            /\ late[w] = 1 => shutdown /\ wpc[w] \notin {"unborn", "recv"}

\* In a single sweep a message is not sent yet, or queued once, or begun once.
Once ==
    ~Loops =>
        /\ producer # "sleep"
        /\ \A i \in DOMAIN channel : channel[i] < next /\ started[channel[i]] = 0
        /\ \A i, j \in DOMAIN channel : i # j => channel[i] # channel[j]
        /\ \A m \in Messages : started[m] <= 1 /\ (m >= next => started[m] = 0)

\* ... and it is with the one worker that took it.
Owned ==
    /\ \A w \in Workers : wpc[w] = "work" => task[w] # 0
    /\ ~Loops => /\ \A w \in Workers : task[w] # 0 => started[task[w]] > 0
                 /\ \A v, w \in Workers : v # w /\ task[v] # 0 => task[v] # task[w]

AllDead == \A w \in Workers : wpc[w] \in {"failed", "panicked"}

\* Nothing behind the producer's counter is forgotten, and before Ctrl+C a
\* worker returns only when nothing is left to send or to receive.
None ==
    /\ \A m \in Messages : m < next =>
          started[m] >= 1 \/ \E i \in DOMAIN channel : channel[i] = m
    /\ ~shutdown /\ producer = "done" => next = Len(Tasks) + 1 \/ AllDead
    /\ ~shutdown => \A w \in Workers :
          wpc[w] = "done" => producer = "done" /\ channel = <<>>
    /\ main = "done" => producer = "done" /\ \A w \in Workers : wpc[w] \in Ended

-----------------------------------------------------------------------------
\* A sweep has messages, numbered from 1.
LEMMA SweepOfMessages ==
    ASSUME setting \in Settings
    PROVE  /\ Len(Tasks) \in Nat \ {0}
           /\ Messages = 1 .. Len(Tasks)
BY SchedulerAssumption, EmptySeq DEF IsSetting, Tasks, Messages

\* Sending appends the next number, receiving takes the first one away.
LEMMA QueueAppend ==
    ASSUME NEW S, NEW q \in Seq(S), NEW m \in S
    PROVE  /\ Append(q, m) \in Seq(S)
           /\ DOMAIN Append(q, m) = 1 .. Len(q) + 1
           /\ DOMAIN q = 1 .. Len(q) /\ Len(q) \in Nat
           /\ \A i \in 1 .. Len(q) : Append(q, m)[i] = q[i]
           /\ Append(q, m)[Len(q) + 1] = m
BY AppendProperties

LEMMA QueueTail ==
    ASSUME NEW S, NEW q \in Seq(S), q # <<>>
    PROVE  /\ Tail(q) \in Seq(S)
           /\ Len(q) \in Nat \ {0}
           /\ DOMAIN q = 1 .. Len(q)
           /\ DOMAIN Tail(q) = 1 .. Len(q) - 1
           /\ \A i \in 1 .. Len(q) - 1 : Tail(q)[i] = q[i + 1]
           /\ Head(q) = q[1] /\ q[1] \in S
BY HeadTailProperties, EmptySeq

\* The configuration never changes, and a step is one of the actions.
LEMMA SameSetting ==
    ASSUME [Next]_vars
    PROVE  /\ setting' = setting /\ Tasks' = Tasks /\ Mode' = Mode
           /\ Messages' = Messages /\ Loops' = Loops
           /\ TopOfLoop' = TopOfLoop
BY DEF Next, vars, Tasks, Mode, Messages, Loops, TopOfLoop

-----------------------------------------------------------------------------
\* The types and the place of the producer in its sweep are inductive.
LEMMA TypeStep == TypeInv /\ [Next]_vars => TypeInv'
<1> SUFFICES ASSUME TypeInv, [Next]_vars PROVE TypeInv'
  OBVIOUS
<1> USE DEF TypeInv, TypeOK, NextInSweep, Ended
<1>s. /\ setting' = setting /\ Tasks' = Tasks /\ Mode' = Mode
      /\ Messages' = Messages /\ TopOfLoop' = TopOfLoop
  BY SameSetting
<1>m. Len(Tasks) \in Nat \ {0} /\ Messages = 1 .. Len(Tasks)
  BY SweepOfMessages
<1>t. TopOfLoop \in {"check", "recv"}
  BY DEF TopOfLoop
<1>1. CASE RequestShutdown
  BY <1>1, <1>s DEF RequestShutdown
<1>2. ASSUME NEW w \in Workers, SpawnWorker(w) PROVE TypeInv'
  BY <1>2, <1>s, <1>t DEF SpawnWorker
<1>3. CASE SpawnProducer
  BY <1>3, <1>s DEF SpawnProducer
<1>4. CASE JoinAll
  BY <1>4, <1>s DEF JoinAll
<1>5. CASE ProducerCheck
  BY <1>5, <1>s DEF ProducerCheck
<1>6. CASE Send
  <2>1. next \in Messages /\ next + 1 \in 1 .. Len(Tasks) + 1
    BY <1>6, <1>m DEF Send
  <2>2. Append(channel, next) \in Seq(Messages)
    BY <2>1, QueueAppend
  <2>3. AfterSend(next) \in {"check", "send", "sleep", "done"}
    BY DEF AfterSend
  <2>4. AfterSend(next) \in {"check", "send"} => next + 1 <= Len(Tasks)
    BY <2>1, <1>m DEF AfterSend
  <2> QED
    BY <1>6, <1>s, <2>1, <2>2, <2>3, <2>4 DEF Send
<1>7. CASE SendFails
  BY <1>7, <1>s DEF SendFails
<1>8. CASE Rescan
  BY <1>8, <1>s, <1>m DEF Rescan
<1>9. ASSUME NEW w \in Workers, WorkerCheck(w) PROVE TypeInv'
  BY <1>9, <1>s DEF WorkerCheck
<1>10. ASSUME NEW w \in Workers, Recv(w) PROVE TypeInv'
  <2>1. Tail(channel) \in Seq(Messages) /\ Head(channel) \in Messages
    BY <1>10, QueueTail DEF Recv
  <2>2. started' \in [Messages -> 0 .. 2] /\ late' \in [Workers -> 0 .. 2]
    BY <1>10, <2>1 DEF Recv, Saturate
  <2> QED
    BY <1>10, <1>s, <2>1, <2>2 DEF Recv
<1>11. ASSUME NEW w \in Workers, RecvClosed(w) PROVE TypeInv'
  BY <1>11, <1>s DEF RecvClosed
<1>12. ASSUME NEW w \in Workers, FinishTask(w) PROVE TypeInv'
  BY <1>12, <1>s, <1>t DEF FinishTask
<1>13. ASSUME NEW w \in Workers, ReconnectFails(w) PROVE TypeInv'
  BY <1>13, <1>s DEF ReconnectFails
<1>14. ASSUME NEW w \in Workers, Panic(w) PROVE TypeInv'
  BY <1>14, <1>s DEF Panic
<1>15. CASE UNCHANGED vars
  BY <1>15, <1>s DEF vars
<1> QED
  BY <1>1, <1>2, <1>3, <1>4, <1>5, <1>6, <1>7, <1>8, <1>9, <1>10, <1>11, <1>12,
     <1>13, <1>14, <1>15
  DEF Next, Step, MainStep, ProducerStep, WorkerStep, Disturbance, Terminated

LEMMA TypeInit == Init => TypeInv
<1> SUFFICES ASSUME Init PROVE TypeInv
  OBVIOUS
<1>1. Len(Tasks) \in Nat \ {0}
  BY SweepOfMessages DEF Init
<1>2. channel \in Seq(Messages)
  BY EmptySeq DEF Init
<1>3. /\ started \in [Messages -> 0 .. 2] /\ late \in [Workers -> 0 .. 2]
      /\ task \in [Workers -> Messages \cup {0}] /\ broken \in [Workers -> BOOLEAN]
  BY DEF Init
<1>4. wpc \in [Workers -> {"unborn", "check", "recv", "work"} \cup Ended]
  BY DEF Init
<1>5. next \in 1 .. Len(Tasks) + 1 /\ NextInSweep
  BY <1>1 DEF Init, NextInSweep
<1> QED
  BY <1>2, <1>3, <1>4, <1>5 DEF Init, TypeInv, TypeOK

\* The variables of the scheduler keep their types; the producer never sends
\* an index beyond the sweep.
THEOREM SchedulerTypes == Spec => []TypeOK
<1>1. TypeInv => TypeOK
  BY DEF TypeInv
<1> QED
  BY TypeInit, TypeStep, <1>1, PTL DEF Spec

-----------------------------------------------------------------------------
\* A worker that has begun a list after Ctrl+C finds the flag set when it is
\* back at the top of its loop.
LEMMA LateStep == TypeInv /\ LateInv /\ [Next]_vars => LateInv'
<1> SUFFICES ASSUME TypeInv, LateInv, [Next]_vars, Mode = "consume",
                    NEW v \in Workers
             PROVE  /\ late'[v] <= 1
                    /\ late'[v] = 1 => shutdown' /\ wpc'[v] \notin {"unborn", "recv"}
  BY SameSetting DEF LateInv
<1> DEFINE Goal == /\ late'[v] <= 1
                   /\ late'[v] = 1 => shutdown' /\ wpc'[v] \notin {"unborn", "recv"}
<1> USE DEF LateInv, TypeInv, TypeOK
<1>1. CASE RequestShutdown
  BY <1>1 DEF RequestShutdown
<1>2. ASSUME NEW w \in Workers, SpawnWorker(w) PROVE Goal
  BY <1>2 DEF SpawnWorker, TopOfLoop
<1>3. CASE SpawnProducer \/ JoinAll \/ ProducerStep
  BY <1>3 DEF SpawnProducer, JoinAll, ProducerStep, ProducerCheck, Send, SendFails, Rescan
<1>4. ASSUME NEW w \in Workers, WorkerCheck(w) PROVE Goal
  BY <1>4 DEF WorkerCheck
<1>5. ASSUME NEW w \in Workers, Recv(w) PROVE Goal
  BY <1>5 DEF Recv, Saturate
<1>6. ASSUME NEW w \in Workers, RecvClosed(w) PROVE Goal
  BY <1>6 DEF RecvClosed
<1>7. ASSUME NEW w \in Workers, FinishTask(w) PROVE Goal
  BY <1>7 DEF FinishTask, TopOfLoop
<1>8. ASSUME NEW w \in Workers, ReconnectFails(w) \/ Panic(w) PROVE Goal
  BY <1>8 DEF ReconnectFails, Panic
<1>9. CASE UNCHANGED vars
  BY <1>9 DEF vars
<1> QED
  BY <1>1, <1>2, <1>3, <1>4, <1>5, <1>6, <1>7, <1>8, <1>9
  DEF Next, Step, MainStep, WorkerStep, Disturbance, Terminated

\* After Ctrl+C a worker of normal mode begins at most one more list, however
\* many there are and whatever the other threads do.
THEOREM OneLateList == Spec => []LateWorkBounded
<1>1. Init => LateInv
  BY DEF Init, LateInv
<1>2. LateInv => LateWorkBounded
  BY DEF LateInv, LateWorkBounded
<1> QED
  BY TypeInit, TypeStep, <1>1, LateStep, <1>2, PTL DEF Spec

-----------------------------------------------------------------------------
\* Without rescans the counter only grows, so that a message is sent once and
\* taken off the channel once.
LEMMA OnceStep == TypeInv /\ Once /\ [Next]_vars => Once'
<1> SUFFICES ASSUME TypeInv, Once, [Next]_vars, ~Loops
             PROVE  /\ producer' # "sleep"
                    /\ \A i \in DOMAIN channel' :
                          channel'[i] < next' /\ started'[channel'[i]] = 0
                    /\ \A i, j \in DOMAIN channel' : i # j => channel'[i] # channel'[j]
                    /\ \A m \in Messages :
                          started'[m] <= 1 /\ (m >= next' => started'[m] = 0)
  BY SameSetting DEF Once
<1>a. /\ producer # "sleep"
      /\ \A i \in DOMAIN channel : channel[i] < next /\ started[channel[i]] = 0
      /\ \A i, j \in DOMAIN channel : i # j => channel[i] # channel[j]
      /\ \A m \in Messages : started[m] <= 1 /\ (m >= next => started[m] = 0)
  BY DEF Once
<1>m. Len(Tasks) \in Nat \ {0} /\ Messages = 1 .. Len(Tasks)
  BY SweepOfMessages DEF TypeInv, TypeOK
<1>q. /\ channel \in Seq(Messages) /\ next \in Nat
      /\ started \in [Messages -> 0 .. 2]
  BY <1>m DEF TypeInv, TypeOK
<1>1. CASE UNCHANGED <<next, channel, started>> /\ producer' # "sleep"
  BY <1>1, <1>a
<1>2. CASE Send
  <2>1. producer' # "sleep" /\ next' = next + 1 /\ started' = started
    BY <1>2 DEF Send, AfterSend
  <2>2. next \in Messages
    BY <1>2, <1>m DEF Send, TypeInv, TypeOK, NextInSweep
  <2>3. channel' = Append(channel, next)
    BY <1>2 DEF Send
  <2>4. /\ DOMAIN channel' = 1 .. Len(channel) + 1
        /\ DOMAIN channel = 1 .. Len(channel) /\ Len(channel) \in Nat
        /\ \A i \in 1 .. Len(channel) :
              channel'[i] = channel[i] /\ channel[i] \in Messages
        /\ channel'[Len(channel) + 1] = next
    BY <2>2, <2>3, <1>q, QueueAppend
  <2>5. \A i \in DOMAIN channel' : channel'[i] < next' /\ started'[channel'[i]] = 0
    BY <2>1, <2>2, <2>4, <1>a, <1>m, <1>q, SMTT(60)
  <2>6. \A i, j \in DOMAIN channel' : i # j => channel'[i] # channel'[j]
    BY <2>2, <2>4, <1>a, <1>m
  <2> QED
    BY <2>1, <2>5, <2>6, <1>a, <1>m, <1>q
<1>3. ASSUME NEW w \in Workers, Recv(w)
      PROVE  Once'
  <2>1. /\ channel # <<>> /\ channel' = Tail(channel)
        /\ started' = [started EXCEPT ![Head(channel)] = Saturate(@)]
        /\ next' = next /\ producer' = producer
    BY <1>3 DEF Recv
  <2>2. /\ Len(channel) \in Nat \ {0}
        /\ DOMAIN channel = 1 .. Len(channel)
        /\ DOMAIN channel' = 1 .. Len(channel) - 1
        /\ \A i \in 1 .. Len(channel) - 1 : channel'[i] = channel[i + 1]
        /\ Head(channel) = channel[1] /\ channel[1] \in Messages
    BY <2>1, <1>q, QueueTail
  <2>3. /\ \A m \in Messages \ {channel[1]} : started'[m] = started[m]
        /\ started'[channel[1]] = 1
    BY <2>1, <2>2, <1>a, <1>q DEF Saturate
  <2>4. \A i \in DOMAIN channel' :
           i + 1 \in DOMAIN channel /\ channel'[i] = channel[i + 1]
           /\ channel'[i] # channel[1] /\ channel'[i] \in Messages
    BY <2>2, <1>a, <1>q
  <2>5. \A i \in DOMAIN channel' : channel'[i] < next' /\ started'[channel'[i]] = 0
    BY <2>1, <2>3, <2>4, <1>a
  <2>6. \A i, j \in DOMAIN channel' : i # j => channel'[i] # channel'[j]
    BY <2>2, <2>4, <1>a
  <2>7. \A m \in Messages : started'[m] <= 1 /\ (m >= next' => started'[m] = 0)
    BY <2>1, <2>2, <2>3, <1>a, <1>m, <1>q
  <2> QED
    BY <2>1, <2>5, <2>6, <2>7, <1>a, SameSetting DEF Once
<1>4. CASE Rescan
  BY <1>4, <1>a DEF Rescan
<1>5. CASE RequestShutdown \/ SpawnProducer \/ JoinAll \/ ProducerCheck \/ SendFails
  BY <1>5, <1>1, <1>a
  DEF RequestShutdown, SpawnProducer, JoinAll, ProducerCheck, SendFails
<1>6. ASSUME NEW w \in Workers,
             SpawnWorker(w) \/ WorkerCheck(w) \/ RecvClosed(w) \/ FinishTask(w)
             \/ ReconnectFails(w) \/ Panic(w)
      PROVE  Once'
  BY <1>6, <1>a, SameSetting
  DEF Once, SpawnWorker, WorkerCheck, RecvClosed, FinishTask, ReconnectFails, Panic
<1>7. CASE UNCHANGED vars
  BY <1>7, <1>1, <1>a DEF vars
<1>8. Once' => /\ producer' # "sleep"
               /\ \A i \in DOMAIN channel' :
                     channel'[i] < next' /\ started'[channel'[i]] = 0
               /\ \A i, j \in DOMAIN channel' : i # j => channel'[i] # channel'[j]
               /\ \A m \in Messages :
                     started'[m] <= 1 /\ (m >= next' => started'[m] = 0)
  BY SameSetting DEF Once
<1> QED
  BY <1>2, <1>3, <1>4, <1>5, <1>6, <1>7, <1>8
  DEF Next, Step, MainStep, ProducerStep, WorkerStep, Disturbance, Terminated

LEMMA OnceInit == Init => Once
BY SweepOfMessages DEF Init, Once

\* Without rescans no message is begun twice, by one worker or by two.
THEOREM BegunOnce == Spec => []AtMostOnce
<1>1. Once /\ TypeInv => AtMostOnce
  BY DEF Once, AtMostOnce
<1> QED
  BY TypeInit, TypeStep, OnceInit, OnceStep, <1>1, PTL DEF Spec

-----------------------------------------------------------------------------
(***************************************************************************)
(* A list is named by one message of the sweep when the selected lists are *)
(* different ones.                                                         *)
(***************************************************************************)
ListsNamedOnce ==
    \A s \in Settings : s.mode = "consume" =>
        \A i, j \in DOMAIN s.tasks : i # j => s.tasks[i] # s.tasks[j]

\* The worker that takes a message off the channel is the only one to have it.
LEMMA OwnedStep == TypeInv /\ Once /\ Owned /\ [Next]_vars => Owned'
<1> SUFFICES ASSUME TypeInv, Once, Owned, [Next]_vars PROVE Owned'
  OBVIOUS
<1> USE DEF Owned
<1>s. Loops' = Loops /\ Messages' = Messages
  BY SameSetting
<1>m. Messages = 1 .. Len(Tasks) /\ Len(Tasks) \in Nat
  BY SweepOfMessages DEF TypeInv, TypeOK
<1>q. /\ task \in [Workers -> Messages \cup {0}]
      /\ started \in [Messages -> 0 .. 2] /\ channel \in Seq(Messages)
      /\ DOMAIN wpc = Workers
  BY DEF TypeInv, TypeOK
<1>1. CASE UNCHANGED <<wpc, task, started>>
  BY <1>1, <1>s
<1>2. ASSUME NEW w \in Workers, wpc' = [wpc EXCEPT ![w] = wpc'[w]],
             wpc'[w] # "work", UNCHANGED <<task, started>>
      PROVE  Owned'
  BY <1>2, <1>s, <1>q
<1>3. ASSUME NEW w \in Workers, wpc' = [wpc EXCEPT ![w] = wpc'[w]],
             wpc'[w] # "work", task' = [task EXCEPT ![w] = 0], UNCHANGED started
      PROVE  Owned'
  BY <1>3, <1>s, <1>q
<1>4. ASSUME NEW w \in Workers, Recv(w) PROVE Owned'
  <2>1. /\ Head(channel) = channel[1] /\ 1 \in DOMAIN channel
        /\ channel[1] \in Messages
    BY <1>4, <1>q, QueueTail DEF Recv
  <2>2. /\ task' = [task EXCEPT ![w] = channel[1]]
        /\ wpc' = [wpc EXCEPT ![w] = "work"]
        /\ started' = [started EXCEPT ![channel[1]] = Saturate(@)]
    BY <1>4, <2>1 DEF Recv
  <2>3. channel[1] # 0
    BY <2>1, <1>m
  <2>4. \A v \in Workers : wpc'[v] = "work" => task'[v] # 0
    BY <2>2, <2>3, <1>q
  <2>5. \A m \in Messages : started[m] > 0 => started'[m] > 0
    BY <2>1, <2>2, <1>q DEF Saturate
  <2>6. started'[channel[1]] > 0
    BY <2>1, <2>2, <1>q DEF Saturate
  <2>7. ~Loops => started[channel[1]] = 0
    BY <2>1 DEF Once
  <2>8. ~Loops => \A v \in Workers : task[v] # channel[1]
    BY <2>3, <2>7, <1>q
  <2> QED
    BY <2>1, <2>2, <2>3, <2>4, <2>5, <2>6, <2>8, <1>q, <1>s
<1>5. ASSUME NEW w \in Workers,
             SpawnWorker(w) \/ WorkerCheck(w) \/ RecvClosed(w) \/ ReconnectFails(w)
      PROVE  Owned'
  BY <1>5, <1>2, <1>q
  DEF SpawnWorker, WorkerCheck, RecvClosed, ReconnectFails, TopOfLoop
<1>6. ASSUME NEW w \in Workers, FinishTask(w) \/ Panic(w) PROVE Owned'
  BY <1>6, <1>3, <1>q DEF FinishTask, Panic, TopOfLoop
<1>7. CASE RequestShutdown \/ SpawnProducer \/ JoinAll \/ ProducerStep
  BY <1>7, <1>1 DEF RequestShutdown, SpawnProducer, JoinAll, ProducerStep,
                    ProducerCheck, Send, SendFails, Rescan
<1>8. CASE UNCHANGED vars
  BY <1>8, <1>1 DEF vars
<1> QED
  BY <1>4, <1>5, <1>6, <1>7, <1>8
  DEF Next, Step, MainStep, WorkerStep, Disturbance, Terminated

\* When the lists are different ones, a run of normal mode without rescans
\* never has two workers, and so two writers, in one list's directory.
THEOREM OneVisitPerList ==
    ASSUME ListsNamedOnce
    PROVE  Spec => []OneWorkerPerList
<1>1. Init => Owned
  BY DEF Init, Owned
<1>2. TypeInv /\ Owned => OneWorkerPerList
  <2> SUFFICES ASSUME TypeInv, Owned, Mode = "consume", ~Loops,
                      NEW v \in Workers, NEW w \in Workers,
                      v # w, wpc[v] = "work", wpc[w] = "work"
               PROVE  ListOf(task[v]) # ListOf(task[w])
    BY DEF OneWorkerPerList, ListsApart
  <2>1. task[v] \in Messages /\ task[w] \in Messages /\ task[v] # task[w]
    BY DEF Owned, TypeInv, TypeOK
  <2> QED
    BY <2>1 DEF ListsNamedOnce, ListOf, Messages, Tasks, Mode, TypeInv, TypeOK
<1> QED
  BY TypeInit, TypeStep, OnceInit, OnceStep, <1>1, OwnedStep, <1>2, PTL DEF Spec

-----------------------------------------------------------------------------
\* What is behind the producer's counter stays in the channel until a worker
\* takes it, and a worker leaves early only for Ctrl+C.
LEMMA NoneStep == TypeInv /\ None /\ [Next]_vars => None'
<1> SUFFICES ASSUME TypeInv, None, [Next]_vars PROVE None'
  OBVIOUS
<1> USE DEF None, AllDead, Ended
<1>s. Tasks' = Tasks /\ Messages' = Messages
  BY SameSetting
<1>m. Messages = 1 .. Len(Tasks) /\ Len(Tasks) \in Nat \ {0}
  BY SweepOfMessages DEF TypeInv, TypeOK
<1>q. /\ started \in [Messages -> 0 .. 2] /\ channel \in Seq(Messages)
      /\ DOMAIN wpc = Workers /\ next \in 1 .. Len(Tasks) + 1
      /\ shutdown \in BOOLEAN
      /\ main = "spawn" => producer = "unborn"
      /\ TopOfLoop \in {"check", "recv"}
  BY DEF TypeInv, TypeOK, NextInSweep, TopOfLoop
<1>1. CASE RequestShutdown
  BY <1>1, <1>s DEF RequestShutdown
<1>2. ASSUME NEW w \in Workers, SpawnWorker(w) PROVE None'
  <2>1. /\ main = "spawn" /\ wpc' = [wpc EXCEPT ![w] = TopOfLoop]
        /\ UNCHANGED <<main, producer, next, channel, shutdown, started>>
    BY <1>2 DEF SpawnWorker
  <2>2. producer = "unborn"
    BY <2>1, <1>q
  <2>3. \A v \in Workers : wpc'[v] = "done" => wpc[v] = "done"
    BY <2>1, <1>q
  <2> QED
    BY <2>1, <2>2, <2>3, <1>s
<1>3. CASE SpawnProducer
  BY <1>3, <1>s, <1>q DEF SpawnProducer
<1>4. CASE JoinAll
  BY <1>4, <1>s DEF JoinAll
<1>5. CASE ProducerCheck
  BY <1>5, <1>s DEF ProducerCheck
<1>6. CASE Send
  <2>1. /\ next \in Messages /\ next' = next + 1 /\ started' = started
        /\ producer = "send" /\ main' = main /\ wpc' = wpc /\ shutdown' = shutdown
        /\ channel' = Append(channel, next) /\ producer' = AfterSend(next)
    BY <1>6, <1>m DEF Send, TypeInv, TypeOK, NextInSweep
  <2>2. /\ DOMAIN channel' = 1 .. Len(channel) + 1
        /\ DOMAIN channel = 1 .. Len(channel) /\ Len(channel) \in Nat
        /\ \A i \in 1 .. Len(channel) : channel'[i] = channel[i]
        /\ channel'[Len(channel) + 1] = next
    BY <2>1, <1>q, QueueAppend
  <2>3. \A m \in Messages : m < next' =>
           started'[m] >= 1 \/ \E i \in DOMAIN channel' : channel'[i] = m
    <3> SUFFICES ASSUME NEW m \in Messages, m < next', ~(started'[m] >= 1)
                 PROVE  \E i \in DOMAIN channel' : channel'[i] = m
      OBVIOUS
    <3>1. CASE m = next
      BY <3>1, <2>2
    <3>2. CASE m # next
      <4>1. PICK i \in DOMAIN channel : channel[i] = m
        BY <3>2, <2>1, <1>m
      <4> QED
        BY <4>1, <2>2
    <3> QED
      BY <3>1, <3>2
  <2>4. producer' = "done" => next' = Len(Tasks) + 1
    BY <2>1 DEF AfterSend
  <2>5. ~shutdown => \A w \in Workers : wpc[w] # "done"
    BY <2>1
  <2> QED
    BY <2>1, <2>3, <2>4, <2>5, <1>s
<1>7. CASE SendFails
  <2>1. ~shutdown => AllDead
    BY <1>7, <1>q DEF SendFails, Connected, Alive
  <2> QED
    BY <1>7, <2>1, <1>s DEF SendFails
<1>8. CASE Rescan
  BY <1>8, <1>s, <1>m DEF Rescan
<1>9. ASSUME NEW w \in Workers, WorkerCheck(w) PROVE None'
  BY <1>9, <1>s, <1>q DEF WorkerCheck
<1>10. ASSUME NEW w \in Workers, Recv(w) PROVE None'
  <2>1. /\ channel # <<>> /\ channel' = Tail(channel) /\ wpc[w] = "recv"
        /\ started' = [started EXCEPT ![Head(channel)] = Saturate(@)]
        /\ wpc' = [wpc EXCEPT ![w] = "work"]
        /\ next' = next /\ producer' = producer /\ main' = main /\ shutdown' = shutdown
    BY <1>10 DEF Recv
  <2>2. /\ Len(channel) \in Nat \ {0}
        /\ DOMAIN channel = 1 .. Len(channel)
        /\ DOMAIN channel' = 1 .. Len(channel) - 1
        /\ \A i \in 1 .. Len(channel) - 1 : channel'[i] = channel[i + 1]
        /\ Head(channel) = channel[1] /\ channel[1] \in Messages
    BY <2>1, <1>q, QueueTail
  <2>3. /\ \A m \in Messages : started[m] >= 1 => started'[m] >= 1
        /\ started'[channel[1]] >= 1
    BY <2>1, <2>2, <1>q DEF Saturate
  <2>4. \A m \in Messages : m < next' =>
           started'[m] >= 1 \/ \E i \in DOMAIN channel' : channel'[i] = m
    <3> SUFFICES ASSUME NEW m \in Messages, m < next', ~(started'[m] >= 1)
                 PROVE  \E i \in DOMAIN channel' : channel'[i] = m
      OBVIOUS
    <3>1. PICK i \in DOMAIN channel : channel[i] = m
      BY <2>1, <2>3
    <3>2. i - 1 \in DOMAIN channel' /\ channel'[i - 1] = m
      BY <3>1, <2>2, <2>3
    <3> QED
      BY <3>2
  <2> QED
    BY <2>1, <2>4, <1>s, <1>q
<1>11. ASSUME NEW w \in Workers, RecvClosed(w) PROVE None'
  BY <1>11, <1>s, <1>q DEF RecvClosed, SenderDropped
<1>12. ASSUME NEW w \in Workers, FinishTask(w) PROVE None'
  BY <1>12, <1>s, <1>q DEF FinishTask
<1>13. ASSUME NEW w \in Workers, ReconnectFails(w) PROVE None'
  BY <1>13, <1>s, <1>q DEF ReconnectFails
<1>14. ASSUME NEW w \in Workers, Panic(w) PROVE None'
  BY <1>14, <1>s, <1>q DEF Panic
<1>15. CASE UNCHANGED vars
  BY <1>15, <1>s DEF vars
<1> QED
  BY <1>1, <1>2, <1>3, <1>4, <1>5, <1>6, <1>7, <1>8, <1>9, <1>10, <1>11, <1>12,
     <1>13, <1>14, <1>15
  DEF Next, Step, MainStep, ProducerStep, WorkerStep, Disturbance, Terminated

\* A run that ends without Ctrl+C has begun every message of its sweep, however
\* its workers failed, unless all of them did.
THEOREM NoneForgotten == Spec => []AllStarted
<1>1. Init => None
  BY SweepOfMessages DEF Init, None
<1>2. TypeInv /\ None => AllStarted
  <2> SUFFICES ASSUME TypeInv, None, main = "done", ~shutdown, Workers # Dead,
                      NEW m \in Messages
               PROVE  started[m] >= 1
    BY DEF AllStarted
  <2>1. ~AllDead
    BY DEF AllDead, Dead
  <2>2. PICK w \in Workers : wpc[w] = "done"
    BY <2>1 DEF None, AllDead, Ended
  <2>3. channel = <<>> /\ next = Len(Tasks) + 1
    BY <2>1, <2>2 DEF None
  <2>4. m < next
    BY <2>3, SweepOfMessages DEF TypeInv, TypeOK
  <2>5. DOMAIN channel = {}
    BY <2>3
  <2> QED
    BY <2>4, <2>5 DEF None
<1> QED
  BY TypeInit, TypeStep, <1>1, NoneStep, <1>2, PTL DEF Spec
=============================================================================
