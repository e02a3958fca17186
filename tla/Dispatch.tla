------------------------------ MODULE Dispatch ------------------------------
(***************************************************************************)
(* The server around the data store: the WorkManager's single loop, which  *)
(* accepts connections, turns what it receives into jobs for the worker    *)
(* threads and sends their results back, and the WorkThreads, which wait   *)
(* on a condition variable with a timeout.  The manager notifies a worker  *)
(* without holding its mutex.                                              *)
(*                                                                         *)
(* What a job does to the tables is the subject of TableRows; here it has  *)
(* an outcome.  A client is the libomdb library: it sends one command and  *)
(* waits for the answer.  The clients are numbered by their connection: a  *)
(* client that comes back is another one.                                  *)
(***************************************************************************)
EXTENDS Naturals, FiniteSets, FiniteSetsExt, SequencesExt

CONSTANTS
    Clients,
    Impatient,      \* the clients that may leave before they are answered
    Flaky,          \* the clients whose packets may be split, or network fail
    Outcomes,       \* what a job may do: answer, throw, or fail an assertion
    NumThreads,     \* the num_threads of the command line
    PoolSize,       \* the 8 of GetAvailableThread
    MaxFds,         \* descriptors the process may have open for clients
    MaxCommands     \* bound: commands per client

ASSUME EnvironmentAssumption ==
    /\ Impatient \subseteq Clients
    /\ Flaky \subseteq Clients
    /\ Outcomes \subseteq {"answer", "throw", "assert"}

ASSUME SizesAssumption ==
    /\ NumThreads \in Nat \ {0}
    /\ PoolSize \in Nat \ {0}
    /\ MaxFds \in Nat
    /\ MaxCommands \in Nat

Threads == 0 .. NumThreads - 1

Fds == 1 .. MaxFds

NoJob == 0

VARIABLES
    \* the clients and the network
    link,               \* the client's end of its connection
    inbox,              \* what the server's socket has received from it
    rest,               \* the second part of its last packet is on its way
    sent,               \* commands it has sent
    received,           \* the answers in its socket, by job number
    \* the manager
    terminated,         \* the process is gone
    at,                 \* where Run is: the phase of the loop, the position
    sockets,            \* the open descriptors and whose socket each one is
    connections,        \* m_connections, by descriptor
    jobs,               \* the packet behind each job number
    thread_results,     \* m_thread_results, by job number
    results,            \* the results collected in this round
    job_to_connection,  \* m_job_to_connection; job numbers are consecutive
    next_thread,        \* the static idx of GetAvailableThread
    \* the workers
    job_queue,
    wpc,                \* where each WorkThread::Run is
    job,                \* the job it runs
    future              \* the shared state of each job's future

clientVars == <<link, inbox, rest, sent, received>>
netVars == <<inbox, rest, sent>>
jobVars == <<jobs, thread_results, job_to_connection, next_thread>>
managerVars == <<at, sockets, connections, results, jobVars>>
workerVars == <<job_queue, wpc, job, future>>
vars == <<clientVars, terminated, managerVars, workerVars>>

Parts == {"whole", "head", "tail"}

Packet == [client: Clients, number: Nat, part: Parts]

Phases == {"accept", "receive", "notify", "collect", "send"}

WorkerPcs == {"check", "blocking", "blocked", "dequeue", "execute"}

At(phase, pos) == [phase |-> phase, pos |-> pos]

In(phase) == ~terminated /\ at.phase = phase
-----------------------------------------------------------------------------
Init ==
    /\ link = [c \in Clients |-> "away"]
    /\ inbox = [c \in Clients |-> <<>>]
    /\ rest = [c \in Clients |-> FALSE]
    /\ sent = [c \in Clients |-> 0]
    /\ received = [c \in Clients |-> <<>>]
    /\ terminated = FALSE
    /\ at = At("accept", 1)
    /\ sockets = [fd \in {} |-> NoJob]
    /\ connections = <<>>
    /\ jobs = <<>>
    /\ thread_results = <<>>
    /\ results = <<>>
    /\ job_to_connection = <<>>
    /\ next_thread = 0
    /\ job_queue = [w \in Threads |-> <<>>]
    /\ wpc = [w \in Threads |-> "check"]
    /\ job = [w \in Threads |-> NoJob]
    /\ future = <<>>
-----------------------------------------------------------------------------
(* The client library and the network.                                     *)

Connect(c) ==
    /\ link[c] = "away"
    /\ link' = [link EXCEPT ![c] = "backlog"]
    /\ UNCHANGED <<netVars, received>>

\* sendMessage: a command is sent when the last one has been answered.  The
\* network may deliver the first part of the packet on its own.
SendCommand(c) ==
    /\ link[c] = "open"
    /\ Len(received[c]) >= sent[c] /\ sent[c] < MaxCommands
    /\ ~rest[c] /\ \A i \in DOMAIN inbox[c] : inbox[c][i].part # "tail"
    /\ sent' = [sent EXCEPT ![c] = @ + 1]
    /\ \E split \in {FALSE} \cup {c \in Flaky} :
          /\ inbox' = [inbox EXCEPT ![c] = Append(@,
                [client |-> c, number |-> sent[c] + 1,
                 part |-> IF split THEN "head" ELSE "whole"])]
          /\ rest' = [rest EXCEPT ![c] = split]
    /\ UNCHANGED <<link, received>>

\* The second part completes the packet, unless the first has been read.
RestArrives(c) ==
    /\ rest[c]
    /\ rest' = [rest EXCEPT ![c] = FALSE]
    /\ inbox' = [inbox EXCEPT ![c] =
          <<[client |-> c, number |-> sent[c],
             part |-> IF @ = <<>> THEN "tail" ELSE "whole"]>>]
    /\ UNCHANGED <<link, sent, received>>

\* The client closes its end, with or without an answer outstanding.
Leave(c) ==
    /\ link[c] = "open"
    /\ c \in Impatient \/ Len(received[c]) = sent[c]
    /\ link' = [link EXCEPT ![c] = "closed"]
    /\ UNCHANGED <<netVars, received>>

Client(c) ==
    /\ ~terminated
    /\ Connect(c) \/ SendCommand(c) \/ RestArrives(c) \/ Leave(c)
    /\ UNCHANGED <<terminated, managerVars, workerVars>>
-----------------------------------------------------------------------------
(* Accepting connections.                                                  *)

Backlog == {c \in Clients : link[c] = "backlog"}

FreeFds == Fds \ DOMAIN sockets

\* Defect for a mutant run: the connection is stored for each try to send.
PushTwice(fd) == connections \o <<fd, fd>>

PushConnection(fd) == Append(connections, fd)

\* accept4 takes the lowest free descriptor, and the ConnectionPacket is sent.
Accept ==
    /\ In("accept")
    /\ FreeFds # {}
    /\ \E c \in Backlog :
          /\ link' = [link EXCEPT ![c] = "open"]
          /\ sockets' = [fd \in DOMAIN sockets \cup {Min(FreeFds)} |->
                            IF fd = Min(FreeFds) THEN c ELSE sockets[fd]]
    /\ connections' = PushConnection(Min(FreeFds))
    /\ at' = At("receive", 1)
    /\ UNCHANGED <<netVars, received, terminated, results, jobVars, workerVars>>

NothingToAccept ==
    /\ In("accept")
    /\ Backlog = {}
    /\ at' = At("receive", 1)
    /\ UNCHANGED <<clientVars, terminated, sockets, connections, results, jobVars,
                   workerVars>>

\* Any error of accept4, here the lack of a descriptor, ends the loop and with
\* it main, whose joinable threads end the process.
AcceptFails ==
    /\ In("accept")
    /\ Backlog # {} /\ FreeFds = {}
    /\ terminated' = TRUE
    /\ UNCHANGED <<clientVars, managerVars, workerVars>>
-----------------------------------------------------------------------------
(* ReceiveCommand, for each connection in turn.                            *)

Receiving == In("receive") /\ at.pos <= Len(connections)

Fd == connections[at.pos]

Peer == sockets[Fd]

NextConnection == at' = At("receive", at.pos + 1)

\* Defect for a mutant run: the counter does not wrap.
NextThread == next_thread + 1

\* GetAvailableThread: the threads in turn.
GetAvailableThread == (next_thread + 1) % PoolSize

\* recv returns what is there, and any number of bytes is D_RECV_FULL.
ReceiveCommand ==
    /\ Receiving /\ inbox[Peer] # <<>>
    /\ LET j == Len(jobs) + 1
           w == GetAvailableThread
       IN /\ jobs' = Append(jobs, Head(inbox[Peer]))
          /\ future' = Append(future, "pending")
          /\ thread_results' = Append(thread_results, j)
          /\ job_to_connection' = Append(job_to_connection, Fd)
          /\ next_thread' = w
          /\ \/ /\ w \in Threads
                /\ job_queue' = [job_queue EXCEPT ![w] = Append(@, j)]
                /\ UNCHANGED terminated
             \* m_thread_data has no such element: the access is undefined.
             \/ /\ w \notin Threads
                /\ terminated' \in BOOLEAN
                /\ UNCHANGED job_queue
    /\ inbox' = [inbox EXCEPT ![Peer] = Tail(@)]
    /\ at' = At("notify", at.pos)
    /\ UNCHANGED <<link, rest, sent, received, sockets, connections, results,
                   wpc, job>>

\* notify_one wakes the worker if it is blocked, and is lost otherwise.
Notify ==
    /\ In("notify")
    /\ wpc' = [w \in Threads |->
          IF w = next_thread /\ wpc[w] = "blocked" THEN "check" ELSE wpc[w]]
    /\ NextConnection
    /\ UNCHANGED <<clientVars, terminated, sockets, connections, results, jobVars,
                   job_queue, job, future>>

ReceiveNothing ==
    /\ Receiving /\ inbox[Peer] = <<>> /\ link[Peer] = "open"
    /\ NextConnection
    /\ UNCHANGED <<clientVars, terminated, sockets, connections, results, jobVars,
                   workerVars>>

\* recv returns 0 or ECONNRESET (which discards what was not read): the
\* descriptor is closed and the connection removed.
ReceiveClose ==
    /\ Receiving /\ link[Peer] = "closed"
    /\ sockets' = Restrict(sockets, DOMAIN sockets \ {Fd})
    /\ connections' = RemoveAt(connections, at.pos)
    /\ UNCHANGED <<clientVars, terminated, at, results, jobVars, workerVars>>

\* Any other error removes the connection and leaves its descriptor open.
ReceiveError ==
    /\ Receiving /\ Peer \in Flaky /\ link[Peer] = "open"
    /\ link' = [link EXCEPT ![Peer] = "closed"]
    /\ connections' = RemoveAt(connections, at.pos)
    /\ UNCHANGED <<netVars, received, terminated, at, sockets, results, jobVars,
                   workerVars>>

ReceiveEnd ==
    /\ In("receive") /\ at.pos > Len(connections)
    /\ at' = At("collect", 1)
    /\ UNCHANGED <<clientVars, terminated, sockets, connections, results, jobVars,
                   workerVars>>
-----------------------------------------------------------------------------
(* Collecting the futures that are ready.                                  *)

Collecting == In("collect") /\ at.pos <= Len(thread_results)

Future == future[thread_results[at.pos]]

FutureNotReady ==
    /\ Collecting /\ Future = "pending"
    /\ at' = At("collect", at.pos + 1)
    /\ UNCHANGED <<clientVars, terminated, sockets, connections, results, jobVars,
                   workerVars>>

\* Defect for a mutant run: remove_if without the erase.
NoErase == thread_results

EraseResult == RemoveAt(thread_results, at.pos)

CollectResult ==
    /\ Collecting /\ Future = "answer"
    /\ results' = Append(results, thread_results[at.pos])
    /\ thread_results' = EraseResult
    /\ UNCHANGED <<clientVars, terminated, at, sockets, connections, jobs,
                   job_to_connection, next_thread, workerVars>>

\* get() rethrows what the job threw, and nothing in Run or main catches it.
CollectException ==
    /\ Collecting /\ Future = "throw"
    /\ terminated' = TRUE
    /\ UNCHANGED <<clientVars, managerVars, workerVars>>

CollectEnd ==
    /\ In("collect") /\ at.pos > Len(thread_results)
    /\ at' = At("send", 1)
    /\ UNCHANGED <<clientVars, terminated, sockets, connections, results, jobVars,
                   workerVars>>
-----------------------------------------------------------------------------
(* Sending the results, in the order they were collected.                  *)

Sending == In("send") /\ results # <<>>

\* Defect for a mutant run: the connection of the last job received.
LastFd == Last(job_to_connection)

ResultFd == job_to_connection[Head(results)]

Reaches(c) == ResultFd \in DOMAIN sockets /\ sockets[ResultFd] = c

SendResult ==
    /\ Sending
    /\ \E c \in Clients :
          /\ Reaches(c) /\ link[c] = "open"
          /\ received' = [received EXCEPT ![c] = Append(@, Head(results))]
    /\ results' = Tail(results)
    /\ UNCHANGED <<netVars, link, terminated, at, sockets, connections, jobVars,
                   workerVars>>

\* The descriptor is closed, or the other end is: the result is lost.
SendLost ==
    /\ Sending
    /\ \A c \in Clients : Reaches(c) => link[c] # "open"
    /\ results' = Tail(results)
    /\ UNCHANGED <<clientVars, terminated, at, sockets, connections, jobVars,
                   workerVars>>

\* A send to a closed end may also raise SIGPIPE, which nothing handles.
SendToClosedEnd ==
    /\ Sending
    /\ \E c \in Clients : Reaches(c) /\ link[c] = "closed"
    /\ terminated' = TRUE
    /\ UNCHANGED <<clientVars, managerVars, workerVars>>

SendEnd ==
    /\ In("send") /\ results = <<>>
    /\ at' = At("accept", 1)
    /\ UNCHANGED <<clientVars, terminated, sockets, connections, results, jobVars,
                   workerVars>>

Manager ==
    \/ Accept \/ NothingToAccept \/ AcceptFails
    \/ ReceiveCommand \/ Notify \/ ReceiveNothing \/ ReceiveClose
    \/ ReceiveError \/ ReceiveEnd
    \/ FutureNotReady \/ CollectResult \/ CollectException \/ CollectEnd
    \/ SendResult \/ SendLost \/ SendToClosedEnd \/ SendEnd
-----------------------------------------------------------------------------
(* WorkThread::Run                                                         *)

GotoW(w, label) == wpc' = [wpc EXCEPT ![w] = label]

\* The predicate of wait_for, evaluated under the mutex.
CheckQueue(w) ==
    /\ wpc[w] = "check"
    /\ GotoW(w, IF job_queue[w] # <<>> THEN "dequeue" ELSE "blocking")
    /\ UNCHANGED <<terminated, job_queue, job, future>>

\* Between the predicate and the wait a notification is lost.
Block(w) ==
    /\ wpc[w] = "blocking"
    /\ GotoW(w, "blocked")
    /\ UNCHANGED <<terminated, job_queue, job, future>>

\* Defect for a mutant run: a wait without a timeout.
WaitForever(w) ==
    /\ FALSE
    /\ GotoW(w, "check")
    /\ UNCHANGED <<terminated, job_queue, job, future>>

\* 15 ms without a notification.
WaitTimesOut(w) ==
    /\ wpc[w] = "blocked"
    /\ GotoW(w, "check")
    /\ UNCHANGED <<terminated, job_queue, job, future>>

\* Defect for a mutant run: the job stays in the queue.
Peek(w) ==
    /\ wpc[w] = "dequeue"
    /\ job' = [job EXCEPT ![w] = Head(job_queue[w])]
    /\ GotoW(w, "execute")
    /\ UNCHANGED <<terminated, future, job_queue>>

Dequeue(w) ==
    /\ wpc[w] = "dequeue"
    /\ job' = [job EXCEPT ![w] = Head(job_queue[w])]
    /\ job_queue' = [job_queue EXCEPT ![w] = Tail(@)]
    /\ GotoW(w, "execute")
    /\ UNCHANGED <<terminated, future>>

\* The packaged_task runs the statement and completes its future with the
\* result or the exception; a failed assertion ends the process.
Execute(w) ==
    /\ wpc[w] = "execute"
    /\ \E outcome \in Outcomes :
          IF outcome = "assert"
          THEN terminated' = TRUE /\ UNCHANGED future
          ELSE /\ future' = [future EXCEPT ![job[w]] = outcome]
               /\ UNCHANGED terminated
    /\ job' = [job EXCEPT ![w] = NoJob]
    /\ GotoW(w, "check")
    /\ UNCHANGED job_queue

Worker(w) ==
    /\ ~terminated
    /\ CheckQueue(w) \/ Block(w) \/ WaitTimesOut(w) \/ Dequeue(w) \/ Execute(w)
    /\ UNCHANGED <<clientVars, managerVars>>

Next ==
    \/ \E c \in Clients : Client(c)
    \/ Manager
    \/ \E w \in Threads : Worker(w)

Spec == Init /\ [][Next]_vars

\* The manager's loop never blocks and each worker is a thread of its own;
\* nothing obliges a client to do anything.
Fairness == WF_vars(Manager) /\ \A w \in Threads : WF_vars(Worker(w))

FairSpec == Spec /\ Fairness
-----------------------------------------------------------------------------
\* Every variable holds a value of its type; a job number names a job.
TypeOK ==
    /\ link \in [Clients -> {"away", "backlog", "open", "closed"}]
    /\ inbox \in [Clients -> Seq(Packet)]
    /\ rest \in [Clients -> BOOLEAN]
    /\ sent \in [Clients -> 0 .. MaxCommands]
    /\ received \in [Clients -> Seq(DOMAIN jobs)]
    /\ terminated \in BOOLEAN
    /\ at \in [phase: Phases, pos: Nat \ {0}]
    /\ DOMAIN sockets \subseteq Fds /\ Range(sockets) \subseteq Clients
    /\ connections \in Seq(DOMAIN sockets)
    /\ jobs \in Seq(Packet)
    /\ thread_results \in Seq(DOMAIN jobs)
    /\ results \in Seq(DOMAIN jobs)
    /\ job_to_connection \in Seq(Fds) /\ Len(job_to_connection) = Len(jobs)
    /\ next_thread \in 0 .. PoolSize - 1
    /\ job_queue \in [Threads -> Seq(DOMAIN jobs)]
    /\ wpc \in [Threads -> WorkerPcs]
    /\ job \in [Threads -> DOMAIN jobs \cup {NoJob}]
    /\ future \in Seq({"pending", "answer", "throw"}) /\ Len(future) = Len(jobs)

Occurrences(s, j) == Cardinality({i \in DOMAIN s : s[i] = j})

Queued == UNION {{w} \X DOMAIN job_queue[w] : w \in Threads}

\* The workers' hold on job j: its entries in the queues, the threads that run
\* it, and its completed future.
Holds(j) ==
    Cardinality({q \in Queued : job_queue[q[1]][q[2]] = j})
        + Cardinality({w \in Threads : job[w] = j})
        + (IF future[j] = "pending" THEN 0 ELSE 1)

\* No job is carried out twice, whichever thread it is queued to, and a job
\* that is held is never dropped from the futures the manager polls.
NoJobTwice ==
    \A j \in DOMAIN jobs :
        /\ Holds(j) <= 1
        /\ future[j] = "pending" => Occurrences(thread_results, j) = 1

Answers == UNION {{c} \X DOMAIN received[c] : c \in Clients}

\* No result is delivered twice, to the same client or to two: a result on its
\* way is in one of thread_results and results, and delivered in neither.
AnsweredOnce ==
    \A j \in DOMAIN jobs :
        Occurrences(thread_results, j) + Occurrences(results, j)
            + Cardinality({a \in Answers : received[a[1]][a[2]] = j}) <= 1

\* No descriptor is in m_connections twice, although accept reuses the
\* descriptors that are closed: two Connections would share one stream.
ConnectionsDistinct ==
    \A i, k \in DOMAIN connections : i # k => connections[i] # connections[k]

\* The answer a client reads after its n-th command is the result of that
\* command (work_manager.h:105 calls m_job_to_connection "The mapping of job
\* to connection").
AnswersMatch ==
    \A c \in Clients : \A n \in DOMAIN received[c] :
        LET packet == jobs[received[c][n]]
        IN packet.client = c /\ packet.number = n

\* Each command of a client is carried out once and answered, and nothing a
\* client does keeps another one waiting.
Server == INSTANCE RequestServer WITH
    asked <- sent,
    done <- [c \in Clients |->
        Cardinality({j \in DOMAIN jobs : jobs[j].client = c /\ future[j] # "pending"})],
    answered <- [c \in Clients |-> Len(received[c])]

ImplementsServer == Server!Spec
=============================================================================
