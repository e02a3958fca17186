--------------------------- MODULE DispatchProofs ---------------------------
(***************************************************************************)
(* Proofs about the manager's loop and the worker threads for any number   *)
(* of clients and threads, whatever the clients, the network and the jobs  *)
(* do: no descriptor is polled twice, no job is carried out twice, and no  *)
(* result is delivered twice.  With clients that wait and a network that   *)
(* works, every answer is the one to the client's last command.            *)
(***************************************************************************)
EXTENDS Dispatch, FiniteSetTheorems, WellFoundedInduction, TLAPS

-----------------------------------------------------------------------------
(* Sequences without repetitions.                                          *)

Distinct(s) == \A i, k \in DOMAIN s : i # k => s[i] # s[k]

LEMMA WiderSeq ==
    ASSUME NEW S, NEW T, S \subseteq T, NEW s \in Seq(S)
    PROVE  s \in Seq(T)
<1>1. \A i \in DOMAIN s : s[i] \in T
  OBVIOUS
<1> QED
  BY <1>1

LEMMA ReplacedElem ==
    ASSUME NEW S, NEW s \in Seq(S), NEW i, NEW x \in S
    PROVE  /\ [s EXCEPT ![i] = x] \in Seq(S)
           /\ Len([s EXCEPT ![i] = x]) = Len(s)
<1> DEFINE t == [k \in 1 .. Len(s) |-> IF k = i THEN x ELSE s[k]]
<1>1. t \in Seq(S) /\ Len(t) = Len(s)
  OBVIOUS
<1>2. [s EXCEPT ![i] = x] = t
  OBVIOUS
<1> QED
  BY <1>1, <1>2

LEMMA AppendElems ==
    ASSUME NEW S, NEW s \in Seq(S), NEW x \in S
    PROVE  /\ Append(s, x) \in Seq(S)
           /\ Len(Append(s, x)) = Len(s) + 1
           /\ Range(Append(s, x)) = Range(s) \cup {x}
           /\ Distinct(s) /\ x \notin Range(s) => Distinct(Append(s, x))
<1> DEFINE t == Append(s, x)
           n == Len(s)
<1>1. /\ t \in Seq(S) /\ Len(t) = n + 1 /\ n \in Nat /\ DOMAIN s = 1 .. n
      /\ DOMAIN t = 1 .. (n + 1) /\ t[n + 1] = x
      /\ \A i \in 1 .. n : t[i] = s[i]
  OBVIOUS
<1> HIDE DEF t, n
<1>2. Range(t) = Range(s) \cup {x}
  <2>1. n + 1 \in DOMAIN t /\ DOMAIN s \subseteq DOMAIN t
    BY <1>1
  <2>2. \A i \in DOMAIN t : i \in DOMAIN s \/ t[i] = x
    BY <1>1
  <2> QED
    BY <1>1, <2>1, <2>2 DEF Range
<1>3. ASSUME Distinct(s), x \notin Range(s) PROVE Distinct(t)
  <2>1. \A i \in DOMAIN t : i = n + 1 \/ i \in DOMAIN s
    BY <1>1
  <2>2. \A i \in DOMAIN s : t[i] # x
    BY <1>1, <1>3 DEF Range
  <2> QED
    BY <1>1, <1>3, <2>1, <2>2 DEF Distinct
<1> QED
  BY <1>1, <1>2, <1>3 DEF t, n

LEMMA RemoveAtElems ==
    ASSUME NEW S, NEW s \in Seq(S), NEW i \in DOMAIN s
    PROVE  /\ RemoveAt(s, i) \in Seq(S)
           /\ Range(RemoveAt(s, i)) \subseteq Range(s)
           /\ Range(s) \subseteq Range(RemoveAt(s, i)) \cup {s[i]}
           /\ Distinct(s) => Distinct(RemoveAt(s, i)) /\ s[i] \notin Range(RemoveAt(s, i))
<1> DEFINE n == Len(s)
           a == SubSeq(s, 1, i - 1)
           b == SubSeq(s, i + 1, n)
           t == RemoveAt(s, i)
<1>1. n \in Nat /\ DOMAIN s = 1 .. n /\ i \in 1 .. n
  OBVIOUS
<1>2. a \in Seq(S) /\ Len(a) = i - 1 /\ \A j \in 1 .. (i - 1) : a[j] = s[j]
  BY <1>1
<1>3. b \in Seq(S) /\ Len(b) = n - i /\ \A j \in 1 .. (n - i) : b[j] = s[i + j]
  BY <1>1
<1>4. t = a \o b
  BY DEF RemoveAt
<1> HIDE DEF a, b, n
<1>5. /\ a \o b \in Seq(S) /\ Len(a \o b) = (i - 1) + (n - i)
      /\ \A j \in 1 .. ((i - 1) + (n - i)) :
            (a \o b)[j] = IF j <= i - 1 THEN a[j] ELSE b[j - (i - 1)]
  BY <1>1, <1>2, <1>3
<1> HIDE DEF t
<1>6. t \in Seq(S) /\ Len(t) = n - 1 /\ DOMAIN t = 1 .. (n - 1)
  BY <1>1, <1>4, <1>5
<1>7. \A j \in 1 .. (n - 1) : t[j] = s[IF j < i THEN j ELSE j + 1]
  <2> SUFFICES ASSUME NEW j \in 1 .. (n - 1) PROVE t[j] = s[IF j < i THEN j ELSE j + 1]
    OBVIOUS
  <2>1. CASE j < i
    <3>1. j <= i - 1 /\ j \in 1 .. (i - 1) /\ j \in 1 .. ((i - 1) + (n - i))
      BY <1>1, <2>1
    <3> QED
      BY <1>2, <1>4, <1>5, <2>1, <3>1
  <2>2. CASE ~(j < i)
    <3>1. /\ ~(j <= i - 1) /\ j - (i - 1) \in 1 .. (n - i)
          /\ j \in 1 .. ((i - 1) + (n - i)) /\ i + (j - (i - 1)) = j + 1
      BY <1>1, <2>2
    <3> QED
      BY <1>3, <1>4, <1>5, <2>2, <3>1
  <2> QED
    BY <2>1, <2>2
<1>8. \A j \in DOMAIN t :
          /\ (IF j < i THEN j ELSE j + 1) \in DOMAIN s \ {i}
          /\ t[j] = s[IF j < i THEN j ELSE j + 1]
  BY <1>1, <1>6, <1>7
<1>9. ASSUME NEW k \in DOMAIN s, k # i PROVE \E j \in DOMAIN t : t[j] = s[k]
  <2>1. CASE k < i
    BY <1>1, <1>6, <1>7, <2>1
  <2>2. CASE ~(k < i)
    <3>1. k - 1 \in DOMAIN t /\ ~(k - 1 < i) /\ (k - 1) + 1 = k
      BY <1>1, <1>6, <1>9, <2>2
    <3> QED
      BY <1>8, <3>1
  <2> QED
    BY <2>1, <2>2
<1>10. Range(t) \subseteq Range(s) /\ Range(s) \subseteq Range(t) \cup {s[i]}
  BY <1>8, <1>9 DEF Range
<1>11. ASSUME Distinct(s) PROVE Distinct(t) /\ s[i] \notin Range(t)
  <2>1. s[i] \notin Range(t)
    BY <1>8, <1>11 DEF Range, Distinct
  <2>2. \A j, k \in DOMAIN t : j # k =>
            (IF j < i THEN j ELSE j + 1) # (IF k < i THEN k ELSE k + 1)
    BY <1>1, <1>6
  <2>3. Distinct(t)
    BY <1>8, <1>11, <2>2 DEF Distinct
  <2> QED
    BY <2>1, <2>3
<1> QED
  BY <1>6, <1>10, <1>11 DEF t

LEMMA TailElems ==
    ASSUME NEW S, NEW s \in Seq(S), s # <<>>
    PROVE  /\ Tail(s) \in Seq(S) /\ Head(s) \in S
           /\ Head(s) \in Range(s) /\ Range(Tail(s)) \subseteq Range(s)
           /\ Range(s) \subseteq Range(Tail(s)) \cup {Head(s)}
           /\ Distinct(s) => Distinct(Tail(s)) /\ Head(s) \notin Range(Tail(s))
<1> DEFINE n == Len(s)
           t == Tail(s)
<1>1. /\ n \in Nat /\ n >= 1 /\ DOMAIN s = 1 .. n /\ Head(s) = s[1] /\ s[1] \in S
      /\ t \in Seq(S) /\ Len(t) = n - 1 /\ DOMAIN t = 1 .. (n - 1)
      /\ \A j \in 1 .. (n - 1) : t[j] = s[j + 1]
  OBVIOUS
<1> HIDE DEF n, t
<1>2. 1 \in DOMAIN s /\ \A j \in DOMAIN t : j + 1 \in DOMAIN s /\ j + 1 # 1 /\ t[j] = s[j + 1]
  BY <1>1
<1>3. \A k \in DOMAIN s : k = 1 \/ (k - 1 \in DOMAIN t /\ t[k - 1] = s[k])
  BY <1>1
<1>4. Range(t) \subseteq Range(s) /\ Range(s) \subseteq Range(t) \cup {s[1]} /\ s[1] \in Range(s)
  BY <1>2, <1>3 DEF Range
<1>5. ASSUME Distinct(s) PROVE Distinct(t) /\ s[1] \notin Range(t)
  <2>1. \A j, k \in DOMAIN t : j # k => j + 1 # k + 1
    BY <1>1
  <2> QED
    BY <1>2, <1>5, <2>1 DEF Distinct, Range
<1> QED
  BY <1>1, <1>4, <1>5 DEF t

-----------------------------------------------------------------------------
(* The inductive invariant.                                                *)

\* A job is in one queue, once, or with one worker, and not done; a worker that
\* goes on to dequeue has found a job, and one that executes has taken it.
QueueInv ==
    /\ \A w \in Threads : Distinct(job_queue[w])
    /\ \A w, x \in Threads : w # x => Range(job_queue[w]) \cap Range(job_queue[x]) = {}
    /\ \A w, x \in Threads : job[w] # NoJob =>
          job[w] \notin Range(job_queue[x]) /\ (w # x => job[w] # job[x])
    /\ \A w \in Threads : \A j \in Range(job_queue[w]) : future[j] = "pending"
    /\ \A w \in Threads : job[w] # NoJob => future[job[w]] = "pending"
    /\ \A w \in Threads : wpc[w] = "dequeue" => job_queue[w] # <<>>
    /\ \A w \in Threads : wpc[w] = "execute" => job[w] # NoJob

\* A job's future is polled, or its result is on its way to one client or
\* delivered there; a job that is not done is polled.
ResultInv ==
    /\ Distinct(thread_results) /\ Distinct(results)
    /\ Range(thread_results) \cap Range(results) = {}
    /\ \A c \in Clients :
          /\ Distinct(received[c])
          /\ Range(received[c]) \cap Range(thread_results) = {}
          /\ Range(received[c]) \cap Range(results) = {}
    /\ \A c, d \in Clients : c # d => Range(received[c]) \cap Range(received[d]) = {}
    /\ \A j \in DOMAIN jobs : future[j] = "pending" => j \in Range(thread_results)

IInv == TypeOK /\ ConnectionsDistinct /\ QueueInv /\ ResultInv

LEMMA ElemsOf ==
    ASSUME NEW S, NEW s \in Seq(S)
    PROVE  Range(s) \subseteq S
BY DEF Range

LEMMA InitInv == Init => IInv
<1> SUFFICES ASSUME Init PROVE IInv
  OBVIOUS
<1> USE DEF Init
<1>1. DOMAIN <<>> = {} /\ Len(<<>>) = 0 /\ \A S : <<>> \in Seq(S)
  OBVIOUS
<1>2. Range(<<>>) = {} /\ Distinct(<<>>)
  BY <1>1 DEF Range, Distinct
<1>3. DOMAIN sockets = {} /\ Range(sockets) = {}
  BY DEF Range
<1>4. 0 \in 0 .. PoolSize - 1 /\ 0 \in 0 .. MaxCommands
  BY SizesAssumption
<1>5. at \in [phase: Phases, pos: Nat \ {0}]
  BY DEF At, Phases
<1>6. TypeOK
  BY <1>1, <1>3, <1>4, <1>5 DEF TypeOK, WorkerPcs
<1>7. ConnectionsDistinct
  BY <1>1 DEF ConnectionsDistinct
<1>8. QueueInv
  BY <1>2 DEF QueueInv
<1>9. ResultInv
  BY <1>1, <1>2 DEF ResultInv
<1> QED
  BY <1>6, <1>7, <1>8, <1>9 DEF IInv

-----------------------------------------------------------------------------
(* The clients.                                                            *)

LEMMA ClientType ==
    ASSUME TypeOK, NEW c \in Clients, Client(c)
    PROVE  TypeOK'
<1> USE DEF TypeOK
<1>1. UNCHANGED <<terminated, managerVars, workerVars>>
  BY DEF Client
<1>2. /\ link \in [Clients -> {"away", "backlog", "open", "closed"}]
      /\ inbox \in [Clients -> Seq(Packet)] /\ rest \in [Clients -> BOOLEAN]
      /\ sent \in [Clients -> 0 .. MaxCommands] /\ MaxCommands \in Nat
  BY SizesAssumption
<1>3. ASSUME link' \in [Clients -> {"away", "backlog", "open", "closed"}],
             inbox' \in [Clients -> Seq(Packet)], rest' \in [Clients -> BOOLEAN],
             sent' \in [Clients -> 0 .. MaxCommands], received' = received
      PROVE  TypeOK'
  BY <1>1, <1>3 DEF managerVars, jobVars, workerVars
<1>4. CASE Connect(c) \/ Leave(c)
  BY <1>2, <1>3, <1>4 DEF Connect, Leave, netVars
<1>5. CASE SendCommand(c)
  <2>1. PICK split \in BOOLEAN :
          inbox' = [inbox EXCEPT ![c] = Append(@,
                [client |-> c, number |-> sent[c] + 1,
                 part |-> IF split THEN "head" ELSE "whole"])]
          /\ rest' = [rest EXCEPT ![c] = split]
    <3>1. PICK split \in {FALSE} \cup {c \in Flaky} :
          inbox' = [inbox EXCEPT ![c] = Append(@,
                [client |-> c, number |-> sent[c] + 1,
                 part |-> IF split THEN "head" ELSE "whole"])]
          /\ rest' = [rest EXCEPT ![c] = split]
      BY <1>5 DEF SendCommand
    <3> QED
      BY <3>1
  <2>2. sent' = [sent EXCEPT ![c] = @ + 1] /\ sent[c] < MaxCommands
        /\ UNCHANGED <<link, received>>
    BY <1>5 DEF SendCommand
  <2> DEFINE p == [client |-> c, number |-> sent[c] + 1,
                   part |-> IF split THEN "head" ELSE "whole"]
  <2>3. p \in Packet
    BY <1>2 DEF Packet, Parts
  <2> HIDE DEF p
  <2>4. Append(inbox[c], p) \in Seq(Packet)
    BY <1>2, <2>3
  <2>5. inbox' \in [Clients -> Seq(Packet)]
    BY <1>2, <2>1, <2>4 DEF p
  <2>6. sent' \in [Clients -> 0 .. MaxCommands]
    BY <1>2, <2>2
  <2> QED
    BY <1>2, <1>3, <2>1, <2>2, <2>5, <2>6
<1>6. CASE RestArrives(c)
  <2> DEFINE p == [client |-> c, number |-> sent[c],
                   part |-> IF inbox[c] = <<>> THEN "tail" ELSE "whole"]
  <2>1. /\ rest' = [rest EXCEPT ![c] = FALSE] /\ inbox' = [inbox EXCEPT ![c] = <<p>>]
        /\ UNCHANGED <<link, sent, received>>
    BY <1>6 DEF RestArrives
  <2>2. p \in Packet
    BY <1>2 DEF Packet, Parts
  <2> HIDE DEF p
  <2>3. <<p>> \in Seq(Packet)
    BY <2>2
  <2> QED
    BY <1>2, <1>3, <2>1, <2>3
<1> QED
  BY <1>4, <1>5, <1>6 DEF Client

LEMMA ClientStep ==
    ASSUME IInv, NEW c \in Clients, Client(c)
    PROVE  IInv'
<1>1. TypeOK'
  BY ClientType DEF IInv
<1>2. UNCHANGED <<connections, received, jobs, thread_results, results, job_queue, wpc,
                  job, future>>
  BY DEF Client, managerVars, jobVars, workerVars, Connect, SendCommand, RestArrives, Leave
<1> QED
  BY <1>1, <1>2 DEF IInv, ConnectionsDistinct, QueueInv, ResultInv

-----------------------------------------------------------------------------
(* The worker threads.                                                     *)

LEMMA WorkerType ==
    ASSUME TypeOK, QueueInv, NEW w \in Threads, Worker(w)
    PROVE  TypeOK'
<1>1. UNCHANGED <<clientVars, managerVars>>
  BY DEF Worker
<1>2. /\ job_queue \in [Threads -> Seq(DOMAIN jobs)] /\ wpc \in [Threads -> WorkerPcs]
      /\ job \in [Threads -> DOMAIN jobs \cup {NoJob}] /\ terminated \in BOOLEAN
      /\ future \in Seq({"pending", "answer", "throw"}) /\ Len(future) = Len(jobs)
  BY DEF TypeOK
<1>3. ASSUME job_queue' \in [Threads -> Seq(DOMAIN jobs)], wpc' \in [Threads -> WorkerPcs],
             job' \in [Threads -> DOMAIN jobs \cup {NoJob}], terminated' \in BOOLEAN,
             future' \in Seq({"pending", "answer", "throw"}), Len(future') = Len(jobs)
      PROVE  TypeOK'
  BY <1>1, <1>3 DEF TypeOK, clientVars, netVars, managerVars, jobVars
<1>4. CASE CheckQueue(w) \/ Block(w) \/ WaitTimesOut(w)
  BY <1>2, <1>3, <1>4 DEF CheckQueue, Block, WaitTimesOut, GotoW, WorkerPcs
<1>5. CASE Dequeue(w)
  <2>1. /\ job' = [job EXCEPT ![w] = Head(job_queue[w])]
        /\ job_queue' = [job_queue EXCEPT ![w] = Tail(@)]
        /\ wpc' = [wpc EXCEPT ![w] = "execute"] /\ UNCHANGED <<terminated, future>>
        /\ job_queue[w] # <<>>
    BY <1>5 DEF Dequeue, GotoW, QueueInv
  <2>2. Head(job_queue[w]) \in DOMAIN jobs /\ Tail(job_queue[w]) \in Seq(DOMAIN jobs)
    BY <1>2, <2>1, TailElems
  <2> QED
    BY <1>2, <1>3, <2>1, <2>2 DEF WorkerPcs
<1>6. CASE Execute(w)
  <2>1. /\ job' = [job EXCEPT ![w] = NoJob] /\ UNCHANGED job_queue
        /\ wpc' = [wpc EXCEPT ![w] = "check"]
    BY <1>6 DEF Execute, GotoW
  <2>2. PICK outcome \in Outcomes :
          IF outcome = "assert"
          THEN terminated' = TRUE /\ UNCHANGED future
          ELSE /\ future' = [future EXCEPT ![job[w]] = outcome]
               /\ UNCHANGED terminated
    BY <1>6 DEF Execute
  <2>3. outcome \in {"answer", "throw", "assert"}
    BY EnvironmentAssumption
  <2>4. /\ terminated' \in BOOLEAN /\ future' \in Seq({"pending", "answer", "throw"})
        /\ Len(future') = Len(future)
    <3> DEFINE S == {"pending", "answer", "throw"}
    <3>1. CASE outcome = "assert"
      BY <1>2, <2>2, <3>1
    <3>2. CASE outcome # "assert"
      <4>1. outcome \in S /\ future' = [future EXCEPT ![job[w]] = outcome]
            /\ terminated' = terminated /\ future \in Seq(S)
        BY <1>2, <2>2, <2>3, <3>2
      <4> HIDE DEF S
      <4>2. [future EXCEPT ![job[w]] = outcome] \in Seq(S)
            /\ Len([future EXCEPT ![job[w]] = outcome]) = Len(future)
        BY <4>1, ReplacedElem
      <4> QED
        BY <1>2, <4>1, <4>2 DEF S
    <3> QED
      BY <3>1, <3>2
  <2> QED
    BY <1>2, <1>3, <2>1, <2>4 DEF WorkerPcs
<1> QED
  BY <1>4, <1>5, <1>6 DEF Worker

\* A worker takes a job out of its queue and runs it: the job keeps one holder
\* until it is done, and no other job's future changes.
LEMMA WorkerQueue ==
    ASSUME TypeOK, QueueInv, NEW w \in Threads, Worker(w)
    PROVE  /\ QueueInv'
           /\ \A j \in DOMAIN jobs : future'[j] = "pending" => future[j] = "pending"
<1>1. /\ job_queue \in [Threads -> Seq(DOMAIN jobs)] /\ wpc \in [Threads -> WorkerPcs]
      /\ job \in [Threads -> DOMAIN jobs \cup {NoJob}]
      /\ future \in Seq({"pending", "answer", "throw"}) /\ DOMAIN future = DOMAIN jobs
      /\ NoJob \notin DOMAIN jobs
  <2>1. jobs \in Seq(Packet) /\ future \in Seq({"pending", "answer", "throw"})
        /\ Len(future) = Len(jobs)
    BY DEF TypeOK
  <2>2. NoJob \notin DOMAIN jobs /\ DOMAIN future = DOMAIN jobs
    BY <2>1 DEF NoJob
  <2> QED
    BY <2>1, <2>2 DEF TypeOK
<1>2. CASE CheckQueue(w) \/ Block(w) \/ WaitTimesOut(w)
  <2>1. UNCHANGED <<job_queue, job, future>>
    BY <1>2 DEF CheckQueue, Block, WaitTimesOut
  <2>2. /\ \A x \in Threads : wpc'[x] = "dequeue" => job_queue[x] # <<>>
        /\ \A x \in Threads : wpc'[x] = "execute" => job[x] # NoJob
    BY <1>1, <1>2 DEF CheckQueue, Block, WaitTimesOut, GotoW, QueueInv
  <2> QED
    BY <2>1, <2>2 DEF QueueInv
<1>3. CASE Dequeue(w)
  <2> DEFINE q == job_queue[w]
  <2>1. /\ job' = [job EXCEPT ![w] = Head(q)]
        /\ job_queue' = [job_queue EXCEPT ![w] = Tail(q)]
        /\ wpc' = [wpc EXCEPT ![w] = "execute"] /\ UNCHANGED future
        /\ q # <<>> /\ Distinct(q) /\ q \in Seq(DOMAIN jobs)
    BY <1>1, <1>3 DEF Dequeue, GotoW, QueueInv
  <2> HIDE DEF q
  <2>2. /\ Head(q) \in Range(q) /\ Range(Tail(q)) \subseteq Range(q)
        /\ Distinct(Tail(q)) /\ Head(q) \notin Range(Tail(q))
    BY <2>1, TailElems
  <2>3. \A x \in Threads :
            /\ job'[x] = IF x = w THEN Head(q) ELSE job[x]
            /\ job_queue'[x] = IF x = w THEN Tail(q) ELSE job_queue[x]
            /\ wpc'[x] = IF x = w THEN "execute" ELSE wpc[x]
    BY <1>1, <2>1
  <2>4. \A x \in Threads :
            Range(job_queue'[x]) = IF x = w THEN Range(Tail(q)) ELSE Range(job_queue[x])
    BY <2>3
  <2>5. \A x \in Threads : Distinct(job_queue'[x])
    BY <2>2, <2>3 DEF QueueInv
  <2>6. \A x, y \in Threads :
            x # y => Range(job_queue'[x]) \cap Range(job_queue'[y]) = {}
    BY <2>2, <2>4 DEF QueueInv, q
  <2>7. \A x, y \in Threads : job'[x] # NoJob =>
            job'[x] \notin Range(job_queue'[y]) /\ (x # y => job'[x] # job'[y])
    BY <2>2, <2>3, <2>4 DEF QueueInv, q
  <2>8. \A x \in Threads : \A j \in Range(job_queue'[x]) : future'[j] = "pending"
    BY <2>1, <2>2, <2>4 DEF QueueInv, q
  <2>9. \A x \in Threads : job'[x] # NoJob => future'[job'[x]] = "pending"
    BY <2>1, <2>2, <2>3 DEF QueueInv, q
  <2>10. /\ \A x \in Threads : wpc'[x] = "dequeue" => job_queue'[x] # <<>>
         /\ \A x \in Threads : wpc'[x] = "execute" => job'[x] # NoJob
    <3>1. Head(q) # NoJob
      BY <1>1, <2>1
    <3> QED
      BY <2>3, <3>1 DEF QueueInv
  <2> QED
    BY <2>1, <2>5, <2>6, <2>7, <2>8, <2>9, <2>10 DEF QueueInv
<1>4. CASE Execute(w)
  <2>1. /\ job' = [job EXCEPT ![w] = NoJob] /\ UNCHANGED job_queue
        /\ wpc' = [wpc EXCEPT ![w] = "check"]
    BY <1>4 DEF Execute, GotoW
  <2>2. PICK outcome \in Outcomes :
          future' = future \/ future' = [future EXCEPT ![job[w]] = outcome]
    BY <1>4 DEF Execute
  <2>3. \A j \in DOMAIN jobs : j # job[w] => future'[j] = future[j]
    BY <1>1, <2>2
  <2>4. \A j \in DOMAIN jobs : future'[j] = "pending" => future[j] = "pending"
    <3>1. CASE job[w] = NoJob
      BY <1>1, <2>3, <3>1
    <3>2. CASE job[w] # NoJob
      BY <2>3, <3>2 DEF QueueInv
    <3> QED
      BY <3>1, <3>2
  <2>5. \A x \in Threads : job'[x] = IF x = w THEN NoJob ELSE job[x]
    BY <1>1, <2>1
  <2>6. \A x \in Threads : \A j \in Range(job_queue[x]) :
            j \in DOMAIN jobs /\ j # job[w]
    <3>1. \A x \in Threads : Range(job_queue[x]) \subseteq DOMAIN jobs
      BY <1>1, ElemsOf
    <3> QED
      BY <1>1, <3>1 DEF QueueInv
  <2>7. \A x \in Threads : \A j \in Range(job_queue'[x]) : future'[j] = "pending"
    BY <2>1, <2>3, <2>6 DEF QueueInv
  <2>8. \A x \in Threads : job'[x] # NoJob => future'[job'[x]] = "pending"
    BY <1>1, <2>3, <2>5 DEF QueueInv
  <2>9. /\ \A x \in Threads : wpc'[x] = "dequeue" => job_queue'[x] # <<>>
        /\ \A x \in Threads : wpc'[x] = "execute" => job'[x] # NoJob
    BY <1>1, <2>1, <2>5 DEF QueueInv
  <2>10. \A x, y \in Threads : job'[x] # NoJob =>
             job'[x] \notin Range(job_queue'[y]) /\ (x # y => job'[x] # job'[y])
    BY <2>1, <2>5 DEF QueueInv
  <2> QED
    BY <2>1, <2>4, <2>7, <2>8, <2>9, <2>10 DEF QueueInv
<1> QED
  BY <1>2, <1>3, <1>4 DEF Worker

LEMMA WorkerStep ==
    ASSUME IInv, NEW w \in Threads, Worker(w)
    PROVE  IInv'
<1>1. TypeOK' /\ QueueInv'
  BY WorkerType, WorkerQueue DEF IInv
<1>2. UNCHANGED <<connections, received, jobs, thread_results, results>>
  BY DEF Worker, clientVars, managerVars, jobVars
<1>3. \A j \in DOMAIN jobs : future'[j] = "pending" => future[j] = "pending"
  BY WorkerQueue DEF IInv
<1> QED
  BY <1>1, <1>2, <1>3 DEF IInv, ConnectionsDistinct, ResultInv

-----------------------------------------------------------------------------
(* The manager's loop.                                                     *)

Position == [phase: Phases, pos: Nat \ {0}]

\* The steps that only move the loop, wake a worker or end the process.
Turns ==
    \/ NothingToAccept \/ AcceptFails \/ Notify \/ ReceiveNothing \/ ReceiveEnd
    \/ FutureNotReady \/ CollectException \/ CollectEnd \/ SendToClosedEnd \/ SendEnd

LEMMA TurnsStep ==
    ASSUME IInv, Turns
    PROVE  IInv'
<1>1. TypeOK /\ ConnectionsDistinct /\ QueueInv /\ ResultInv
  BY DEF IInv
<1>2. at \in Position /\ terminated \in BOOLEAN /\ wpc \in [Threads -> WorkerPcs]
  BY <1>1 DEF TypeOK, Position
<1>3. UNCHANGED <<clientVars, sockets, connections, results, jobVars, job_queue, job, future>>
  BY DEF Turns, NothingToAccept, AcceptFails, Notify, ReceiveNothing, ReceiveEnd,
     FutureNotReady, CollectException, CollectEnd, SendToClosedEnd, SendEnd,
     clientVars, managerVars, workerVars
<1>4. at' \in Position
  <2>1. at.pos \in Nat \ {0} /\ 1 \in Nat \ {0}
    BY <1>2 DEF Position
  <2>2. \A phase \in Phases, pos \in Nat \ {0} : At(phase, pos) \in Position
    BY DEF At, Position
  <2>3. at.pos + 1 \in Nat \ {0}
    BY <2>1
  <2>4. at' = at \/ \E phase \in Phases : at' = At(phase, 1) \/ at' = At(phase, at.pos + 1)
    BY DEF Turns, NothingToAccept, AcceptFails, Notify, ReceiveNothing, ReceiveEnd,
       FutureNotReady, CollectException, CollectEnd, SendToClosedEnd, SendEnd,
       NextConnection, managerVars, Phases
  <2> QED
    BY <1>2, <2>1, <2>2, <2>3, <2>4
<1>5. terminated' \in BOOLEAN
  BY <1>2 DEF Turns, NothingToAccept, AcceptFails, Notify, ReceiveNothing, ReceiveEnd,
     FutureNotReady, CollectException, CollectEnd, SendToClosedEnd, SendEnd
<1>6. wpc' = wpc \/ wpc' = [w \in Threads |->
          IF w = next_thread /\ wpc[w] = "blocked" THEN "check" ELSE wpc[w]]
  BY DEF Turns, NothingToAccept, AcceptFails, Notify, ReceiveNothing, ReceiveEnd,
     FutureNotReady, CollectException, CollectEnd, SendToClosedEnd, SendEnd, workerVars
<1>7. wpc' \in [Threads -> WorkerPcs]
      /\ \A w \in Threads : wpc'[w] \in {"dequeue", "execute"} => wpc'[w] = wpc[w]
  BY <1>2, <1>6 DEF WorkerPcs
<1>8. TypeOK'
  BY <1>1, <1>3, <1>4, <1>5, <1>7 DEF TypeOK, clientVars, netVars, jobVars, Position
<1> QED
  BY <1>1, <1>3, <1>7, <1>8 DEF IInv, ConnectionsDistinct, QueueInv, ResultInv, clientVars, jobVars

\* There is a lowest free descriptor.
LEMMA LowestFd ==
    ASSUME FreeFds # {}
    PROVE  Min(FreeFds) \in FreeFds
<1> DEFINE R == OpToRel(<, Nat)
           S == FreeFds
<1>1. S \subseteq Nat /\ S # {}
  BY SizesAssumption DEF FreeFds, Fds
<1>2. IsWellFoundedOn(R, Nat)
  BY NatLessThanWellFounded
<1>3. \A x \in Nat, y \in Nat : x < y => <<x, y>> \in R
  BY DEF OpToRel
<1> HIDE DEF R, S
<1>4. PICK x \in S : \A y \in S : ~ (<<y, x>> \in R)
  BY <1>1, <1>2, WFMin
<1>5. ASSUME NEW y \in S PROVE x <= y
  <2>1. x \in Nat /\ y \in Nat /\ ~(y < x)
    BY <1>1, <1>3, <1>4
  <2> QED
    BY <2>1
<1> QED
  BY <1>5 DEF Min, S

LEMMA AcceptStep ==
    ASSUME IInv, Accept
    PROVE  IInv'
<1> DEFINE fd == Min(FreeFds)
<1>1. TypeOK /\ ConnectionsDistinct /\ QueueInv /\ ResultInv
  BY DEF IInv
<1>2. PICK c \in Clients :
          /\ link' = [link EXCEPT ![c] = "open"]
          /\ sockets' = [x \in DOMAIN sockets \cup {fd} |-> IF x = fd THEN c ELSE sockets[x]]
  BY DEF Accept, Backlog
<1>3. /\ connections' = Append(connections, fd) /\ at' = At("receive", 1)
      /\ fd \in Fds \ DOMAIN sockets
      /\ UNCHANGED <<netVars, received, terminated, results, jobVars, workerVars>>
  BY LowestFd DEF Accept, PushConnection, FreeFds
<1> HIDE DEF fd
<1>4. DOMAIN sockets' = DOMAIN sockets \cup {fd} /\ Range(sockets') \subseteq Clients
      /\ DOMAIN sockets' \subseteq Fds
  <2>1. /\ DOMAIN sockets' = DOMAIN sockets \cup {fd}
        /\ \A x \in DOMAIN sockets' : sockets'[x] = IF x = fd THEN c ELSE sockets[x]
    BY <1>2
  <2> QED
    BY <1>1, <1>3, <2>1 DEF TypeOK, Range
<1>5. connections \in Seq(DOMAIN sockets) /\ connections \in Seq(DOMAIN sockets')
  BY <1>1, <1>4, WiderSeq DEF TypeOK
<1>6. fd \in DOMAIN sockets' /\ fd \notin Range(connections)
  BY <1>3, <1>4, <1>5, ElemsOf
<1>7. Distinct(connections)
  BY <1>1 DEF ConnectionsDistinct, Distinct
<1>8. connections' \in Seq(DOMAIN sockets') /\ Distinct(connections')
  BY <1>3, <1>5, <1>6, <1>7, AppendElems
<1>9. at' \in Position
  BY <1>3 DEF At, Position, Phases
<1>10. link' \in [Clients -> {"away", "backlog", "open", "closed"}]
  BY <1>1, <1>2 DEF TypeOK
<1>11. TypeOK'
  BY <1>1, <1>3, <1>4, <1>8, <1>9, <1>10 DEF TypeOK, netVars, jobVars, workerVars, Position
<1>12. ConnectionsDistinct'
  BY <1>8 DEF ConnectionsDistinct, Distinct
<1>13. QueueInv' /\ ResultInv'
  BY <1>1, <1>3 DEF QueueInv, ResultInv, jobVars, workerVars
<1> QED
  BY <1>11, <1>12, <1>13 DEF IInv

LEMMA CloseStep ==
    ASSUME IInv, ReceiveClose \/ ReceiveError
    PROVE  IInv'
<1>1. TypeOK /\ ConnectionsDistinct /\ QueueInv /\ ResultInv
  BY DEF IInv
<1>2. /\ connections' = RemoveAt(connections, at.pos) /\ at.pos <= Len(connections)
      /\ UNCHANGED <<netVars, received, terminated, at, results, jobVars, workerVars>>
      /\ \/ sockets' = sockets
         \/ sockets' = Restrict(sockets, DOMAIN sockets \ {connections[at.pos]})
      /\ link' = link \/ link' = [link EXCEPT ![Peer] = "closed"]
  BY DEF ReceiveClose, ReceiveError, Receiving, Fd, clientVars, netVars
<1>3. connections \in Seq(DOMAIN sockets) /\ at.pos \in Nat \ {0} /\ Distinct(connections)
  BY <1>1 DEF TypeOK, ConnectionsDistinct, Distinct
<1>4. at.pos \in DOMAIN connections
  BY <1>2, <1>3
<1>5. /\ connections' \in Seq(DOMAIN sockets) /\ Distinct(connections')
      /\ connections[at.pos] \notin Range(connections')
  BY <1>2, <1>3, <1>4, RemoveAtElems
<1>6. connections' \in Seq(DOMAIN sockets')
  <2>1. CASE sockets' = sockets
    BY <1>5, <2>1
  <2>2. CASE sockets' = Restrict(sockets, DOMAIN sockets \ {connections[at.pos]})
    <3>1. DOMAIN sockets' = DOMAIN sockets \ {connections[at.pos]}
      BY <2>2 DEF Restrict
    <3>2. \A i \in DOMAIN connections' : connections'[i] \in DOMAIN sockets'
      BY <1>5, <3>1 DEF Range
    <3> QED
      BY <1>5, <3>2
  <2> QED
    BY <1>2, <2>1, <2>2
<1>7. DOMAIN sockets' \subseteq Fds /\ Range(sockets') \subseteq Clients
  BY <1>1, <1>2 DEF TypeOK, Restrict, Range
<1>8. link' \in [Clients -> {"away", "backlog", "open", "closed"}]
  BY <1>1, <1>2 DEF TypeOK
<1>9. TypeOK'
  BY <1>1, <1>2, <1>6, <1>7, <1>8 DEF TypeOK, netVars, jobVars, workerVars
<1>10. ConnectionsDistinct'
  BY <1>5 DEF ConnectionsDistinct, Distinct
<1>11. QueueInv' /\ ResultInv'
  BY <1>1, <1>2 DEF QueueInv, ResultInv, jobVars, workerVars
<1> QED
  BY <1>9, <1>10, <1>11 DEF IInv

\* What a received command changes: its job is new to every list of jobs.
LEMMA CommandFacts ==
    ASSUME TypeOK, ReceiveCommand
    PROVE  LET j == Len(jobs) + 1 IN
           /\ Fd \in DOMAIN sockets /\ Fd \in Fds /\ Peer \in Clients
           /\ inbox[Peer] \in Seq(Packet) /\ inbox[Peer] # <<>>
           /\ jobs' = Append(jobs, Head(inbox[Peer]))
           /\ jobs' \in Seq(Packet) /\ Len(jobs') = Len(jobs) + 1
           /\ DOMAIN jobs' = DOMAIN jobs \cup {j} /\ j \notin DOMAIN jobs /\ j # NoJob
           /\ jobs'[j] = Head(inbox[Peer])
           /\ \A i \in DOMAIN jobs : jobs'[i] = jobs[i] /\ future'[i] = future[i]
           /\ future'[j] = "pending" /\ DOMAIN future = DOMAIN jobs
           /\ future' \in Seq({"pending", "answer", "throw"}) /\ Len(future') = Len(jobs')
<1> DEFINE j == Len(jobs) + 1
<1>1. /\ connections \in Seq(DOMAIN sockets) /\ at.pos \in Nat \ {0}
      /\ DOMAIN sockets \subseteq Fds /\ Range(sockets) \subseteq Clients
      /\ inbox \in [Clients -> Seq(Packet)] /\ jobs \in Seq(Packet)
      /\ future \in Seq({"pending", "answer", "throw"}) /\ Len(future) = Len(jobs)
  BY DEF TypeOK
<1>2. at.pos \in DOMAIN connections
  BY <1>1 DEF ReceiveCommand, Receiving
<1>3. Fd \in DOMAIN sockets /\ Fd \in Fds /\ Peer \in Clients
  BY <1>1, <1>2 DEF Fd, Peer, Range
<1>4. inbox[Peer] \in Seq(Packet) /\ inbox[Peer] # <<>>
  BY <1>1, <1>3 DEF ReceiveCommand
<1>5. jobs' = Append(jobs, Head(inbox[Peer])) /\ future' = Append(future, "pending")
  BY DEF ReceiveCommand
<1>6. Head(inbox[Peer]) \in Packet
  BY <1>4
<1>7. /\ jobs' \in Seq(Packet) /\ Len(jobs') = j
      /\ DOMAIN jobs' = DOMAIN jobs \cup {j} /\ j \notin DOMAIN jobs /\ j # NoJob
      /\ jobs'[j] = Head(inbox[Peer]) /\ \A i \in DOMAIN jobs : jobs'[i] = jobs[i]
  BY <1>1, <1>5, <1>6 DEF NoJob
<1>8. /\ DOMAIN future = DOMAIN jobs /\ future'[j] = "pending"
      /\ \A i \in DOMAIN jobs : future'[i] = future[i]
      /\ future' \in Seq({"pending", "answer", "throw"}) /\ Len(future') = j
  <2> DEFINE S == {"pending", "answer", "throw"}
  <2>1. future \in Seq(S) /\ "pending" \in S
    BY <1>1
  <2> HIDE DEF S
  <2>2. future' \in Seq(S) /\ Len(future') = Len(future) + 1
        /\ future'[Len(future) + 1] = "pending" /\ DOMAIN future = 1 .. Len(future)
        /\ \A i \in DOMAIN future : future'[i] = future[i]
    BY <1>5, <2>1
  <2> QED
    BY <1>1, <2>2 DEF S
<1> QED
  BY <1>3, <1>4, <1>5, <1>7, <1>8

LEMMA CommandStep ==
    ASSUME IInv, ReceiveCommand
    PROVE  IInv'
<1> DEFINE j == Len(jobs) + 1
           J == DOMAIN jobs
           w == GetAvailableThread
<1>1. TypeOK /\ ConnectionsDistinct /\ QueueInv /\ ResultInv
  BY DEF IInv
<1>2. /\ Fd \in Fds /\ Peer \in Clients
      /\ inbox[Peer] \in Seq(Packet) /\ inbox[Peer] # <<>>
      /\ jobs' \in Seq(Packet) /\ Len(jobs') = Len(jobs) + 1
      /\ DOMAIN jobs' = J \cup {j} /\ j \notin J /\ j # NoJob
      /\ \A i \in J : future'[i] = future[i]
      /\ future'[j] = "pending"
      /\ future' \in Seq({"pending", "answer", "throw"}) /\ Len(future') = Len(jobs')
  BY <1>1, CommandFacts
<1>3. /\ thread_results' = Append(thread_results, j)
      /\ job_to_connection' = Append(job_to_connection, Fd)
      /\ next_thread' = w /\ inbox' = [inbox EXCEPT ![Peer] = Tail(@)]
      /\ at' = At("notify", at.pos)
      /\ UNCHANGED <<link, rest, sent, received, sockets, connections, results, wpc, job>>
      /\ \/ w \in Threads /\ job_queue' = [job_queue EXCEPT ![w] = Append(@, j)]
         \/ job_queue' = job_queue
      /\ terminated' = terminated \/ terminated' \in BOOLEAN
  BY DEF ReceiveCommand
<1>4. w \in 0 .. PoolSize - 1
  BY <1>1, SizesAssumption DEF TypeOK, GetAvailableThread
<1> HIDE DEF j, J, w
<1>5. /\ received \in [Clients -> Seq(J)] /\ thread_results \in Seq(J) /\ results \in Seq(J)
      /\ job_queue \in [Threads -> Seq(J)] /\ job \in [Threads -> J \cup {NoJob}]
      /\ inbox \in [Clients -> Seq(Packet)] /\ at \in Position
      /\ job_to_connection \in Seq(Fds) /\ Len(job_to_connection) = Len(jobs)
      /\ terminated \in BOOLEAN
  BY <1>1 DEF TypeOK, J, Position
<1>6. J \subseteq J \cup {j}
  OBVIOUS
<1>7. \A c \in Clients : received[c] \in Seq(J \cup {j}) /\ j \notin Range(received[c])
  BY <1>2, <1>5, <1>6, WiderSeq, ElemsOf
<1>8. results \in Seq(J \cup {j}) /\ j \notin Range(results) /\ j \notin Range(thread_results)
  BY <1>2, <1>5, <1>6, WiderSeq, ElemsOf
<1>9. \A x \in Threads : job_queue[x] \in Seq(J \cup {j}) /\ j \notin Range(job_queue[x])
  BY <1>2, <1>5, <1>6, WiderSeq, ElemsOf
<1>10. \A x \in Threads : job[x] # j
  BY <1>2, <1>5
<1>11. /\ thread_results' \in Seq(J \cup {j}) /\ Distinct(thread_results')
       /\ Range(thread_results') = Range(thread_results) \cup {j}
  <2>1. thread_results \in Seq(J \cup {j}) /\ Distinct(thread_results)
    BY <1>1, <1>5, <1>6, WiderSeq DEF ResultInv
  <2> QED
    BY <1>3, <1>8, <2>1, AppendElems
<1>12. \A x \in Threads :
           \/ job_queue'[x] = job_queue[x]
           \/ job_queue'[x] = Append(job_queue[x], j) /\ x = w
  BY <1>3, <1>5
<1>13. \A x \in Threads :
           /\ job_queue'[x] \in Seq(J \cup {j}) /\ Distinct(job_queue'[x])
           /\ Range(job_queue'[x]) \subseteq Range(job_queue[x]) \cup {j}
           /\ x # w => Range(job_queue'[x]) = Range(job_queue[x])
           /\ job_queue[x] # <<>> => job_queue'[x] # <<>>
  <2> SUFFICES ASSUME NEW x \in Threads
               PROVE  /\ job_queue'[x] \in Seq(J \cup {j}) /\ Distinct(job_queue'[x])
                      /\ Range(job_queue'[x]) \subseteq Range(job_queue[x]) \cup {j}
                      /\ x # w => Range(job_queue'[x]) = Range(job_queue[x])
                      /\ job_queue[x] # <<>> => job_queue'[x] # <<>>
    OBVIOUS
  <2>1. Distinct(job_queue[x]) /\ job_queue[x] \in Seq(J \cup {j})
        /\ j \notin Range(job_queue[x])
    BY <1>1, <1>9 DEF QueueInv
  <2>2. /\ Append(job_queue[x], j) \in Seq(J \cup {j}) /\ Distinct(Append(job_queue[x], j))
        /\ Range(Append(job_queue[x], j)) = Range(job_queue[x]) \cup {j}
        /\ Append(job_queue[x], j) # <<>>
    <3>1. Append(job_queue[x], j) # <<>>
      BY <2>1
    <3> QED
      BY <2>1, <3>1, AppendElems
  <2> QED
    BY <1>12, <2>1, <2>2
<1>14. job_queue' \in [Threads -> Seq(J \cup {j})]
  <2>1. DOMAIN job_queue' = Threads /\ job_queue' = [x \in Threads |-> job_queue'[x]]
    BY <1>3, <1>5
  <2> QED
    BY <1>13, <2>1
<1>15. received \in [Clients -> Seq(J \cup {j})] /\ job \in [Threads -> (J \cup {j}) \cup {NoJob}]
  BY <1>5, <1>7
<1>16. inbox' \in [Clients -> Seq(Packet)]
  <2>1. Tail(inbox[Peer]) \in Seq(Packet)
    BY <1>2
  <2> QED
    BY <1>2, <1>3, <1>5, <2>1
<1>17. at' \in Position
  BY <1>3, <1>5 DEF At, Position, Phases
<1>18. job_to_connection' \in Seq(Fds) /\ Len(job_to_connection') = Len(jobs')
  BY <1>2, <1>3, <1>5
<1>19. terminated' \in BOOLEAN
  BY <1>3, <1>5
<1>20. TypeOK'
  <2>1. DOMAIN jobs' = J \cup {j}
    BY <1>2
  <2> QED
    BY <1>1, <1>2, <1>3, <1>4, <1>8, <1>11, <1>14, <1>15, <1>16, <1>17, <1>18, <1>19, <2>1
       DEF TypeOK, Position
<1>21. ConnectionsDistinct'
  BY <1>1, <1>3 DEF ConnectionsDistinct
<1>22. QueueInv'
  <2>1. ASSUME NEW x \in Threads, NEW y \in Threads, x # y
        PROVE  Range(job_queue'[x]) \cap Range(job_queue'[y]) = {}
    <3>1. Range(job_queue[x]) \cap Range(job_queue[y]) = {}
      BY <1>1, <2>1 DEF QueueInv
    <3>2. j \notin Range(job_queue[x]) /\ j \notin Range(job_queue[y])
      BY <1>9
    <3>3. CASE x # w
      BY <1>13, <3>1, <3>2, <3>3
    <3>4. CASE y # w
      BY <1>13, <3>1, <3>2, <3>4
    <3> QED
      BY <2>1, <3>3, <3>4
  <2>2. \A x, y \in Threads : job'[x] # NoJob =>
            job'[x] \notin Range(job_queue'[y]) /\ (x # y => job'[x] # job'[y])
    BY <1>1, <1>3, <1>10, <1>13 DEF QueueInv
  <2>3. ASSUME NEW x \in Threads, NEW i \in Range(job_queue'[x])
        PROVE  future'[i] = "pending"
    <3>1. CASE i = j
      BY <1>2, <3>1
    <3>2. CASE i # j
      <4>1. i \in Range(job_queue[x]) /\ i \in J
        BY <1>5, <1>13, <2>3, <3>2, ElemsOf
      <4> QED
        BY <1>1, <1>2, <4>1 DEF QueueInv
    <3> QED
      BY <3>1, <3>2
  <2>4. \A x \in Threads : job'[x] # NoJob => future'[job'[x]] = "pending"
    BY <1>1, <1>2, <1>3, <1>5 DEF QueueInv
  <2>5. /\ \A x \in Threads : wpc'[x] = "dequeue" => job_queue'[x] # <<>>
        /\ \A x \in Threads : wpc'[x] = "execute" => job'[x] # NoJob
    BY <1>1, <1>3, <1>13 DEF QueueInv
  <2> QED
    BY <1>13, <2>1, <2>2, <2>3, <2>4, <2>5 DEF QueueInv
<1>23. ResultInv'
  <2>1. \A i \in DOMAIN jobs' : future'[i] = "pending" => i \in Range(thread_results')
    BY <1>1, <1>2, <1>11 DEF ResultInv, J
  <2>2. Distinct(results') /\ Range(thread_results') \cap Range(results') = {}
    BY <1>1, <1>3, <1>8, <1>11 DEF ResultInv
  <2>3. \A c \in Clients :
            /\ Distinct(received'[c])
            /\ Range(received'[c]) \cap Range(thread_results') = {}
            /\ Range(received'[c]) \cap Range(results') = {}
    BY <1>1, <1>3, <1>7, <1>11 DEF ResultInv
  <2>4. \A c, d \in Clients : c # d => Range(received'[c]) \cap Range(received'[d]) = {}
    BY <1>1, <1>3 DEF ResultInv
  <2> QED
    BY <1>11, <2>1, <2>2, <2>3, <2>4 DEF ResultInv
<1> QED
  BY <1>20, <1>21, <1>22, <1>23 DEF IInv

LEMMA CollectStep ==
    ASSUME IInv, CollectResult
    PROVE  IInv'
<1> DEFINE j == thread_results[at.pos]
           J == DOMAIN jobs
<1>1. TypeOK /\ ConnectionsDistinct /\ QueueInv /\ ResultInv
  BY DEF IInv
<1>2. /\ results' = Append(results, j) /\ thread_results' = RemoveAt(thread_results, at.pos)
      /\ future[j] = "answer" /\ at.pos <= Len(thread_results)
      /\ UNCHANGED <<clientVars, terminated, at, sockets, connections, jobs,
                     job_to_connection, next_thread, workerVars>>
  BY DEF CollectResult, Collecting, Future, EraseResult
<1>3. thread_results \in Seq(J) /\ results \in Seq(J) /\ at.pos \in Nat \ {0}
  BY <1>1 DEF TypeOK
<1>4. at.pos \in DOMAIN thread_results /\ j \in J /\ j \in Range(thread_results)
  <2>1. at.pos \in DOMAIN thread_results
    BY <1>2, <1>3
  <2> QED
    BY <1>3, <2>1 DEF Range
<1>5. Distinct(thread_results) /\ Distinct(results) /\ j \notin Range(results)
  BY <1>1, <1>4 DEF ResultInv
<1>6. /\ thread_results' \in Seq(J) /\ Distinct(thread_results')
      /\ Range(thread_results') \subseteq Range(thread_results)
      /\ Range(thread_results) \subseteq Range(thread_results') \cup {j}
      /\ j \notin Range(thread_results')
  BY <1>2, <1>3, <1>4, <1>5, RemoveAtElems
<1> HIDE DEF j, J
<1>7. /\ results' \in Seq(J) /\ Distinct(results')
      /\ Range(results') = Range(results) \cup {j}
  BY <1>2, <1>3, <1>4, <1>5, AppendElems
<1>8. TypeOK'
  BY <1>1, <1>2, <1>6, <1>7 DEF TypeOK, J, clientVars, netVars, workerVars
<1>9. ConnectionsDistinct' /\ QueueInv'
  BY <1>1, <1>2 DEF ConnectionsDistinct, QueueInv, workerVars
<1>10. ResultInv'
  <2>1. Range(thread_results') \cap Range(results') = {}
    BY <1>1, <1>6, <1>7 DEF ResultInv
  <2>2. \A c \in Clients :
            /\ Distinct(received'[c])
            /\ Range(received'[c]) \cap Range(thread_results') = {}
            /\ Range(received'[c]) \cap Range(results') = {}
    BY <1>1, <1>2, <1>4, <1>6, <1>7 DEF ResultInv, clientVars
  <2>3. \A c, d \in Clients : c # d => Range(received'[c]) \cap Range(received'[d]) = {}
    BY <1>1, <1>2 DEF ResultInv, clientVars
  <2>4. \A i \in DOMAIN jobs' : future'[i] = "pending" => i \in Range(thread_results')
    BY <1>1, <1>2, <1>6 DEF ResultInv, workerVars
  <2> QED
    BY <1>6, <1>7, <2>1, <2>2, <2>3, <2>4 DEF ResultInv
<1> QED
  BY <1>8, <1>9, <1>10 DEF IInv

LEMMA SendStep ==
    ASSUME IInv, SendResult \/ SendLost
    PROVE  IInv'
<1> DEFINE j == Head(results)
           J == DOMAIN jobs
<1>1. TypeOK /\ ConnectionsDistinct /\ QueueInv /\ ResultInv
  BY DEF IInv
<1>2. /\ results # <<>> /\ results' = Tail(results)
      /\ UNCHANGED <<netVars, link, terminated, at, sockets, connections, jobVars, workerVars>>
      /\ \/ received' = received
         \/ \E c \in Clients : received' = [received EXCEPT ![c] = Append(@, j)]
  BY DEF SendResult, SendLost, Sending, clientVars, netVars
<1>3. results \in Seq(J) /\ received \in [Clients -> Seq(J)]
  BY <1>1 DEF TypeOK
<1>4. /\ results' \in Seq(J) /\ j \in J /\ j \in Range(results)
      /\ Distinct(results') /\ j \notin Range(results')
      /\ Range(results') \subseteq Range(results)
  BY <1>1, <1>2, <1>3, TailElems DEF ResultInv
<1>5. j \notin Range(thread_results) /\ \A c \in Clients : j \notin Range(received[c])
  BY <1>1, <1>4 DEF ResultInv
<1> HIDE DEF j, J
<1>6. ASSUME received' \in [Clients -> Seq(J)] PROVE TypeOK'
  BY <1>1, <1>2, <1>4, <1>6 DEF TypeOK, J, netVars, jobVars, workerVars
<1>7. ConnectionsDistinct' /\ QueueInv'
  BY <1>1, <1>2 DEF ConnectionsDistinct, QueueInv, workerVars
<1>8. thread_results' = thread_results /\ jobs' = jobs /\ future' = future
  BY <1>2 DEF jobVars, workerVars
<1>9. CASE received' = received
  <2>1. ResultInv'
    BY <1>1, <1>4, <1>8, <1>9 DEF ResultInv
  <2> QED
    BY <1>3, <1>6, <1>7, <1>9, <2>1 DEF IInv
<1>10. ASSUME NEW c \in Clients, received' = [received EXCEPT ![c] = Append(@, j)]
       PROVE  IInv'
  <2>1. /\ Append(received[c], j) \in Seq(J) /\ Distinct(Append(received[c], j))
        /\ Range(Append(received[c], j)) = Range(received[c]) \cup {j}
    BY <1>1, <1>3, <1>4, <1>5, AppendElems DEF ResultInv
  <2>2. received' \in [Clients -> Seq(J)]
    BY <1>3, <1>10, <2>1
  <2>3. \A d \in Clients :
            /\ Distinct(received'[d])
            /\ Range(received'[d]) = IF d = c THEN Range(received[c]) \cup {j}
                                     ELSE Range(received[d])
    BY <1>1, <1>3, <1>10, <2>1 DEF ResultInv
  <2>4. \A d \in Clients : /\ Range(received'[d]) \cap Range(thread_results') = {}
                           /\ Range(received'[d]) \cap Range(results') = {}
    BY <1>1, <1>4, <1>5, <1>8, <2>3 DEF ResultInv
  <2>5. \A d, e \in Clients : d # e => Range(received'[d]) \cap Range(received'[e]) = {}
    BY <1>1, <1>5, <2>3 DEF ResultInv
  <2>6. /\ Distinct(thread_results') /\ Distinct(results')
        /\ Range(thread_results') \cap Range(results') = {}
        /\ \A i \in DOMAIN jobs' : future'[i] = "pending" => i \in Range(thread_results')
    BY <1>1, <1>4, <1>8 DEF ResultInv
  <2>7. ResultInv'
    BY <2>3, <2>4, <2>5, <2>6 DEF ResultInv
  <2> QED
    BY <1>6, <1>7, <2>2, <2>7 DEF IInv
<1> QED
  BY <1>2, <1>9, <1>10

LEMMA NextInv ==
    ASSUME IInv, Next
    PROVE  IInv'
<1>1. ASSUME Manager PROVE IInv'
  <2>1. Turns \/ Accept \/ ReceiveCommand \/ ReceiveClose \/ ReceiveError \/ CollectResult
        \/ SendResult \/ SendLost
    BY <1>1 DEF Manager, Turns
  <2> QED
    BY <2>1, TurnsStep, AcceptStep, CommandStep, CloseStep, CollectStep, SendStep
<1> QED
  BY <1>1, ClientStep, WorkerStep DEF Next

LEMMA StutterInv ==
    ASSUME IInv, UNCHANGED vars
    PROVE  IInv'
<1>1. UNCHANGED <<clientVars, terminated, managerVars, workerVars>>
  BY DEF vars
<1>2. TypeOK'
  BY <1>1 DEF IInv, TypeOK, clientVars, netVars, managerVars, jobVars, workerVars
<1> QED
  BY <1>1, <1>2 DEF IInv, ConnectionsDistinct, QueueInv, ResultInv, clientVars,
                    managerVars, jobVars, workerVars

LEMMA InvAlways == Spec => []IInv
<1>1. IInv /\ [Next]_vars => IInv'
  BY NextInv, StutterInv
<1> QED
  BY <1>1, InitInv, PTL DEF Spec

-----------------------------------------------------------------------------
(* What follows from it.                                                   *)

\* A job number is only ever one of a job received before it.
THEOREM TypeCorrect == Spec => []TypeOK
<1>1. IInv => TypeOK
  BY DEF IInv
<1> QED
  BY <1>1, InvAlways, PTL

\* However connections close and descriptors are reused, the manager never
\* polls one descriptor twice.
THEOREM PolledOnce == Spec => []ConnectionsDistinct
<1>1. IInv => ConnectionsDistinct
  BY DEF IInv
<1> QED
  BY <1>1, InvAlways, PTL

\* A set whose elements are all the same.
LEMMA AtMostOne ==
    ASSUME NEW S, \A x, y \in S : x = y
    PROVE  /\ Cardinality(S) \in {0, 1}
           /\ S = {} => Cardinality(S) = 0
           /\ S # {} => Cardinality(S) = 1
<1>1. CASE S = {}
  BY <1>1, FS_EmptySet
<1>2. CASE S # {}
  <2>1. PICK x \in S : TRUE
    BY <1>2
  <2>2. S = {x}
    BY <2>1
  <2> QED
    BY <2>2, FS_Singleton
<1> QED
  BY <1>1, <1>2

LEMMA OccursOnce ==
    ASSUME NEW s, NEW j, Distinct(s)
    PROVE  Occurrences(s, j) = IF j \in Range(s) THEN 1 ELSE 0
<1> DEFINE S == {i \in DOMAIN s : s[i] = j}
<1>1. \A x, y \in S : x = y
  BY DEF Distinct
<1>2. S # {} <=> j \in Range(s)
  BY DEF Range
<1> HIDE DEF S
<1> QED
  BY <1>1, <1>2, AtMostOne DEF Occurrences, S

LEMMA HeldOnce ==
    ASSUME IInv, NEW j \in DOMAIN jobs
    PROVE  Holds(j) <= 1
<1> DEFINE Q == {q \in Queued : job_queue[q[1]][q[2]] = j}
           R == {w \in Threads : job[w] = j}
<1>1. QueueInv /\ j # NoJob
  <2>1. jobs \in Seq(Packet)
    BY DEF IInv, TypeOK
  <2> QED
    BY <2>1 DEF IInv, NoJob
<1>2. \A q \in Q : \E w \in Threads : \E i : /\ q = <<w, i>> /\ i \in DOMAIN job_queue[w]
                                             /\ job_queue[w][i] = j
  BY DEF Queued
<1>3. \A q \in Q : q[1] \in Threads /\ j \in Range(job_queue[q[1]])
  BY <1>2 DEF Range
<1>4. ASSUME NEW q \in Q, NEW r \in Q PROVE q = r
  <2>1. q[1] = r[1]
    BY <1>1, <1>3 DEF QueueInv
  <2>2. PICK w, i : w \in Threads /\ q = <<w, i>> /\ i \in DOMAIN job_queue[w] /\ job_queue[w][i] = j
    BY <1>2
  <2>3. PICK x, k : x \in Threads /\ r = <<x, k>> /\ k \in DOMAIN job_queue[x] /\ job_queue[x][k] = j
    BY <1>2
  <2>4. w = x
    BY <2>1, <2>2, <2>3
  <2>5. i = k
    BY <1>1, <2>2, <2>3, <2>4 DEF QueueInv, Distinct
  <2> QED
    BY <2>2, <2>3, <2>4, <2>5
<1>5. \A w, x \in R : w = x
  BY <1>1 DEF QueueInv
<1>6. Q # {} => R = {} /\ future[j] = "pending"
  <2> SUFFICES ASSUME NEW q \in Q PROVE R = {} /\ future[j] = "pending"
    OBVIOUS
  <2>1. future[j] = "pending"
    BY <1>1, <1>3 DEF QueueInv
  <2>2. \A w \in Threads : job[w] # j
    BY <1>1, <1>3 DEF QueueInv
  <2> QED
    BY <2>1, <2>2
<1>7. R # {} => future[j] = "pending"
  BY <1>1 DEF QueueInv
<1> HIDE DEF Q, R
<1>8. /\ Cardinality(Q) = 0 \/ (Cardinality(Q) = 1 /\ Q # {})
      /\ Cardinality(R) = 0 \/ (Cardinality(R) = 1 /\ R # {})
      /\ R = {} => Cardinality(R) = 0
  BY <1>4, <1>5, AtMostOne
<1> QED
  BY <1>6, <1>7, <1>8 DEF Holds, Q, R

\* Whatever the interleaving of the manager, the notifications it loses and the
\* timeouts, no job is carried out twice, and none that is not done is lost to
\* the manager.
THEOREM JobsRunOnce == Spec => []NoJobTwice
<1>1. ASSUME IInv, NEW j \in DOMAIN jobs, future[j] = "pending"
      PROVE  Occurrences(thread_results, j) = 1
  BY <1>1, OccursOnce DEF IInv, ResultInv
<1>2. IInv => NoJobTwice
  BY <1>1, HeldOnce DEF NoJobTwice
<1> QED
  BY <1>2, InvAlways, PTL

LEMMA DeliveredOnce ==
    ASSUME IInv, NEW j \in DOMAIN jobs
    PROVE  Occurrences(thread_results, j) + Occurrences(results, j)
               + Cardinality({a \in Answers : received[a[1]][a[2]] = j}) <= 1
<1> DEFINE A == {a \in Answers : received[a[1]][a[2]] = j}
<1>1. ResultInv
  BY DEF IInv
<1>2. \A a \in A : \E c \in Clients : \E n : /\ a = <<c, n>> /\ n \in DOMAIN received[c]
                                             /\ received[c][n] = j
  BY DEF Answers
<1>3. \A a \in A : a[1] \in Clients /\ j \in Range(received[a[1]])
  BY <1>2 DEF Range
<1>4. ASSUME NEW a \in A, NEW b \in A PROVE a = b
  <2>1. a[1] = b[1]
    BY <1>1, <1>3 DEF ResultInv
  <2>2. PICK c, n : c \in Clients /\ a = <<c, n>> /\ n \in DOMAIN received[c] /\ received[c][n] = j
    BY <1>2
  <2>3. PICK d, m : d \in Clients /\ b = <<d, m>> /\ m \in DOMAIN received[d] /\ received[d][m] = j
    BY <1>2
  <2>4. c = d
    BY <2>1, <2>2, <2>3
  <2>5. n = m
    BY <1>1, <2>2, <2>3, <2>4 DEF ResultInv, Distinct
  <2> QED
    BY <2>2, <2>3, <2>4, <2>5
<1>5. A # {} => j \notin Range(thread_results) /\ j \notin Range(results)
  BY <1>1, <1>3 DEF ResultInv
<1> HIDE DEF A
<1>6. Cardinality(A) = 0 \/ (Cardinality(A) = 1 /\ A # {})
  BY <1>4, AtMostOne
<1>7. /\ Occurrences(thread_results, j) = IF j \in Range(thread_results) THEN 1 ELSE 0
      /\ Occurrences(results, j) = IF j \in Range(results) THEN 1 ELSE 0
      /\ ~(j \in Range(thread_results) /\ j \in Range(results))
  BY <1>1, OccursOnce DEF ResultInv
<1> QED
  BY <1>5, <1>6, <1>7 DEF A

\* No result is delivered twice, to one client or to two, even when its
\* descriptor has been closed and reused.
THEOREM ResultsDeliveredOnce == Spec => []AnsweredOnce
<1>1. IInv => AnsweredOnce
  BY DeliveredOnce DEF AnsweredOnce
<1> QED
  BY <1>1, InvAlways, PTL

-----------------------------------------------------------------------------
(* Clients that wait for their answers, over a network that works.         *)

Orderly == Impatient = {} /\ Flaky = {}

\* The jobs whose results are on their way.
Flying == Range(thread_results) \cup Range(results)

Waits(c) == sent[c] = Len(received[c]) + 1 /\ link[c] = "open"

\* A command in a socket is the one its client waits for.
InboxOK(c) ==
    inbox[c] # <<>> =>
        Waits(c) /\ inbox[c] = <<[client |-> c, number |-> sent[c], part |-> "whole"]>>

MatchOK(c) ==
    \A n \in DOMAIN received[c] :
        jobs[received[c][n]].client = c /\ jobs[received[c][n]].number = n

\* A job on its way is the command its client waits for, and its connection is
\* still the client's.
FlightOK(j) ==
    LET c == jobs[j].client IN
    /\ c \in Clients /\ Waits(c) /\ jobs[j].number = sent[c] /\ inbox[c] = <<>>
    /\ job_to_connection[j] \in DOMAIN sockets /\ sockets[job_to_connection[j]] = c

OrderInv ==
    /\ IInv
    /\ \A c \in Clients :
          ~rest[c] /\ Len(received[c]) <= sent[c] /\ InboxOK(c) /\ MatchOK(c)
    /\ \A j \in Flying : FlightOK(j)
    /\ \A i, j \in Flying : jobs[i].client = jobs[j].client => i = j

\* Steps that leave the clients and the sockets of those that wait alone.
LEMMA OrderKept ==
    ASSUME OrderInv, IInv', Flying' \subseteq Flying,
           UNCHANGED <<link, inbox, rest, sent, received, jobs, job_to_connection>>,
           \A fd \in DOMAIN sockets : link[sockets[fd]] = "open" =>
               fd \in DOMAIN sockets' /\ sockets'[fd] = sockets[fd]
    PROVE  OrderInv'
<1>1. \A j \in Flying' : FlightOK(j)'
  BY DEF OrderInv, FlightOK, Waits
<1>2. \A c \in Clients :
          ~rest'[c] /\ Len(received'[c]) <= sent'[c] /\ InboxOK(c)' /\ MatchOK(c)'
  BY DEF OrderInv, InboxOK, MatchOK, Waits
<1>3. \A i, j \in Flying' : jobs'[i].client = jobs'[j].client => i = j
  BY DEF OrderInv
<1> QED
  BY <1>1, <1>2, <1>3 DEF OrderInv

\* A client that does not wait has no job on its way, and nothing to be read.
LEMMA NothingOutstanding ==
    ASSUME OrderInv, NEW c \in Clients, ~Waits(c)
    PROVE  inbox[c] = <<>> /\ \A j \in Flying : jobs[j].client # c
BY DEF OrderInv, InboxOK, FlightOK

LEMMA OrderClient ==
    ASSUME Orderly, OrderInv, IInv', NEW c \in Clients, Client(c)
    PROVE  OrderInv'
<1>1. /\ UNCHANGED <<sockets, jobs, job_to_connection, thread_results, results>>
      /\ link \in [Clients -> {"away", "backlog", "open", "closed"}]
      /\ inbox \in [Clients -> Seq(Packet)] /\ rest \in [Clients -> BOOLEAN]
      /\ sent \in [Clients -> 0 .. MaxCommands] /\ MaxCommands \in Nat
      /\ received \in [Clients -> Seq(DOMAIN jobs)]
  BY SizesAssumption DEF Client, managerVars, jobVars, OrderInv, IInv, TypeOK
<1>2. Flying' = Flying
  BY <1>1 DEF Flying
<1>3. Len(received[c]) \in Nat /\ sent[c] \in Nat /\ Len(received[c]) <= sent[c]
  BY <1>1 DEF OrderInv
<1>4. ASSUME ~Waits(c), received' = received, rest'[c] = FALSE,
             Len(received[c]) <= sent'[c], InboxOK(c)',
             \A d \in Clients \ {c} :
                 /\ link'[d] = link[d] /\ inbox'[d] = inbox[d] /\ rest'[d] = rest[d]
                 /\ sent'[d] = sent[d]
      PROVE  OrderInv'
  <2>1. \A j \in Flying : FlightOK(j) /\ jobs[j].client # c
    BY <1>4, NothingOutstanding DEF OrderInv
  <2>2. \A j \in Flying' : FlightOK(j)'
    BY <1>1, <1>2, <1>4, <2>1 DEF FlightOK, Waits
  <2>3. ASSUME NEW d \in Clients
        PROVE  ~rest'[d] /\ Len(received'[d]) <= sent'[d] /\ InboxOK(d)' /\ MatchOK(d)'
    <3>1. MatchOK(d)'
      BY <1>1, <1>4 DEF OrderInv, MatchOK
    <3>2. CASE d = c
      BY <1>4, <3>1, <3>2
    <3>3. CASE d # c
      BY <1>4, <3>1, <3>3 DEF OrderInv, InboxOK, Waits
    <3> QED
      BY <3>2, <3>3
  <2> QED
    BY <1>1, <1>2, <2>2, <2>3 DEF OrderInv
<1>5. CASE Connect(c)
  <2>1. link[c] = "away" /\ link' = [link EXCEPT ![c] = "backlog"]
        /\ UNCHANGED <<inbox, rest, sent, received>>
    BY <1>5 DEF Connect, netVars
  <2>2. ~Waits(c)
    BY <2>1 DEF Waits
  <2>3. InboxOK(c)'
    BY <2>1, <2>2, NothingOutstanding DEF InboxOK
  <2>4. rest'[c] = FALSE
    BY <1>1, <2>1 DEF OrderInv
  <2> QED
    BY <1>1, <1>3, <1>4, <2>1, <2>2, <2>3, <2>4
<1>6. CASE SendCommand(c)
  <2> DEFINE p == [client |-> c, number |-> sent[c] + 1, part |-> "whole"]
  <2>1. /\ link[c] = "open" /\ Len(received[c]) >= sent[c]
        /\ sent' = [sent EXCEPT ![c] = @ + 1] /\ UNCHANGED <<link, received>>
    BY <1>6 DEF SendCommand
  <2>2. ~Waits(c) /\ Len(received[c]) = sent[c]
    BY <1>3, <2>1 DEF Waits
  <2>4. inbox' = [inbox EXCEPT ![c] = Append(@, p)] /\ rest' = [rest EXCEPT ![c] = FALSE]
    BY <1>6 DEF SendCommand, Orderly
  <2>5. inbox'[c] = <<p>>
    <3>1. inbox[c] = <<>>
      BY <2>2, NothingOutstanding
    <3>2. inbox'[c] = Append(<<>>, p)
      BY <1>1, <2>4, <3>1
    <3> QED
      BY <3>2
  <2>6. sent'[c] = sent[c] + 1
    BY <1>1, <2>1
  <2>7. InboxOK(c)'
    BY <2>1, <2>2, <2>5, <2>6 DEF InboxOK, Waits
  <2>8. Len(received[c]) <= sent'[c]
    BY <1>3, <2>6
  <2> QED
    BY <1>1, <1>4, <2>1, <2>2, <2>4, <2>7, <2>8
<1>7. CASE RestArrives(c)
  BY <1>7 DEF RestArrives, OrderInv
<1>8. CASE Leave(c)
  <2>1. Len(received[c]) = sent[c] /\ link' = [link EXCEPT ![c] = "closed"]
        /\ UNCHANGED <<inbox, rest, sent, received>>
    BY <1>8 DEF Leave, netVars, Orderly
  <2>2. ~Waits(c)
    BY <1>3, <2>1 DEF Waits
  <2>3. InboxOK(c)'
    BY <2>1, <2>2, NothingOutstanding DEF InboxOK
  <2>4. rest'[c] = FALSE
    BY <1>1, <2>1 DEF OrderInv
  <2> QED
    BY <1>1, <1>3, <1>4, <2>1, <2>2, <2>3, <2>4
<1> QED
  BY <1>5, <1>6, <1>7, <1>8 DEF Client

\* The manager's steps that send and receive nothing, and the workers'.
LEMMA OrderQuiet ==
    ASSUME OrderInv, IInv',
           Turns \/ CollectResult \/ (\E w \in Threads : Worker(w)) \/ UNCHANGED vars
    PROVE  OrderInv'
<1>1. /\ UNCHANGED <<link, inbox, rest, sent, received, jobs, job_to_connection, sockets>>
      /\ \/ UNCHANGED <<thread_results, results>>
         \/ CollectResult
  BY DEF Turns, NothingToAccept, AcceptFails, Notify, ReceiveNothing, ReceiveEnd,
     FutureNotReady, CollectResult, CollectException, CollectEnd, SendToClosedEnd, SendEnd,
     Worker, vars, clientVars, netVars, managerVars, jobVars
<1>2. Flying' \subseteq Flying
  <2>1. CASE UNCHANGED <<thread_results, results>>
    BY <2>1 DEF Flying
  <2>2. CASE CollectResult
    <3> DEFINE j == thread_results[at.pos]
               J == DOMAIN jobs
    <3>1. /\ results' = Append(results, j) /\ thread_results' = RemoveAt(thread_results, at.pos)
          /\ at.pos <= Len(thread_results)
      BY <2>2 DEF CollectResult, Collecting, EraseResult
    <3>2. thread_results \in Seq(J) /\ results \in Seq(J) /\ at.pos \in Nat \ {0}
      BY DEF OrderInv, IInv, TypeOK
    <3>3. at.pos \in DOMAIN thread_results /\ j \in J /\ j \in Range(thread_results)
      <4>1. at.pos \in DOMAIN thread_results
        BY <3>1, <3>2
      <4> QED
        BY <3>2, <4>1 DEF Range
    <3> HIDE DEF j, J
    <3>4. Range(thread_results') \subseteq Range(thread_results)
      BY <3>1, <3>2, <3>3, RemoveAtElems
    <3>5. Range(results') = Range(results) \cup {j}
      BY <3>1, <3>2, <3>3, AppendElems
    <3> QED
      BY <3>3, <3>4, <3>5 DEF Flying
  <2> QED
    BY <1>1, <2>1, <2>2
<1> QED
  BY <1>1, <1>2, OrderKept

\* Only the descriptor of a client that has left is closed.
LEMMA OrderClose ==
    ASSUME Orderly, OrderInv, IInv', ReceiveClose \/ ReceiveError
    PROVE  OrderInv'
<1>1. ReceiveClose
  BY DEF ReceiveError, Orderly
<1>2. /\ link[sockets[Fd]] = "closed" /\ sockets' = Restrict(sockets, DOMAIN sockets \ {Fd})
      /\ UNCHANGED <<link, inbox, rest, sent, received, jobs, job_to_connection,
                     thread_results, results>>
  BY <1>1 DEF ReceiveClose, Peer, clientVars, netVars, jobVars
<1>3. \A fd \in DOMAIN sockets : link[sockets[fd]] = "open" =>
          fd \in DOMAIN sockets' /\ sockets'[fd] = sockets[fd]
  BY <1>2 DEF Restrict
<1>4. Flying' = Flying
  BY <1>2 DEF Flying
<1> QED
  BY <1>2, <1>3, <1>4, OrderKept

\* The descriptor of a new connection is not the one of a client that waits.
LEMMA OrderAccept ==
    ASSUME OrderInv, IInv', Accept
    PROVE  OrderInv'
<1> DEFINE fd == Min(FreeFds)
<1>1. PICK c \in Clients :
          /\ link[c] = "backlog" /\ link' = [link EXCEPT ![c] = "open"]
          /\ sockets' = [x \in DOMAIN sockets \cup {fd} |-> IF x = fd THEN c ELSE sockets[x]]
  BY DEF Accept, Backlog
<1>2. /\ fd \notin DOMAIN sockets
      /\ UNCHANGED <<inbox, rest, sent, received, jobs, job_to_connection, thread_results,
                     results>>
  BY LowestFd DEF Accept, FreeFds, netVars, jobVars
<1> HIDE DEF fd
<1>3. ~Waits(c)
  BY <1>1 DEF Waits
<1>4. inbox[c] = <<>> /\ \A j \in Flying : jobs[j].client # c
  BY <1>3, NothingOutstanding
<1>5. /\ Flying' = Flying
      /\ link' \in [Clients -> {"away", "backlog", "open", "closed"}]
      /\ \A d \in Clients \ {c} : link'[d] = link[d]
  BY <1>1, <1>2 DEF Flying, OrderInv, IInv, TypeOK
<1>6. \A x \in DOMAIN sockets : x \in DOMAIN sockets' /\ sockets'[x] = sockets[x]
  BY <1>1, <1>2
<1>7. ASSUME NEW j \in Flying' PROVE FlightOK(j)'
  <2>1. FlightOK(j) /\ jobs[j].client # c
    BY <1>4, <1>5 DEF OrderInv
  <2> QED
    BY <1>2, <1>5, <1>6, <2>1 DEF FlightOK, Waits
<1>8. ASSUME NEW d \in Clients
      PROVE  ~rest'[d] /\ Len(received'[d]) <= sent'[d] /\ InboxOK(d)' /\ MatchOK(d)'
  <2>1. CASE d = c
    BY <1>2, <1>4, <2>1 DEF OrderInv, InboxOK, MatchOK
  <2>2. CASE d # c
    BY <1>2, <1>5, <2>2 DEF OrderInv, InboxOK, MatchOK, Waits
  <2> QED
    BY <2>1, <2>2
<1> QED
  BY <1>2, <1>5, <1>7, <1>8 DEF OrderInv

\* What is received is the one command its client waits for.
LEMMA OrderCommand ==
    ASSUME OrderInv, IInv', ReceiveCommand
    PROVE  OrderInv'
<1>0. PICK j, c, p, J :
          j = Len(jobs) + 1 /\ c = Peer /\ p = Head(inbox[Peer]) /\ J = DOMAIN jobs
  OBVIOUS
<1>1. TypeOK /\ IInv
  BY DEF OrderInv, IInv
<1>2. /\ Fd \in DOMAIN sockets /\ c \in Clients
      /\ inbox[c] # <<>> /\ sockets[Fd] = c
      /\ DOMAIN jobs' = J \cup {j} /\ j \notin J /\ jobs'[j] = p
      /\ \A i \in J : jobs'[i] = jobs[i]
  BY <1>0, <1>1, CommandFacts DEF Peer
<1>3. /\ thread_results' = Append(thread_results, j)
      /\ job_to_connection' = Append(job_to_connection, Fd)
      /\ inbox' = [inbox EXCEPT ![c] = Tail(@)]
      /\ UNCHANGED <<link, rest, sent, received, sockets, results>>
  BY <1>0 DEF ReceiveCommand
<1>4. /\ inbox[c] = <<[client |-> c, number |-> sent[c], part |-> "whole"]>> /\ Waits(c)
      /\ p.client = c /\ p.number = sent[c] /\ inbox'[c] = <<>>
  <2> DEFINE q == [client |-> c, number |-> sent[c], part |-> "whole"]
  <2>1. inbox[c] = <<q>> /\ Waits(c)
    BY <1>2 DEF OrderInv, InboxOK
  <2>2. inbox \in [Clients -> Seq(Packet)]
    BY <1>1 DEF TypeOK
  <2>3. inbox'[c] = Tail(inbox[c])
    BY <1>2, <1>3, <2>2
  <2>4. p = q
    <3> HIDE DEF q
    <3> QED
      BY <1>0, <2>1
  <2>5. q.client = c /\ q.number = sent[c]
    OBVIOUS
  <2>6. Tail(<<q>>) = <<>>
    <3> HIDE DEF q
    <3> QED
      OBVIOUS
  <2> HIDE DEF q
  <2> QED
    BY <2>1, <2>3, <2>4, <2>5, <2>6 DEF q
<1>5. /\ received \in [Clients -> Seq(J)] /\ thread_results \in Seq(J) /\ results \in Seq(J)
      /\ inbox \in [Clients -> Seq(Packet)]
      /\ job_to_connection \in Seq(Fds) /\ DOMAIN job_to_connection = J
      /\ Len(job_to_connection) + 1 = j
  BY <1>0, <1>1 DEF TypeOK
<1>6. /\ job_to_connection'[j] = Fd
      /\ \A i \in J : job_to_connection'[i] = job_to_connection[i]
  <2>1. Fd \in Fds
    BY <1>1, <1>2 DEF TypeOK
  <2> QED
    BY <1>3, <1>5, <2>1
<1>7. \A d \in Clients \ {c} : inbox'[d] = inbox[d]
  BY <1>3, <1>5
<1>8. Flying' = Flying \cup {j}
  <2>1. thread_results \in Seq(J \cup {j})
    BY <1>5, WiderSeq
  <2>2. Range(thread_results') = Range(thread_results) \cup {j}
    BY <1>3, <2>1, AppendElems
  <2> QED
    BY <1>3, <2>2 DEF Flying
<1>9. \A i \in Flying : i \in J /\ jobs[i].client # c /\ FlightOK(i)
  <2>1. Range(thread_results) \subseteq J /\ Range(results) \subseteq J
    BY <1>5, ElemsOf
  <2>2. \A i \in Flying : FlightOK(i)
    BY DEF OrderInv
  <2> QED
    BY <1>2, <2>1, <2>2 DEF Flying, FlightOK
<1>10. FlightOK(j)'
  BY <1>2, <1>3, <1>4, <1>6 DEF FlightOK, Waits
<1>11. ASSUME NEW i \in Flying PROVE FlightOK(i)'
  <2>1. jobs'[i] = jobs[i] /\ job_to_connection'[i] = job_to_connection[i]
    BY <1>2, <1>6, <1>9
  <2> QED
    BY <1>3, <1>7, <1>9, <2>1 DEF FlightOK, Waits
<1>12. ASSUME NEW d \in Clients
       PROVE  ~rest'[d] /\ Len(received'[d]) <= sent'[d] /\ InboxOK(d)' /\ MatchOK(d)'
  <2>1. \A n \in DOMAIN received[d] : received[d][n] \in J
    BY <1>5
  <2>2. MatchOK(d)'
    BY <1>2, <1>3, <2>1 DEF OrderInv, MatchOK
  <2>3. InboxOK(d)'
    <3>1. CASE d = c
      BY <1>4, <3>1 DEF InboxOK
    <3>2. CASE d # c
      BY <1>3, <1>7, <3>2 DEF OrderInv, InboxOK, Waits
    <3> QED
      BY <3>1, <3>2
  <2> QED
    BY <1>3, <2>2, <2>3 DEF OrderInv
<1>13. ASSUME NEW i \in Flying', NEW k \in Flying', jobs'[i].client = jobs'[k].client
       PROVE  i = k
  <2>1. \A m \in Flying : jobs'[m] = jobs[m] /\ jobs'[m].client # c
    BY <1>2, <1>9
  <2>2. jobs'[j].client = c
    BY <1>2, <1>4
  <2> QED
    BY <1>8, <1>13, <2>1, <2>2 DEF OrderInv
<1> QED
  BY <1>8, <1>10, <1>11, <1>12, <1>13 DEF OrderInv

\* A result is sent to the client that waits for it.
LEMMA OrderSend ==
    ASSUME OrderInv, IInv', SendResult \/ SendLost
    PROVE  OrderInv'
<1>0. PICK j, J, c : j = Head(results) /\ J = DOMAIN jobs /\ c = jobs[j].client
  OBVIOUS
<1>1. TypeOK /\ ResultInv
  BY DEF OrderInv, IInv
<1>2. /\ results # <<>> /\ results' = Tail(results)
      /\ UNCHANGED <<inbox, rest, sent, link, sockets, jobs, job_to_connection,
                     thread_results>>
  BY DEF SendResult, SendLost, Sending, clientVars, netVars, jobVars
<1>3. results \in Seq(J) /\ received \in [Clients -> Seq(J)] /\ sent \in [Clients -> Nat]
  BY <1>0, <1>1, SizesAssumption DEF TypeOK
<1>4. /\ j \in J /\ j \in Range(results) /\ j \notin Range(results')
      /\ Range(results') \subseteq Range(results)
  BY <1>0, <1>1, <1>2, <1>3, TailElems DEF ResultInv
<1>5. j \in Flying /\ FlightOK(j)
  BY <1>4 DEF Flying, OrderInv
<1>6. Flying' \subseteq Flying \ {j}
  <2>1. j \notin Range(thread_results)
    BY <1>1, <1>4 DEF ResultInv
  <2> QED
    BY <1>2, <1>4, <2>1 DEF Flying
<1>7. /\ c \in Clients /\ Reaches(c) /\ link[c] = "open" /\ jobs[j].number = sent[c]
      /\ sent[c] = Len(received[c]) + 1 /\ inbox[c] = <<>>
  BY <1>0, <1>5 DEF FlightOK, Waits, Reaches, ResultFd
<1>8. received' = [received EXCEPT ![c] = Append(@, j)]
  <2>1. SendResult
    BY <1>7 DEF SendLost
  <2>2. PICK d \in Clients : Reaches(d) /\ received' = [received EXCEPT ![d] = Append(@, j)]
    BY <1>0, <2>1 DEF SendResult
  <2>3. d = c
    BY <1>7, <2>2 DEF Reaches
  <2> QED
    BY <2>2, <2>3
<1>9. \A i \in Flying' : i \in Flying /\ jobs[i].client # c
  BY <1>0, <1>5, <1>6 DEF OrderInv
<1>10. /\ received'[c] = Append(received[c], j)
       /\ \A d \in Clients \ {c} : received'[d] = received[d]
  BY <1>3, <1>7, <1>8
<1>11. ASSUME NEW i \in Flying' PROVE FlightOK(i)'
  <2>1. FlightOK(i) /\ jobs[i].client # c
    BY <1>9 DEF OrderInv
  <2> QED
    BY <1>2, <1>10, <2>1 DEF FlightOK, Waits
<1>12. Len(received'[c]) = sent[c] /\ MatchOK(c)'
  <2> DEFINE r == received[c]
  <2>1. /\ r \in Seq(J) /\ Len(r) \in Nat /\ DOMAIN received'[c] = 1 .. (Len(r) + 1)
        /\ received'[c][Len(r) + 1] = j /\ Len(received'[c]) = Len(r) + 1
        /\ \A n \in 1 .. Len(r) : received'[c][n] = r[n]
        /\ DOMAIN r = 1 .. Len(r)
    BY <1>3, <1>4, <1>7, <1>10
  <2>2. \A n \in 1 .. (Len(r) + 1) : n \in 1 .. Len(r) \/ n = Len(r) + 1
    BY <2>1
  <2>3. jobs[j].client = c /\ jobs[j].number = Len(r) + 1
    BY <1>0, <1>7
  <2>4. MatchOK(c)
    BY <1>7 DEF OrderInv
  <2> HIDE DEF r
  <2> QED
    BY <1>2, <1>7, <2>1, <2>2, <2>3, <2>4 DEF MatchOK, r
<1>13. ASSUME NEW d \in Clients
       PROVE  ~rest'[d] /\ Len(received'[d]) <= sent'[d] /\ InboxOK(d)' /\ MatchOK(d)'
  <2>1. CASE d = c
    <3>1. InboxOK(d)'
      BY <1>2, <1>7, <2>1 DEF InboxOK
    <3>2. Len(received'[d]) <= sent'[d]
      BY <1>2, <1>3, <1>7, <1>12, <2>1
    <3>3. ~rest'[d]
      BY <1>2 DEF OrderInv
    <3> QED
      BY <1>12, <2>1, <3>1, <3>2, <3>3
  <2>2. CASE d # c
    <3>1. ~rest[d] /\ Len(received[d]) <= sent[d] /\ InboxOK(d) /\ MatchOK(d)
      BY DEF OrderInv
    <3>2. received'[d] = received[d]
      BY <1>10, <2>2
    <3>3. InboxOK(d)'
      BY <1>2, <3>1, <3>2 DEF InboxOK, Waits
    <3>4. MatchOK(d)'
      BY <1>2, <3>1, <3>2 DEF MatchOK
    <3> QED
      BY <1>2, <3>1, <3>2, <3>3, <3>4
  <2> QED
    BY <2>1, <2>2
<1>14. \A i, k \in Flying' : jobs'[i].client = jobs'[k].client => i = k
  BY <1>2, <1>6 DEF OrderInv
<1> QED
  BY <1>11, <1>13, <1>14 DEF OrderInv

LEMMA OrderInit == Init => OrderInv
<1> SUFFICES ASSUME Init PROVE OrderInv
  OBVIOUS
<1>1. DOMAIN <<>> = {} /\ Len(<<>>) = 0
  OBVIOUS
<1>2. Flying = {}
  BY <1>1 DEF Init, Flying, Range
<1>3. \A c \in Clients :
          ~rest[c] /\ Len(received[c]) <= sent[c] /\ InboxOK(c) /\ MatchOK(c)
  BY <1>1 DEF Init, InboxOK, MatchOK
<1> QED
  BY <1>2, <1>3, InitInv DEF OrderInv

LEMMA OrderNext ==
    ASSUME Orderly, OrderInv, [Next]_vars
    PROVE  OrderInv'
<1>1. IInv'
  BY NextInv, StutterInv DEF OrderInv
<1>2. ASSUME Manager PROVE OrderInv'
  <2>1. Turns \/ Accept \/ ReceiveCommand \/ ReceiveClose \/ ReceiveError \/ CollectResult
        \/ SendResult \/ SendLost
    BY <1>2 DEF Manager, Turns
  <2> QED
    BY <1>1, <2>1, OrderQuiet, OrderAccept, OrderCommand, OrderClose, OrderSend
<1> QED
  BY <1>1, <1>2, OrderQuiet, OrderClient DEF Next

\* When clients wait and the network works, the n-th answer a client reads is
\* the result of its n-th command: no descriptor is reused while a result for
\* its last owner is on its way.
THEOREM AnswersReachTheirClients ==
    ASSUME Orderly
    PROVE  Spec => []AnswersMatch
<1>1. OrderInv /\ [Next]_vars => OrderInv'
  BY OrderNext
<1>2. OrderInv => AnswersMatch
  BY DEF OrderInv, MatchOK, AnswersMatch
<1> QED
  BY <1>1, <1>2, OrderInit, PTL DEF Spec

-----------------------------------------------------------------------------
(* The safety part of RequestServer: every step is one of its steps or a    *)
(* stutter.  Its fairness is left to the model checker.                     *)

Done(c) == {j \in DOMAIN jobs : jobs[j].client = c /\ future[j] # "pending"}

DoneFlying(c) == \E j \in Flying : jobs[j].client = c /\ future[j] # "pending"

\* A client's commands are answered but for the one that is carried out and
\* whose result is on its way.
CountInv ==
    /\ OrderInv
    /\ \A j \in Range(results) : future[j] # "pending"
    /\ \A c \in Clients :
          Cardinality(Done(c)) = Len(received[c]) + (IF DoneFlying(c) THEN 1 ELSE 0)

\* A step keeps the counts and is a step of the RequestServer, or a stutter.
Mirrored == CountInv' /\ [Server!Next]_(Server!serverVars)

LEMMA DoneFinite ==
    ASSUME TypeOK, NEW c
    PROVE  IsFiniteSet(Done(c)) /\ Cardinality(Done(c)) \in Nat
<1>1. jobs \in Seq(Packet)
  BY DEF TypeOK
<1>2. DOMAIN jobs = 1 .. Len(jobs) /\ Len(jobs) \in Nat
  BY <1>1
<1>3. IsFiniteSet(DOMAIN jobs)
  BY <1>2, FS_Interval
<1>4. Done(c) \subseteq DOMAIN jobs
  BY DEF Done
<1> QED
  BY <1>3, <1>4, FS_Subset, FS_CardinalityType

\* Steps that carry out no job and deliver no result.
LEMMA SameCounts ==
    ASSUME CountInv, OrderInv', received' = received,
           \A c \in Clients : Done(c)' = Done(c) /\ (DoneFlying(c)' <=> DoneFlying(c)),
           \A j \in Range(results') : future'[j] # "pending",
           sent' = sent \/ \E c \in Clients : SendCommand(c)
    PROVE  Mirrored
<1>1. CountInv'
  BY DEF CountInv
<1>2. \A c \in Clients : Cardinality(Done(c))' = Cardinality(Done(c))
  OBVIOUS
<1>3. /\ [c \in Clients |-> Cardinality(Done(c))]' = [c \in Clients |-> Cardinality(Done(c))]
      /\ [c \in Clients |-> Len(received[c])]' = [c \in Clients |-> Len(received[c])]
  BY <1>2
<1>4. CASE sent' = sent
  BY <1>1, <1>3, <1>4 DEF Mirrored, Server!serverVars, Done
<1>5. CASE \E c \in Clients : SendCommand(c)
  <2>1. PICK c \in Clients : SendCommand(c)
    BY <1>5
  <2>2. /\ Len(received[c]) >= sent[c] /\ Len(received[c]) <= sent[c]
        /\ sent' = [sent EXCEPT ![c] = @ + 1]
    BY <2>1 DEF SendCommand, CountInv, OrderInv
  <2>3. Len(received[c]) \in Nat /\ sent[c] \in Nat
    BY SizesAssumption DEF CountInv, OrderInv, IInv, TypeOK
  <2>4. [d \in Clients |-> Len(received[d])][c] = sent[c]
    BY <2>2, <2>3
  <2>5. Server!Ask(c)
    BY <1>3, <2>2, <2>4 DEF Server!Ask, Done
  <2> QED
    BY <1>1, <2>5 DEF Mirrored, Server!Next
<1> QED
  BY <1>4, <1>5

LEMMA MirrorQuiet ==
    ASSUME CountInv, OrderInv',
           UNCHANGED <<received, jobs, future, thread_results, results>>,
           sent' = sent \/ \E c \in Clients : SendCommand(c)
    PROVE  Mirrored
<1>1. \A c \in Clients : Done(c)' = Done(c) /\ (DoneFlying(c)' <=> DoneFlying(c))
  BY DEF Done, DoneFlying, Flying
<1>2. \A j \in Range(results') : future'[j] # "pending"
  BY DEF CountInv
<1> QED
  BY <1>1, <1>2, SameCounts

\* A received command is not carried out yet.
LEMMA MirrorCommand ==
    ASSUME CountInv, OrderInv', ReceiveCommand
    PROVE  Mirrored
<1>0. PICK j, J : j = Len(jobs) + 1 /\ J = DOMAIN jobs
  OBVIOUS
<1>1. TypeOK
  BY DEF CountInv, OrderInv, IInv
<1>2. /\ DOMAIN jobs' = J \cup {j} /\ j \notin J
      /\ \A i \in J : jobs'[i] = jobs[i] /\ future'[i] = future[i]
      /\ future'[j] = "pending"
  BY <1>0, <1>1, CommandFacts
<1>3. /\ thread_results' = Append(thread_results, j)
      /\ UNCHANGED <<sent, received, results>>
  BY <1>0 DEF ReceiveCommand
<1>4. /\ thread_results \in Seq(J) /\ results \in Seq(J)
      /\ thread_results \in Seq(J \cup {j})
  <2>1. thread_results \in Seq(J) /\ results \in Seq(J)
    BY <1>0, <1>1 DEF TypeOK
  <2> QED
    BY <2>1, WiderSeq
<1>5. Range(thread_results') = Range(thread_results) \cup {j}
  BY <1>3, <1>4, AppendElems
<1>6. Flying' = Flying \cup {j} /\ Flying \subseteq J /\ Range(results) \subseteq J
  BY <1>3, <1>4, <1>5, ElemsOf DEF Flying
<1>7. ASSUME NEW c \in Clients PROVE Done(c)' = Done(c)
  BY <1>0, <1>2 DEF Done
<1>8. ASSUME NEW c \in Clients PROVE DoneFlying(c)' <=> DoneFlying(c)
  BY <1>2, <1>6 DEF DoneFlying
<1>9. \A i \in Range(results') : future'[i] # "pending"
  BY <1>2, <1>3, <1>6 DEF CountInv
<1> QED
  BY <1>3, <1>7, <1>8, <1>9, SameCounts

\* A collected result stays on its way.
LEMMA MirrorCollect ==
    ASSUME CountInv, OrderInv', CollectResult
    PROVE  Mirrored
<1>0. PICK j, J : j = thread_results[at.pos] /\ J = DOMAIN jobs
  OBVIOUS
<1>1. /\ results' = Append(results, j) /\ thread_results' = RemoveAt(thread_results, at.pos)
      /\ future[j] = "answer" /\ at.pos <= Len(thread_results)
      /\ UNCHANGED <<sent, received, jobs, future>>
  BY <1>0 DEF CollectResult, Collecting, Future, EraseResult, clientVars, netVars, workerVars
<1>2. thread_results \in Seq(J) /\ results \in Seq(J) /\ at.pos \in Nat \ {0}
  BY <1>0 DEF CountInv, OrderInv, IInv, TypeOK
<1>3. at.pos \in DOMAIN thread_results /\ j \in J /\ j \in Range(thread_results)
  <2>1. at.pos \in DOMAIN thread_results
    BY <1>1, <1>2
  <2> QED
    BY <1>0, <1>2, <2>1 DEF Range
<1>4. /\ Range(thread_results') \subseteq Range(thread_results)
      /\ Range(thread_results) \subseteq Range(thread_results') \cup {j}
  BY <1>0, <1>1, <1>2, <1>3, RemoveAtElems
<1>5. Range(results') = Range(results) \cup {j}
  BY <1>1, <1>2, <1>3, AppendElems
<1>6. Flying' = Flying
  BY <1>3, <1>4, <1>5 DEF Flying
<1>7. \A c \in Clients : Done(c)' = Done(c) /\ (DoneFlying(c)' <=> DoneFlying(c))
  BY <1>1, <1>6 DEF Done, DoneFlying
<1>8. \A i \in Range(results') : future'[i] # "pending"
  BY <1>1, <1>5 DEF CountInv
<1> QED
  BY <1>1, <1>7, <1>8, SameCounts

\* The job a thread runs is the command its client waits for.
LEMMA MirrorExecute ==
    ASSUME CountInv, OrderInv', NEW w \in Threads, Execute(w),
           UNCHANGED <<sent, received, jobs, thread_results, results>>
    PROVE  Mirrored
<1>0. PICK j, c, D : j = job[w] /\ c = jobs[j].client /\ D = Done(c)
  OBVIOUS
<1>1. TypeOK /\ QueueInv /\ ResultInv /\ TypeOK'
  BY DEF CountInv, OrderInv, IInv
<1>2. /\ future \in Seq({"pending", "answer", "throw"}) /\ DOMAIN future = DOMAIN jobs
      /\ j \in DOMAIN jobs /\ j # NoJob
  BY <1>0, <1>1 DEF TypeOK, QueueInv, Execute
<1>3. future[j] = "pending" /\ j \in Flying
  BY <1>0, <1>1, <1>2 DEF QueueInv, ResultInv, Flying
<1>4. PICK outcome \in Outcomes :
          IF outcome = "assert"
          THEN terminated' = TRUE /\ UNCHANGED future
          ELSE /\ future' = [future EXCEPT ![job[w]] = outcome]
               /\ UNCHANGED terminated
  BY DEF Execute
<1>5. CASE outcome = "assert"
  BY <1>4, <1>5, MirrorQuiet
<1>6. CASE outcome # "assert"
  <2>1. future'[j] # "pending" /\ \A i \in DOMAIN jobs \ {j} : future'[i] = future[i]
    BY <1>0, <1>2, <1>4, <1>6, EnvironmentAssumption
  <2>2. c \in Clients /\ sent[c] = Len(received[c]) + 1
        /\ Len(received[c]) \in Nat
    <3>1. FlightOK(j)
      BY <1>3 DEF CountInv, OrderInv
    <3>2. c \in Clients /\ sent[c] = Len(received[c]) + 1
      BY <1>0, <3>1 DEF FlightOK, Waits
    <3> QED
      BY <1>1, <3>2 DEF TypeOK
  <2>3. ~DoneFlying(c)
    BY <1>0, <1>3 DEF CountInv, OrderInv, DoneFlying
  <2>4. Cardinality(D) = Len(received[c])
    <3>1. Cardinality(Done(c)) = Len(received[c]) + (IF DoneFlying(c) THEN 1 ELSE 0)
      BY <2>2 DEF CountInv
    <3> QED
      BY <1>0, <2>2, <2>3, <3>1
  <2>5. Done(c)' = D \cup {j} /\ j \notin D /\ IsFiniteSet(D)
    <3>1. IsFiniteSet(D)
      BY <1>0, <1>1, DoneFinite
    <3> QED
      BY <1>0, <1>2, <1>3, <2>1, <3>1 DEF Done
  <2>6. Cardinality(Done(c))' = Cardinality(D) + 1
    <3>1. Cardinality(D \cup {j}) = Cardinality(D) + 1
      BY <2>5, FS_AddElement
    <3> QED
      BY <2>5, <3>1
  <2>7. \A d \in Clients \ {c} : Done(d)' = Done(d)
    BY <1>0, <1>2, <2>1 DEF Done
  <2>8. Flying' = Flying /\ Flying \subseteq DOMAIN jobs
    <3>1. thread_results \in Seq(DOMAIN jobs) /\ results \in Seq(DOMAIN jobs)
      BY <1>1 DEF TypeOK
    <3> QED
      BY <3>1, ElemsOf DEF Flying
  <2>9. DoneFlying(c)' /\ \A d \in Clients \ {c} : DoneFlying(d)' <=> DoneFlying(d)
    BY <1>0, <1>3, <2>1, <2>8 DEF DoneFlying
  <2>10. \A i \in Range(results') : future'[i] # "pending"
    <3>1. \A i \in Range(results) : i \in DOMAIN jobs
      BY <2>8 DEF Flying
    <3> QED
      BY <2>1, <3>1 DEF CountInv
  <2>11. ASSUME NEW d \in Clients
         PROVE  Cardinality(Done(d))' = Len(received'[d]) + (IF DoneFlying(d)' THEN 1 ELSE 0)
    <3>1. CASE d = c
      BY <2>2, <2>4, <2>6, <2>9, <3>1
    <3>2. CASE d # c
      BY <2>7, <2>9, <3>2 DEF CountInv
    <3> QED
      BY <3>1, <3>2
  <2>12. CountInv'
    BY <2>10, <2>11 DEF CountInv
  <2>13. Server!CarryOut(c)
    <3> DEFINE f == [d \in Clients |-> Cardinality(Done(d))]
    <3>1. f[c] < sent[c]
      BY <1>0, <2>2, <2>4
    <3>2. \A d \in Clients : f'[d] = IF d = c THEN f[c] + 1 ELSE f[d]
      BY <1>0, <2>2, <2>6, <2>7
    <3>3. f' = [f EXCEPT ![c] = @ + 1]
      BY <3>2
    <3>4. [d \in Clients |-> Len(received[d])]' = [d \in Clients |-> Len(received[d])]
      OBVIOUS
    <3> QED
      BY <3>1, <3>3, <3>4 DEF Server!CarryOut, Done
  <2> QED
    BY <2>2, <2>12, <2>13 DEF Mirrored, Server!Next
<1> QED
  BY <1>5, <1>6

\* A result is sent once its job is done.
LEMMA MirrorSend ==
    ASSUME CountInv, OrderInv', SendResult \/ SendLost
    PROVE  Mirrored
<1>0. PICK j, J, c : j = Head(results) /\ J = DOMAIN jobs /\ c = jobs[j].client
  OBVIOUS
<1>1. TypeOK /\ ResultInv
  BY DEF CountInv, OrderInv, IInv
<1>2. /\ results # <<>> /\ results' = Tail(results)
      /\ UNCHANGED <<sent, jobs, future, thread_results>>
  BY DEF SendResult, SendLost, Sending, clientVars, netVars, jobVars, workerVars
<1>3. results \in Seq(J) /\ received \in [Clients -> Seq(J)]
  BY <1>0, <1>1 DEF TypeOK
<1>4. /\ j \in J /\ j \in Range(results) /\ j \notin Range(results')
      /\ Range(results') \subseteq Range(results)
      /\ Range(results) \subseteq Range(results') \cup {j}
  BY <1>0, <1>1, <1>2, <1>3, TailElems DEF ResultInv
<1>5. j \in Flying /\ FlightOK(j) /\ future[j] # "pending"
  BY <1>4 DEF Flying, CountInv, OrderInv
<1>6. Flying' = Flying \ {j}
  <2>1. j \notin Range(thread_results)
    BY <1>1, <1>4 DEF ResultInv
  <2> QED
    BY <1>2, <1>4, <2>1 DEF Flying
<1>7. c \in Clients /\ Reaches(c) /\ link[c] = "open"
  BY <1>0, <1>5 DEF FlightOK, Waits, Reaches, ResultFd
<1>8. received' = [received EXCEPT ![c] = Append(@, j)]
  <2>1. SendResult
    BY <1>7 DEF SendLost
  <2>2. PICK d \in Clients : Reaches(d) /\ received' = [received EXCEPT ![d] = Append(@, j)]
    BY <1>0, <2>1 DEF SendResult
  <2>3. d = c
    BY <1>7, <2>2 DEF Reaches
  <2> QED
    BY <2>2, <2>3
<1>9. /\ Len(received[c]) \in Nat /\ Len(received'[c]) = Len(received[c]) + 1
      /\ \A d \in Clients \ {c} : received'[d] = received[d]
  <2>1. received[c] \in Seq(J) /\ received'[c] = Append(received[c], j)
    BY <1>3, <1>7, <1>8
  <2>2. Len(received[c]) \in Nat /\ Len(received'[c]) = Len(received[c]) + 1
    BY <1>4, <2>1
  <2> QED
    BY <1>3, <1>8, <2>2
<1>10. \A d \in Clients : Done(d)' = Done(d)
  BY <1>2 DEF Done
<1>11. DoneFlying(c) /\ ~DoneFlying(c)'
  <2>1. DoneFlying(c)
    BY <1>0, <1>5 DEF DoneFlying
  <2>2. \A i \in Flying' : jobs[i].client # c
    BY <1>0, <1>5, <1>6 DEF CountInv, OrderInv
  <2> QED
    BY <1>2, <2>1, <2>2 DEF DoneFlying
<1>12. \A d \in Clients \ {c} : DoneFlying(d)' <=> DoneFlying(d)
  BY <1>0, <1>2, <1>6 DEF DoneFlying
<1>13. Cardinality(Done(c)) = Len(received[c]) + 1
  <2>1. Cardinality(Done(c)) = Len(received[c]) + (IF DoneFlying(c) THEN 1 ELSE 0)
    BY <1>7 DEF CountInv
  <2> QED
    BY <1>11, <2>1
<1>14. ASSUME NEW d \in Clients
       PROVE  Cardinality(Done(d))' = Len(received'[d]) + (IF DoneFlying(d)' THEN 1 ELSE 0)
  <2>1. CASE d = c
    BY <1>9, <1>10, <1>11, <1>13, <2>1
  <2>2. CASE d # c
    BY <1>9, <1>10, <1>12, <2>2 DEF CountInv
  <2> QED
    BY <2>1, <2>2
<1>15. CountInv'
  BY <1>2, <1>4, <1>14 DEF CountInv
<1>16. Server!Answer(c)
  <2> DEFINE f == [d \in Clients |-> Len(received[d])]
             g == [d \in Clients |-> Cardinality(Done(d))]
  <2>1. f[c] < g[c]
    BY <1>7, <1>9, <1>13
  <2>2. \A d \in Clients : f'[d] = IF d = c THEN f[c] + 1 ELSE f[d]
    BY <1>7, <1>9
  <2>3. f' = [f EXCEPT ![c] = @ + 1]
    BY <2>2
  <2>4. g' = g
    BY <1>10
  <2> QED
    BY <1>2, <2>1, <2>3, <2>4 DEF Server!Answer, Done
<1> QED
  BY <1>7, <1>15, <1>16 DEF Mirrored, Server!Next

LEMMA CountInit == Init => CountInv /\ Server!Init
<1> SUFFICES ASSUME Init PROVE CountInv /\ Server!Init
  OBVIOUS
<1>1. DOMAIN <<>> = {} /\ Len(<<>>) = 0
  OBVIOUS
<1>2. Flying = {} /\ Range(results) = {}
  BY <1>1 DEF Init, Flying, Range
<1>3. \A c \in Clients : Done(c) = {} /\ ~DoneFlying(c) /\ Len(received[c]) = 0
  BY <1>1, <1>2 DEF Init, Done, DoneFlying
<1>4. \A c \in Clients : Cardinality(Done(c)) = 0
  BY <1>3, FS_EmptySet
<1>5. CountInv
  <2>1. ASSUME NEW c \in Clients
        PROVE  Cardinality(Done(c)) = Len(received[c]) + (IF DoneFlying(c) THEN 1 ELSE 0)
    <3>1. (IF DoneFlying(c) THEN 1 ELSE 0) = 0
      BY <1>3
    <3>2. Cardinality(Done(c)) = 0 /\ Len(received[c]) = 0
      BY <1>3, <1>4
    <3> QED
      BY <3>1, <3>2
  <2> QED
    BY <1>2, <2>1, OrderInit DEF CountInv
<1>6. /\ [c \in Clients |-> Cardinality(Done(c))] = [c \in Clients |-> 0]
      /\ [c \in Clients |-> Len(received[c])] = [c \in Clients |-> 0]
      /\ sent = [c \in Clients |-> 0]
  BY <1>3, <1>4 DEF Init
<1>7. Server!Init
  BY <1>6 DEF Server!Init, Done
<1> QED
  BY <1>5, <1>7

LEMMA CountNext ==
    ASSUME Orderly, CountInv, [Next]_vars
    PROVE  Mirrored
<1>1. OrderInv'
  BY OrderNext DEF CountInv
<1>2. ASSUME NEW c \in Clients, Client(c) PROVE Mirrored
  <2>1. UNCHANGED <<received, jobs, future, thread_results, results>>
    BY <1>2 DEF Client, Connect, SendCommand, RestArrives, Leave, managerVars, jobVars,
                workerVars
  <2>2. sent' = sent \/ \E d \in Clients : SendCommand(d)
    BY <1>2 DEF Client, Connect, RestArrives, Leave, netVars
  <2> QED
    BY <1>1, <2>1, <2>2, MirrorQuiet
<1>3. ASSUME NEW w \in Threads, Worker(w) PROVE Mirrored
  <2>1. UNCHANGED <<sent, received, jobs, thread_results, results>>
    BY <1>3 DEF Worker, clientVars, netVars, managerVars, jobVars
  <2>2. CASE Execute(w)
    BY <1>1, <2>1, <2>2, MirrorExecute
  <2>3. CASE ~Execute(w)
    <3>1. UNCHANGED future
      BY <1>3, <2>3 DEF Worker, CheckQueue, Block, WaitTimesOut, Dequeue
    <3> QED
      BY <1>1, <2>1, <3>1, MirrorQuiet
  <2> QED
    BY <2>2, <2>3
<1>4. ASSUME Turns \/ Accept \/ ReceiveClose \/ UNCHANGED vars PROVE Mirrored
  <2>1. UNCHANGED <<sent, received, jobs, future, thread_results, results>>
    BY <1>4 DEF Turns, NothingToAccept, AcceptFails, Notify, ReceiveNothing, ReceiveEnd,
       FutureNotReady, CollectException, CollectEnd, SendToClosedEnd, SendEnd,
       Accept, ReceiveClose, vars, clientVars, netVars, managerVars, jobVars, workerVars
  <2> QED
    BY <1>1, <2>1, MirrorQuiet
<1>5. ASSUME Manager PROVE Mirrored
  <2>1. ~ReceiveError
    BY DEF ReceiveError, Orderly
  <2>2. Turns \/ Accept \/ ReceiveCommand \/ ReceiveClose \/ CollectResult
        \/ SendResult \/ SendLost
    BY <1>5, <2>1 DEF Manager, Turns
  <2> QED
    BY <1>1, <1>4, <2>2, MirrorCommand, MirrorCollect, MirrorSend
<1> QED
  BY <1>2, <1>3, <1>4, <1>5 DEF Next

\* With clients that wait and a network that works, whatever the threads and
\* the timeouts do, each command is carried out after it was sent, once, and
\* answered after it was carried out, once, to the client that sent it.
THEOREM ServesRequests ==
    ASSUME Orderly
    PROVE  Spec => Server!Init /\ [][Server!Next]_(Server!serverVars)
<1>1. CountInv /\ [Next]_vars => Mirrored
  BY CountNext
<1>2. CountInv /\ [Next]_vars => CountInv'
  BY <1>1 DEF Mirrored
<1>3. CountInv /\ [Next]_vars => [Server!Next]_(Server!serverVars)
  BY <1>1 DEF Mirrored
<1> QED
  BY <1>2, <1>3, CountInit, PTL DEF Spec
=============================================================================
