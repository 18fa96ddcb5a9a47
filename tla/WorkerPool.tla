------------------------------ MODULE WorkerPool ------------------------------
(***************************************************************************)
(* The pools that send queries to the graph database, test case by test    *)
(* case: InterprocProcessing.send_commands and interproc_worker            *)
(* (bugfinder/processing/interproc.py), SinkTaggingProcessing and          *)
(* sinktagging_worker (bugfinder/processing/sink_tagging.py), with the     *)
(* MultiBar through which the workers tell the parent how far they are     *)
(* (bugfinder/utils/progressbar.py) and the log of failed queries from     *)
(* which a later run resumes.                                              *)
(*                                                                         *)
(* Modelled from their use: multiprocessing.Pool (tasks are handed out in  *)
(* order, one by one; join waits for every result), multiprocessing.Queue  *)
(* (messages of a process keep their order, those of two processes mix,    *)
(* and empty() misses a message on its way) and the database (a query      *)
(* runs, fails, or its answer is lost).                                    *)
(***************************************************************************)
EXTENDS Naturals, SequencesExt

CONSTANTS
  TestCases,  \* test cases in the database
  Queries,    \* number of queries of each test case
  Workers,    \* processes of the pool, POOL_SIZE of them
  Tries,      \* attempts at one query: range(4) in the code
  Kinds,      \* the operations considered, among AllKinds
  MaxRuns     \* bound on the runs of the operation

AllKinds == {"interproc", "sinktagging"}

ASSUME PoolAssumption == /\ IsFiniteSet(TestCases)
                         /\ Queries \in [TestCases -> Nat]
                         /\ Tries \in Nat \ {0}
                         /\ Kinds \subseteq AllKinds
                         /\ MaxRuns \in Nat

VARIABLES
  kind,     \* the operation
  pc,       \* where the parent is
  tasks,    \* tc_list: the test cases, and the query to begin with
  next,     \* the next task to hand out
  outcome,  \* of each task: what it returned, and the query that failed
  job,      \* what each worker is doing
  outbox,   \* messages of each worker that the parent has not got
  jobs,     \* MultiBar.jobs
  done,     \* MultiBar.done
  logging,  \* log_output is given
  log,      \* the lines of the log file of failed queries
  written,  \* there is such a file
  ran,      \* queries that the database has run, for each test case
  covered,  \* ghost: the log accounts for every test case since a full run
  runs      \* number of runs started

bar    == <<jobs, done>>
parent == <<pc, logging, log, written, covered>>
run    == <<kind, tasks, runs>>
vars   == <<kind, pc, tasks, next, outcome, job, outbox, jobs, done, logging, log, written,
            ran, covered, runs>>

Line    == [tc : TestCases, from : Nat \ {0}]
Outcome == [res : {"pending", "ok", "failed", "raised", "lost"}, at : Nat]
Job     == [step : {"idle", "connect", "run"}, task : Nat, query : Nat, tries : 0..Tries]
Pending == [res |-> "pending", at |-> 0]
Idle    == [step |-> "idle", task |-> 0, query |-> 0, tries |-> 0]

Init == /\ kind \in Kinds
        /\ pc = "closed"
        /\ tasks = <<>>
        /\ next = 1
        /\ outcome = <<>>
        /\ job = [w \in Workers |-> Idle]
        /\ outbox = [w \in Workers |-> <<>>]
        /\ jobs = 0
        /\ done = 0
        /\ logging = FALSE
        /\ log = <<>>
        /\ written = FALSE
        /\ ran = [t \in TestCases |-> {}]
        /\ covered = FALSE
        /\ runs = 0
-------------------------------------------------------------------------------
(* The parent: send_commands.  Queries are numbered from 1.                  *)

AllTasks == SetToSeq({[tc |-> t, from |-> 1] : t \in TestCases})

(* What the log says is left to do: a query per line for interproc, names of *)
(* test cases, each of them once, for sinktagging.                           *)
FailedTasks == IF kind = "interproc" THEN log ELSE SetToSeq(ToSet(log))

(* The tasks are given to a new pool; the queue of MultiBar is an attribute  *)
(* of the class, and keeps what a former run has left in it.                 *)
StartRun(list) ==
  /\ pc \in {"closed", "ended", "raised"}
  /\ runs < MaxRuns
  /\ runs' = runs + 1
  /\ tasks' = list
  /\ next' = 1
  /\ outcome' = [i \in DOMAIN list |-> Pending]
  /\ job' = [w \in Workers |-> Idle]
  /\ jobs' = 0
  /\ done' = 0
  /\ logging' \in BOOLEAN
  /\ pc' = "refresh"
  /\ UNCHANGED <<kind, outbox, log, written, ran>>

StartAll    == StartRun(AllTasks) /\ covered' = logging'
StartFailed == /\ written
               /\ StartRun(FailedTasks)
               /\ covered' = (covered /\ logging')

(* MultiBar.refresh takes the messages that have come ...                    *)
Receive(w) == /\ pc = "refresh"
              /\ outbox[w] # <<>>
              /\ outbox' = [outbox EXCEPT ![w] = Tail(@)]
              /\ jobs' = jobs + (IF Head(outbox[w]) = "extend" THEN 1 ELSE 0)
              /\ done' = done + (IF Head(outbox[w]) = "done" THEN 1 ELSE 0)
              /\ UNCHANGED <<parent, run, next, outcome, job, ran>>

(* ... until as many jobs are done as have subscribed.                       *)
RefreshEnds == /\ pc = "refresh"
               /\ jobs # 0
               /\ done >= jobs
               /\ pc' = "join"
               /\ UNCHANGED <<run, next, outcome, job, outbox, bar, logging, log,
                              written, ran, covered>>

Join == /\ pc = "join"
        /\ \A i \in DOMAIN outcome : outcome[i].res \notin {"pending", "lost"}
        /\ pc' = "write"
        /\ UNCHANGED <<run, next, outcome, job, outbox, bar, logging, log, written, ran,
                       covered>>

(* Mutant: the line names the query after the one that failed.               *)
LinePast(i) == [tc |-> tasks[i].tc,
                from |-> IF kind = "interproc" THEN outcome[i].at + 1 ELSE 1]

(* The line of a failed task, as a later run reads it.                       *)
LineOf(i) == [tc |-> tasks[i].tc,
              from |-> IF kind = "interproc" THEN outcome[i].at ELSE 1]
NumbersOf(res) == {i \in DOMAIN outcome : outcome[i].res = res}
InOrder(S)     == {s \in SetToSeqs(S) : \A j \in 2..Len(s) : s[j - 1] < s[j]}

(* status.get() raises what a task has raised, and no line is written.  It   *)
(* is called only if there is a log to write.  The lines of the failed tasks *)
(* are added in the order of the tasks.                                      *)
WriteLog == /\ pc = "write"
            /\ IF logging /\ NumbersOf("raised") # {}
               THEN pc' = "raised" /\ covered' = FALSE /\ UNCHANGED <<log, written>>
               ELSE /\ pc' = "ended"
                    /\ IF logging
                       THEN \E s \in InOrder(NumbersOf("failed")) :
                              log' = log \o [j \in DOMAIN s |-> LineOf(s[j])]
                       ELSE log' = log
                    /\ written' = (written \/ logging)
                    /\ UNCHANGED covered
            /\ UNCHANGED <<run, next, outcome, job, outbox, bar, logging, ran>>
-------------------------------------------------------------------------------
(* A worker: interproc_worker, sinktagging_worker.                           *)

Say(w, msg) == outbox' = [outbox EXCEPT ![w] = Append(@, msg)]
Returns(w, res, at) ==
  /\ outcome' = [outcome EXCEPT ![job[w].task] = [res |-> res, at |-> at]]
  /\ job' = [job EXCEPT ![w] = Idle]
More(w) == /\ job[w].step = "run"
           /\ job[w].query <= Queries[tasks[job[w].task].tc]
Runs(w) == ran' = [ran EXCEPT ![tasks[job[w].task].tc] = @ \cup {job[w].query}]

TakeTask(w) == /\ pc \in {"refresh", "join"}
               /\ job[w].step = "idle"
               /\ next <= Len(tasks)
               /\ job' = [job EXCEPT ![w] = [step |-> "connect", task |-> next,
                                             query |-> tasks[next].from, tries |-> 0]]
               /\ next' = next + 1
               /\ UNCHANGED <<parent, run, outcome, outbox, bar, ran>>

Connect(w) == /\ job[w].step = "connect"
              /\ job' = [job EXCEPT ![w].step = "run"]
              /\ Say(w, "extend")
              /\ UNCHANGED <<parent, run, next, outcome, bar, ran>>

(* Graph() stands outside the try: the task raises, and says nothing.        *)
ConnectFails(w) == /\ job[w].step = "connect"
                   /\ Returns(w, "raised", 0)
                   /\ UNCHANGED <<parent, run, next, outbox, bar, ran>>

QueryRuns(w) == /\ More(w)
                /\ Runs(w)
                /\ job' = [job EXCEPT ![w] = [step |-> "run", task |-> @.task,
                                              query |-> @.query + 1, tries |-> 0]]
                /\ UNCHANGED <<parent, run, next, outcome, outbox, bar>>

(* Mutants: one attempt too many; a break that leaves the query.             *)
AnswerLostAgain(w) == /\ More(w)
                      /\ job[w].tries <= Tries
                      /\ Runs(w) \/ UNCHANGED ran
                      /\ job' = [job EXCEPT ![w].tries = @ + 1]
                      /\ UNCHANGED <<parent, run, next, outcome, outbox, bar>>
AnswerLostSkips(w) == /\ More(w)
                      /\ job[w].tries + 1 < Tries
                      /\ Runs(w) \/ UNCHANGED ran
                      /\ job' = [job EXCEPT ![w].query = @ + 1, ![w].tries = 0]
                      /\ UNCHANGED <<parent, run, next, outcome, outbox, bar>>

(* RemoteDisconnected, ProtocolError: the query is sent again, whether it    *)
(* has run or not.                                                           *)
AnswerLost(w) == /\ More(w)
                 /\ job[w].tries + 1 < Tries
                 /\ Runs(w) \/ UNCHANGED ran
                 /\ job' = [job EXCEPT ![w].tries = @ + 1]
                 /\ UNCHANGED <<parent, run, next, outcome, outbox, bar>>

(* Mutants: no else clause, so that the task goes on to return None; a       *)
(* return without unsubscribe.                                               *)
TriesForgotten(w) == /\ More(w)
                     /\ job[w].tries + 1 = Tries
                     /\ Runs(w) \/ UNCHANGED ran
                     /\ Returns(w, "ok", 0)
                     /\ Say(w, "done")
                     /\ UNCHANGED <<parent, run, next, bar>>
StillSubscribed(w) == /\ More(w)
                      /\ job[w].tries + 1 = Tries
                      /\ Runs(w) \/ UNCHANGED ran
                      /\ Returns(w, "failed", job[w].query)
                      /\ UNCHANGED <<parent, run, next, outbox, bar>>

(* The else clause of the loop: "All tries exhausted."                       *)
TriesExhausted(w) == /\ More(w)
                     /\ job[w].tries + 1 = Tries
                     /\ Runs(w) \/ UNCHANGED ran
                     /\ Returns(w, "failed", job[w].query)
                     /\ Say(w, "done")
                     /\ UNCHANGED <<parent, run, next, bar>>

QueryFails(w) == /\ More(w)
                 /\ Returns(w, "failed", job[w].query)
                 /\ Say(w, "done")
                 /\ UNCHANGED <<parent, run, next, bar, ran>>

Finish(w) == /\ job[w].step = "run"
             /\ ~More(w)
             /\ Returns(w, "ok", 0)
             /\ Say(w, "done")
             /\ UNCHANGED <<parent, run, next, bar, ran>>

(* Ctrl-C reaches the parent and every worker: a query under way is a failed *)
(* one, a worker that is not in its try clause dies with its task.           *)
Busy(step) == {w \in Workers : job[w].step = step}
Interrupt ==
  /\ pc = "refresh"
  /\ pc' = "join"
  /\ LET Result(i) == CASE \E w \in Busy("run") : job[w].task = i ->
                             [res |-> "failed",
                              at |-> (CHOOSE j \in {job[w] : w \in Busy("run")} :
                                        j.task = i).query]
                        [] \E w \in Busy("connect") : job[w].task = i ->
                             [res |-> "lost", at |-> 0]
                        [] OTHER -> outcome[i]
     IN outcome' = [i \in DOMAIN outcome |-> Result(i)]
  /\ outbox' = [w \in Workers |-> IF w \in Busy("run") THEN Append(outbox[w], "done")
                                  ELSE outbox[w]]
  /\ job' = [w \in Workers |-> Idle]
  /\ UNCHANGED <<run, next, bar, logging, log, written, ran, covered>>
-------------------------------------------------------------------------------
Parent == StartAll \/ StartFailed \/ RefreshEnds \/ Join \/ WriteLog \/ Interrupt
Step(w) == \/ Connect(w) \/ ConnectFails(w) \/ QueryRuns(w) \/ AnswerLost(w)
           \/ TriesExhausted(w) \/ QueryFails(w) \/ Finish(w)
Next == Parent \/ \E w \in Workers : Receive(w) \/ TakeTask(w) \/ Step(w)

(* The parent polls for ever, each process is scheduled, and a query ends:   *)
(* the database has a transaction timeout.                                   *)
Fairness == /\ WF_vars(RefreshEnds \/ Join \/ WriteLog)
            /\ \A w \in Workers : /\ WF_vars(Receive(w))
                                  /\ WF_vars(TakeTask(w))
                                  /\ WF_vars(Step(w))

Spec == Init /\ [][Next]_vars /\ Fairness
-------------------------------------------------------------------------------
TypeOK == /\ kind \in Kinds
          /\ pc \in {"closed", "refresh", "join", "write", "ended", "raised"}
          /\ tasks \in Seq(Line)
          /\ next \in 1..(Len(tasks) + 1)
          /\ outcome \in Seq(Outcome) /\ Len(outcome) = Len(tasks)
          /\ job \in [Workers -> Job]
          /\ outbox \in [Workers -> Seq({"extend", "done"})]
          /\ jobs \in Nat /\ done \in Nat
          /\ {logging, written, covered} \subseteq BOOLEAN
          /\ log \in Seq(Line)
          /\ ran \in [TestCases -> SUBSET (Nat \ {0})]
          /\ runs \in 0..MaxRuns

(* The queries of a test case build on each other: none has run before those *)
(* that come before it have, in whatever run, whatever was retried or        *)
(* resumed, and whichever two workers are busy with the same test case.      *)
QueriesInOrder == \A t \in TestCases : \A q \in ran[t] : 1..q \subseteq ran[t]

(* A task that returns None has nothing left to do: all the queries of its   *)
(* test case have run, those before the line it was resumed from included.   *)
NothingSkipped ==
  \A i \in DOMAIN outcome :
    outcome[i].res = "ok" => 1..Queries[tasks[i].tc] \subseteq ran[tasks[i].tc]

(* "Write failed queries to a log file if specified" (interproc.py:135): the *)
(* runs that went through can be completed from the log.  Any query that has *)
(* not run is in it, at or after the query that a later run begins with.     *)
LogCoversFailures ==
  pc = "ended" /\ covered =>
    \A t \in TestCases : \A q \in 1..Queries[t] \ ran[t] :
      \E i \in DOMAIN log : log[i].tc = t /\ log[i].from <= q

(* The parent does not wait for ever once a worker has subscribed, unless a  *)
(* worker died with its task.                                                *)
Subscribed == jobs > 0 \/ \E w \in Workers : Contains(outbox[w], "extend")
PoolReturns == (pc = "refresh" /\ Subscribed) ~>
                 (pc \in {"ended", "raised"} \/ NumbersOf("lost") # {})

(* "Display progress until we are done" (interproc.py:126,                   *)
(* sink_tagging.py:193): a run that has nothing to do is done.               *)
NothingToDoEnds == (pc = "refresh" /\ tasks = <<>>) ~> (pc # "refresh")
===============================================================================
