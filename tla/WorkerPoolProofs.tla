--------------------------- MODULE WorkerPoolProofs ---------------------------
(* Proofs of the safety properties of WorkerPool, for any number of workers, *)
(* test cases, queries and runs.                                             *)
EXTENDS WorkerPool, FiniteSetTheorems, SequenceTheorems, TLAPS

Held(w)   == job[w].step # "idle"
Behind(l) == 1..(l.from - 1) \subseteq ran[l.tc]

(* A worker holds a task of its own, whose queries before the one it is at   *)
(* have run.                                                                 *)
JobInv ==
  \A w \in Workers : Held(w) =>
    /\ job[w].task \in 1..(next - 1) /\ outcome[job[w].task].res = "pending"
    /\ job[w].query >= 1 /\ 1..(job[w].query - 1) \subseteq ran[tasks[job[w].task].tc]
    /\ \A x \in Workers : Held(x) /\ job[x].task = job[w].task => x = w

(* What has become of a task tells what has run of its test case.            *)
OutInv ==
  \A i \in DOMAIN outcome :
    /\ i >= next => outcome[i].res = "pending"
    /\ outcome[i].res = "failed" =>
         outcome[i].at >= 1 /\ 1..(outcome[i].at - 1) \subseteq ran[tasks[i].tc]
    /\ outcome[i].res = "ok" => 1..Queries[tasks[i].tc] \subseteq ran[tasks[i].tc]
    /\ pc \notin {"refresh", "join"} => outcome[i].res \notin {"pending", "lost"}

LineInv == /\ \A i \in DOMAIN tasks : Behind(tasks[i])
           /\ \A i \in DOMAIN log : Behind(log[i])

(* A query that has not run is in the log, or in a task that goes on to it,  *)
(* has failed before it or will keep the log from being written.             *)
InLog(t, q)  == \E i \in DOMAIN log : log[i].tc = t /\ log[i].from <= q
InTask(t, q) ==
  \E i \in DOMAIN tasks :
    /\ tasks[i].tc = t
    /\ \/ i >= next /\ tasks[i].from <= q
       \/ \E w \in Workers : Held(w) /\ job[w].task = i /\ job[w].query <= q
       \/ outcome[i].res = "failed" /\ outcome[i].at <= q
       \/ outcome[i].res \in {"raised", "lost"}
CoverInv ==
  covered =>
    \A t \in TestCases : \A q \in 1..Queries[t] \ ran[t] :
      InLog(t, q) \/ (pc \in {"refresh", "join", "write"} /\ logging /\ InTask(t, q))

PoolInv == TypeOK /\ JobInv /\ OutInv /\ LineInv /\ QueriesInOrder
-------------------------------------------------------------------------------
(* The sequence of a finite set has its members and no others.               *)
LEMMA SetToSeqFacts ==
  ASSUME NEW S, IsFiniteSet(S)
  PROVE  /\ SetToSeq(S) \in Seq(S)
         /\ \A x \in S : \E i \in DOMAIN SetToSeq(S) : SetToSeq(S)[i] = x
<1> DEFINE D == 1..Cardinality(S)
           s == SetToSeq(S)
<1>1. Cardinality(S) \in Nat /\ \E f : f \in Bijection(D, S)
  BY FS_CardinalityType DEF ExistsBijection
<1>2. \E f \in [D -> S] : IsInjective(f)
  BY <1>1, Zenon DEF Bijection, Injection
<1>3. s \in [D -> S] /\ IsInjective(s)
  BY <1>2, Zenon DEF SetToSeq
<1> HIDE DEF s
<1>4. IsFiniteSet(D) /\ Cardinality(D) = Cardinality(S)
  BY <1>1, FS_Interval
<1>5. s \in Injection(D, S)
  BY <1>3 DEF Injection
<1>6. s \in Surjection(D, S)
  BY <1>4, <1>5, FS_Injection
<1>7. s \in Seq(S) /\ DOMAIN s = D
  BY <1>1, <1>3
<1>8. \A x \in S : \E i \in DOMAIN s : s[i] = x
  BY <1>6, <1>7 DEF Surjection
<1> QED
  BY <1>7, <1>8 DEF s

LEMMA SetToSeqsFacts ==
  ASSUME NEW S, IsFiniteSet(S), NEW s \in SetToSeqs(S)
  PROVE  s \in Seq(S) /\ \A x \in S : \E i \in DOMAIN s : s[i] = x
<1> DEFINE D == 1..Cardinality(S)
<1>1. Cardinality(S) \in Nat
  BY FS_CardinalityType
<1>2. s \in [D -> S] /\ \A i, j \in D : i # j => s[i] # s[j]
  BY Zenon DEF SetToSeqs
<1>3. IsFiniteSet(D) /\ Cardinality(D) = Cardinality(S)
  BY <1>1, FS_Interval
<1>4. s \in Injection(D, S)
  BY <1>2 DEF Injection, IsInjective
<1>5. s \in Surjection(D, S)
  BY <1>3, <1>4, FS_Injection
<1> QED
  BY <1>1, <1>2, <1>5 DEF Surjection

LEMMA SeqFinite ==
  ASSUME NEW R, NEW s \in Seq(R)
  PROVE  IsFiniteSet(ToSet(s)) /\ ToSet(s) \subseteq R
<1>1. IsFiniteSet(DOMAIN s)
  <2>1. DOMAIN s = 1..Len(s) /\ Len(s) \in Nat
    OBVIOUS
  <2> QED
    BY <2>1, FS_Interval
<1>2. s \in Surjection(DOMAIN s, ToSet(s))
  BY DEF Surjection, ToSet
<1>3. IsFiniteSet(ToSet(s))
  BY <1>1, <1>2, FS_Surjection
<1> QED
  BY <1>3 DEF ToSet

(* The tasks of a full run are all the test cases, from their first query.   *)
LEMMA AllTasksFacts ==
  /\ AllTasks \in Seq(Line)
  /\ \A i \in DOMAIN AllTasks : AllTasks[i].from = 1
  /\ \A t \in TestCases : \E i \in DOMAIN AllTasks : AllTasks[i].tc = t
<1> DEFINE e(t) == [tc |-> t, from |-> 1]
           S == {e(t) : t \in TestCases}
           f == [t \in TestCases |-> e(t)]
<1>1. f \in Surjection(TestCases, S)
  BY DEF Surjection
<1>2. IsFiniteSet(S)
  BY <1>1, PoolAssumption, FS_Surjection
<1>3. /\ AllTasks \in Seq(S)
      /\ \A x \in S : \E i \in DOMAIN AllTasks : AllTasks[i] = x
  BY <1>2, SetToSeqFacts DEF AllTasks
<1>4. \A x \in S : x \in Line /\ x.from = 1
  BY DEF Line
<1>5. \A i \in DOMAIN AllTasks : AllTasks[i] \in S
  BY <1>3
<1>6. AllTasks \in Seq(Line)
  BY <1>3, <1>4
<1>7. ASSUME NEW t \in TestCases PROVE \E i \in DOMAIN AllTasks : AllTasks[i].tc = t
  <2>1. e(t) \in S
    OBVIOUS
  <2> QED
    BY <1>3, <2>1
<1> QED
  BY <1>4, <1>5, <1>6, <1>7

(* Those of a later run are lines of the log.                                *)
LEMMA FailedTasksFacts ==
  ASSUME log \in Seq(Line)
  PROVE  /\ FailedTasks \in Seq(Line)
         /\ \A i \in DOMAIN FailedTasks : \E j \in DOMAIN log : FailedTasks[i] = log[j]
<1>1. CASE kind = "interproc"
  BY <1>1 DEF FailedTasks
<1>2. CASE kind # "interproc"
  <2> DEFINE S == ToSet(log)
  <2>1. IsFiniteSet(S) /\ S \subseteq Line
    BY SeqFinite
  <2> HIDE DEF S
  <2>2. SetToSeq(S) \in Seq(S)
    BY <2>1, SetToSeqFacts
  <2>3. FailedTasks = SetToSeq(S)
    BY <1>2 DEF FailedTasks, S
  <2>4. \A i \in DOMAIN FailedTasks : FailedTasks[i] \in S
    BY <2>2, <2>3
  <2>5. FailedTasks \in Seq(Line)
    BY <2>1, <2>2, <2>3
  <2> QED
    BY <2>4, <2>5 DEF S, ToSet
<1> QED
  BY <1>1, <1>2
-------------------------------------------------------------------------------
(* What a step of a worker may change.                                       *)
HereTc(w) == tasks[job[w].task].tc
GoesOn(w) ==
  /\ outcome' = outcome
  /\ job'[w].step # "idle" /\ job'[w].task = job[w].task
  /\ \/ job'[w].query = job[w].query
     \/ job'[w].query = job[w].query + 1 /\ job[w].query \in ran'[HereTc(w)]
GivesBack(w) ==
  /\ job'[w] = Idle
  /\ \/ outcome'[job[w].task].res = "raised"
     \/ outcome'[job[w].task].res = "failed" /\ outcome'[job[w].task].at = job[w].query
     \/ outcome'[job[w].task].res = "ok" /\ job[w].query > Queries[HereTc(w)]

LEMMA HeldFacts ==
  ASSUME TypeOK, JobInv, NEW w \in Workers, Held(w)
  PROVE  /\ job[w].task \in DOMAIN tasks /\ job[w].task \in DOMAIN outcome
         /\ job[w].task \in Nat /\ job[w].query \in Nat \ {0}
         /\ HereTc(w) \in TestCases
<1>1. job[w] \in Job /\ job[w].task \in 1..(next - 1) /\ job[w].query >= 1
  BY DEF TypeOK, JobInv
<1>2. next \in 1..(Len(tasks) + 1) /\ Len(outcome) = Len(tasks)
      /\ tasks \in Seq(Line) /\ outcome \in Seq(Outcome)
  BY DEF TypeOK
<1>3. job[w].task \in 1..Len(tasks)
  BY <1>1, <1>2
<1>4. tasks[job[w].task] \in Line
  BY <1>2, <1>3
<1> QED
  BY <1>1, <1>2, <1>3, <1>4 DEF Job, Line, HereTc

LEMMA RunsFacts ==
  ASSUME TypeOK, JobInv, NEW w \in Workers, Held(w), Runs(w) \/ UNCHANGED ran
  PROVE  /\ ran' \in [TestCases -> SUBSET (Nat \ {0})]
         /\ \A t \in TestCases : ran[t] \subseteq ran'[t]
         /\ \A t \in TestCases : \A q \in ran'[t] :
              q \in ran[t] \/ (t = HereTc(w) /\ q = job[w].query)
         /\ Runs(w) => job[w].query \in ran'[HereTc(w)]
<1> DEFINE t == HereTc(w)
           q == job[w].query
<1>1. ran \in [TestCases -> SUBSET (Nat \ {0})] /\ t \in TestCases /\ q \in Nat \ {0}
  BY HeldFacts DEF TypeOK
<1>2. Runs(w) => ran' = [ran EXCEPT ![t] = @ \cup {q}]
  BY DEF Runs, HereTc
<1>3. CASE UNCHANGED ran /\ ~Runs(w)
  BY <1>1, <1>3
<1>4. CASE Runs(w)
  <2> HIDE DEF t, q
  <2>1. ran' = [ran EXCEPT ![t] = @ \cup {q}]
    BY <1>2, <1>4
  <2>2. /\ ran' \in [TestCases -> SUBSET (Nat \ {0})]
        /\ \A u \in TestCases : ran[u] \subseteq ran'[u]
        /\ \A u \in TestCases : \A x \in ran'[u] : x \in ran[u] \/ (u = t /\ x = q)
        /\ q \in ran'[t]
    BY <1>1, <2>1
  <2> QED
    BY <2>2 DEF t, q
<1> QED
  BY <1>3, <1>4

LEMMA ReturnsFacts ==
  ASSUME TypeOK, JobInv, NEW w \in Workers, Held(w),
         NEW res \in {"ok", "failed", "raised"}, NEW at \in Nat, Returns(w, res, at)
  PROVE  /\ outcome' \in Seq(Outcome) /\ Len(outcome') = Len(tasks)
         /\ job' \in [Workers -> Job] /\ job'[w] = Idle
         /\ outcome'[job[w].task] = [res |-> res, at |-> at]
         /\ \A i \in DOMAIN outcome \ {job[w].task} : outcome'[i] = outcome[i]
         /\ \A x \in Workers \ {w} : job'[x] = job[x]
<1>1. Idle \in Job /\ [res |-> res, at |-> at] \in Outcome
  BY PoolAssumption DEF Idle, Job, Outcome
<1>2. outcome \in Seq(Outcome) /\ Len(outcome) = Len(tasks) /\ job \in [Workers -> Job]
  BY DEF TypeOK
<1>3. job[w].task \in DOMAIN outcome
  BY HeldFacts
<1> QED
  BY <1>1, <1>2, <1>3 DEF Returns

LEMMA SaysFacts ==
  ASSUME TypeOK, NEW w \in Workers, NEW msg \in {"extend", "done"}, Say(w, msg)
  PROVE  outbox' \in [Workers -> Seq({"extend", "done"})]
BY DEF Say, TypeOK

LEMMA StepFacts ==
  ASSUME TypeOK, JobInv, NEW w \in Workers, Step(w)
  PROVE  /\ Held(w) /\ UNCHANGED <<parent, run, next, bar>>
         /\ Runs(w) \/ UNCHANGED ran
         /\ outcome' \in Seq(Outcome) /\ Len(outcome') = Len(tasks)
         /\ job' \in [Workers -> Job] /\ outbox' \in [Workers -> Seq({"extend", "done"})]
         /\ \A i \in DOMAIN outcome \ {job[w].task} : outcome'[i] = outcome[i]
         /\ \A x \in Workers \ {w} : job'[x] = job[x]
         /\ GoesOn(w) \/ GivesBack(w)
<1>0. /\ job \in [Workers -> Job] /\ outcome \in Seq(Outcome) /\ Len(outcome) = Len(tasks)
      /\ outbox \in [Workers -> Seq({"extend", "done"})]
  BY DEF TypeOK
<1>h. Held(w)
  BY DEF Step, Connect, ConnectFails, QueryRuns, AnswerLost, TriesExhausted, QueryFails,
         Finish, More, Held
<1>q. job[w].query \in Nat \ {0} /\ Idle \in Job /\ job[w] \in Job
  BY <1>0, <1>h, HeldFacts, PoolAssumption DEF Idle, Job
<1>1. CASE Connect(w)
  <2>1. outbox' \in [Workers -> Seq({"extend", "done"})]
    BY <1>1, SaysFacts DEF Connect
  <2>2. /\ job' = [job EXCEPT ![w].step = "run"]
        /\ UNCHANGED <<parent, run, next, outcome, bar, ran>>
    BY <1>1 DEF Connect
  <2>3. job' \in [Workers -> Job] /\ GoesOn(w)
    BY <1>0, <1>q, <2>2 DEF Job, GoesOn
  <2> QED
    BY <1>0, <1>h, <2>1, <2>2, <2>3
<1>2. CASE ConnectFails(w)
  <2>1. Returns(w, "raised", 0) /\ UNCHANGED <<parent, run, next, outbox, bar, ran>>
    BY <1>2 DEF ConnectFails
  <2>2. /\ outcome' \in Seq(Outcome) /\ Len(outcome') = Len(tasks)
        /\ job' \in [Workers -> Job] /\ job'[w] = Idle
        /\ outcome'[job[w].task] = [res |-> "raised", at |-> 0]
        /\ \A i \in DOMAIN outcome \ {job[w].task} : outcome'[i] = outcome[i]
        /\ \A x \in Workers \ {w} : job'[x] = job[x]
    BY <1>h, <2>1, ReturnsFacts
  <2> QED
    BY <1>0, <1>h, <2>1, <2>2 DEF GivesBack
<1>3. CASE QueryRuns(w)
  <2>1. /\ job' = [job EXCEPT ![w] = [step |-> "run", task |-> @.task,
                                      query |-> @.query + 1, tries |-> 0]]
        /\ Runs(w)
        /\ UNCHANGED <<parent, run, next, outcome, outbox, bar>>
    BY <1>3 DEF QueryRuns
  <2> DEFINE j == [step |-> "run", task |-> job[w].task, query |-> job[w].query + 1,
                   tries |-> 0]
  <2>2. job' \in [Workers -> Job]
    <3>1. j \in Job
      <4>1. job[w].task \in Nat /\ job[w].query + 1 \in Nat /\ 0 \in 0..Tries
        BY <1>q, PoolAssumption DEF Job
      <4> QED
        BY <4>1 DEF Job
    <3>2. job' = [job EXCEPT ![w] = j]
      BY <1>0, <2>1
    <3> HIDE DEF j
    <3> QED
      BY <1>0, <3>1, <3>2
  <2>3. job[w].query \in ran'[HereTc(w)]
    BY <1>h, <2>1, RunsFacts
  <2>4. GoesOn(w)
    BY <1>0, <1>q, <1>h, <2>1, <2>3 DEF GoesOn, Held, Job
  <2> QED
    BY <1>0, <1>h, <2>1, <2>2, <2>4
<1>4. CASE AnswerLost(w)
  <2>1. /\ job' = [job EXCEPT ![w].tries = @ + 1] /\ (Runs(w) \/ UNCHANGED ran)
        /\ job[w].tries + 1 < Tries
        /\ UNCHANGED <<parent, run, next, outcome, outbox, bar>>
    BY <1>4 DEF AnswerLost
  <2> DEFINE j == [job[w] EXCEPT !.tries = @ + 1]
  <2>2. job' \in [Workers -> Job]
    <3>1. j \in Job
      BY <1>q, <2>1, PoolAssumption DEF Job
    <3>2. job' = [job EXCEPT ![w] = j]
      BY <1>0, <2>1
    <3> HIDE DEF j
    <3> QED
      BY <1>0, <3>1, <3>2
  <2>3. GoesOn(w)
    BY <1>0, <1>q, <1>h, <2>1 DEF GoesOn, Held, Job
  <2> QED
    BY <1>0, <1>h, <2>1, <2>2, <2>3
<1>5. CASE TriesExhausted(w) \/ QueryFails(w)
  <2>1. /\ Returns(w, "failed", job[w].query) /\ Say(w, "done")
        /\ Runs(w) \/ UNCHANGED ran
        /\ UNCHANGED <<parent, run, next, bar>>
    BY <1>5 DEF TriesExhausted, QueryFails
  <2>2. /\ outcome' \in Seq(Outcome) /\ Len(outcome') = Len(tasks)
        /\ job' \in [Workers -> Job] /\ job'[w] = Idle
        /\ outcome'[job[w].task] = [res |-> "failed", at |-> job[w].query]
        /\ \A i \in DOMAIN outcome \ {job[w].task} : outcome'[i] = outcome[i]
        /\ \A x \in Workers \ {w} : job'[x] = job[x]
    BY <1>h, <1>q, <2>1, ReturnsFacts
  <2>3. outbox' \in [Workers -> Seq({"extend", "done"})]
    BY <2>1, SaysFacts
  <2> QED
    BY <1>0, <1>h, <2>1, <2>2, <2>3 DEF GivesBack
<1>6. CASE Finish(w)
  <2>1. /\ Returns(w, "ok", 0) /\ Say(w, "done") /\ ~More(w) /\ job[w].step = "run"
        /\ UNCHANGED <<parent, run, next, bar, ran>>
    BY <1>6 DEF Finish
  <2>2. /\ outcome' \in Seq(Outcome) /\ Len(outcome') = Len(tasks)
        /\ job' \in [Workers -> Job] /\ job'[w] = Idle
        /\ outcome'[job[w].task] = [res |-> "ok", at |-> 0]
        /\ \A i \in DOMAIN outcome \ {job[w].task} : outcome'[i] = outcome[i]
        /\ \A x \in Workers \ {w} : job'[x] = job[x]
    BY <1>h, <2>1, ReturnsFacts
  <2>3. outbox' \in [Workers -> Seq({"extend", "done"})]
    BY <2>1, SaysFacts
  <2>4. job[w].query > Queries[HereTc(w)]
    BY <1>h, <1>q, <2>1, HeldFacts, PoolAssumption DEF More, HereTc
  <2> QED
    BY <1>0, <1>h, <2>1, <2>2, <2>3, <2>4 DEF GivesBack
<1> QED
  BY <1>1, <1>2, <1>3, <1>4, <1>5, <1>6 DEF Step
-------------------------------------------------------------------------------
(* The lines that are added to the log: one for each failed task.            *)
LEMMA WriteFacts ==
  ASSUME TypeOK, OutInv, NEW s \in InOrder(NumbersOf("failed"))
  PROVE  LET new == [j \in DOMAIN s |-> LineOf(s[j])]
         IN  /\ log \o new \in Seq(Line)
             /\ \A i \in DOMAIN log : i \in DOMAIN (log \o new) /\ (log \o new)[i] = log[i]
             /\ \A i \in DOMAIN (log \o new) :
                  \/ i \in DOMAIN log /\ (log \o new)[i] = log[i]
                  \/ \E k \in NumbersOf("failed") : (log \o new)[i] = LineOf(k)
             /\ \A k \in NumbersOf("failed") :
                  \E i \in DOMAIN (log \o new) : (log \o new)[i] = LineOf(k)
<1> DEFINE new == [j \in DOMAIN s |-> LineOf(s[j])]
           F == NumbersOf("failed")
<1>0. /\ outcome \in Seq(Outcome) /\ Len(outcome) = Len(tasks) /\ tasks \in Seq(Line)
      /\ log \in Seq(Line)
  BY DEF TypeOK
<1>1. F \subseteq 1..Len(tasks) /\ Len(tasks) \in Nat
  BY <1>0 DEF NumbersOf
<1>2. IsFiniteSet(F)
  <2>1. IsFiniteSet(1..Len(tasks))
    BY <1>1, FS_Interval
  <2> HIDE DEF F
  <2> QED
    BY <1>1, <2>1, FS_Subset
<1>3. s \in SetToSeqs(F)
  BY DEF InOrder
<1>4. s \in Seq(F) /\ \A x \in F : \E i \in DOMAIN s : s[i] = x
  BY <1>2, <1>3, SetToSeqsFacts
<1>5. ASSUME NEW k \in F PROVE LineOf(k) \in Line
  <2>1. tasks[k] \in Line /\ outcome[k] \in Outcome
    BY <1>0, <1>1
  <2>2. outcome[k].at \in Nat \ {0}
    BY <2>1 DEF Outcome, OutInv, NumbersOf
  <2> QED
    BY <2>1, <2>2 DEF LineOf, Line
<1> HIDE DEF F
<1>6. /\ \A j \in DOMAIN s : s[j] \in F
      /\ DOMAIN s = 1..Len(s) /\ Len(s) \in Nat
  BY <1>4
<1>7. new \in Seq(Line) /\ Len(new) = Len(s) /\ \A j \in 1..Len(s) : new[j] = LineOf(s[j])
  BY <1>5, <1>6
<1> DEFINE all == log \o new
<1> HIDE DEF new, all
<1>8. /\ all \in Seq(Line) /\ Len(all) = Len(log) + Len(new)
      /\ \A i \in 1..Len(all) : all[i] = IF i <= Len(log) THEN log[i] ELSE new[i - Len(log)]
  <2>1. log \in Seq(Line) /\ new \in Seq(Line)
    BY <1>0, <1>7
  <2>2. ASSUME NEW a \in Seq(Line), NEW b \in Seq(Line)
        PROVE  /\ a \o b \in Seq(Line) /\ Len(a \o b) = Len(a) + Len(b)
               /\ \A i \in 1..(Len(a) + Len(b)) :
                    (a \o b)[i] = IF i <= Len(a) THEN a[i] ELSE b[i - Len(a)]
    BY ConcatProperties
  <2> QED
    BY <2>1, <2>2 DEF all
<1>9. DOMAIN log = 1..Len(log) /\ Len(log) \in Nat /\ DOMAIN all = 1..Len(all)
  BY <1>0, <1>8
<1> HIDE DEF all
<1>10. \A i \in DOMAIN log : i \in DOMAIN all /\ all[i] = log[i]
  BY <1>6, <1>7, <1>8, <1>9
<1>11. ASSUME NEW i \in DOMAIN all
       PROVE  \/ i \in DOMAIN log /\ all[i] = log[i]
              \/ \E k \in F : all[i] = LineOf(k)
  <2>1. CASE i <= Len(log)
    BY <1>8, <1>9, <1>11, <2>1
  <2>2. CASE i > Len(log)
    <3>1. i - Len(log) \in 1..Len(s)
      BY <1>6, <1>7, <1>8, <1>9, <1>11, <2>2
    <3>2. all[i] = LineOf(s[i - Len(log)])
      BY <1>7, <1>8, <1>9, <1>11, <2>2, <3>1
    <3> QED
      BY <1>6, <3>1, <3>2
  <2> QED
    BY <1>9, <1>11, <2>1, <2>2
<1>12. ASSUME NEW k \in F PROVE \E i \in DOMAIN all : all[i] = LineOf(k)
  <2>1. PICK j \in 1..Len(s) : s[j] = k
    BY <1>4, <1>6
  <2>2. Len(log) + j \in 1..Len(all) /\ ~(Len(log) + j <= Len(log))
        /\ (Len(log) + j) - Len(log) = j
    BY <1>6, <1>7, <1>8, <1>9
  <2>3. all[Len(log) + j] = new[j]
    BY <1>8, <2>2
  <2> QED
    BY <1>7, <1>9, <2>1, <2>2, <2>3
<1> QED
  BY <1>8, <1>10, <1>11, <1>12 DEF all, new, F

(* What is said of the lines holds of the log after they have been added.    *)
LEMMA Written ==
  ASSUME TypeOK, OutInv,
         \E s \in InOrder(NumbersOf("failed")) :
           log' = log \o [j \in DOMAIN s |-> LineOf(s[j])]
  PROVE  /\ \A i \in DOMAIN log : i \in DOMAIN log' /\ log'[i] = log[i]
         /\ \A i \in DOMAIN log' : \/ i \in DOMAIN log /\ log'[i] = log[i]
                                  \/ \E k \in NumbersOf("failed") : log'[i] = LineOf(k)
         /\ \A k \in NumbersOf("failed") : \E i \in DOMAIN log' : log'[i] = LineOf(k)
<1>1. PICK s \in InOrder(NumbersOf("failed")) :
             log' = log \o [j \in DOMAIN s |-> LineOf(s[j])]
  OBVIOUS
<1> DEFINE all == log \o [j \in DOMAIN s |-> LineOf(s[j])]
<1>2. /\ \A i \in DOMAIN log : i \in DOMAIN all /\ all[i] = log[i]
      /\ \A i \in DOMAIN all : \/ i \in DOMAIN log /\ all[i] = log[i]
                               \/ \E k \in NumbersOf("failed") : all[i] = LineOf(k)
      /\ \A k \in NumbersOf("failed") : \E i \in DOMAIN all : all[i] = LineOf(k)
  BY <1>1, WriteFacts, Zenon
<1>3. log' = all
  BY <1>1
<1> HIDE DEF all
<1> QED
  BY <1>2, <1>3

(* What Ctrl-C makes of the tasks.                                           *)
LEMMA InterruptFacts ==
  ASSUME TypeOK, JobInv, Interrupt
  PROVE  /\ outcome' \in Seq(Outcome) /\ Len(outcome') = Len(tasks)
         /\ DOMAIN outcome' = DOMAIN outcome
         /\ job' = [w \in Workers |-> Idle] /\ job' \in [Workers -> Job]
         /\ outbox' \in [Workers -> Seq({"extend", "done"})]
         /\ \A i \in DOMAIN outcome :
              \/ \E w \in Workers : /\ Held(w) /\ job[w].task = i
                                    /\ outcome'[i] = [res |-> "failed", at |-> job[w].query]
              \/ /\ \E w \in Workers : Held(w) /\ job[w].task = i
                 /\ outcome'[i] = [res |-> "lost", at |-> 0]
              \/ /\ \A w \in Workers : Held(w) => job[w].task # i
                 /\ outcome'[i] = outcome[i]
<1> DEFINE R == {job[w] : w \in Busy("run")}
           InRun(i) == \E w \in Busy("run") : job[w].task = i
           InConnect(i) == \E w \in Busy("connect") : job[w].task = i
           Result(i) == CASE InRun(i) -> [res |-> "failed",
                                          at |-> (CHOOSE j \in R : j.task = i).query]
                          [] InConnect(i) -> [res |-> "lost", at |-> 0]
                          [] OTHER -> outcome[i]
<1>1. /\ outcome' = [i \in DOMAIN outcome |-> Result(i)]
      /\ job' = [w \in Workers |-> Idle]
      /\ outbox' = [w \in Workers |-> IF w \in Busy("run") THEN Append(outbox[w], "done")
                                      ELSE outbox[w]]
  BY DEF Interrupt
<1>2. /\ outcome \in Seq(Outcome) /\ Len(outcome) = Len(tasks) /\ job \in [Workers -> Job]
      /\ outbox \in [Workers -> Seq({"extend", "done"})]
  BY DEF TypeOK
<1>3. ASSUME NEW i, NEW w \in Busy("run"), job[w].task = i
      PROVE  Result(i) = [res |-> "failed", at |-> job[w].query]
  <2>1. InRun(i) /\ ~InConnect(i)
    <3>1. ASSUME NEW y \in Busy("connect"), job[y].task = i PROVE FALSE
      <4>1. y \in Workers /\ w \in Workers /\ Held(y) /\ Held(w)
            /\ job[y].step = "connect" /\ job[w].step = "run"
        BY DEF Busy, Held
      <4>2. y = w
        BY <1>3, <3>1, <4>1 DEF JobInv
      <4> QED
        BY <4>1, <4>2
    <3> QED
      BY <1>3, <3>1
  <2>2. Result(i) = [res |-> "failed", at |-> (CHOOSE j \in R : j.task = i).query]
    BY <2>1, Zenon
  <2> DEFINE c == CHOOSE j \in R : j.task = i
  <2>3. c \in R /\ c.task = i
    <3>1. \E j \in R : j.task = i
      BY <1>3
    <3> QED
      BY <3>1, Zenon
  <2>4. PICK x \in Busy("run") : c = job[x]
    BY <2>3
  <2>5. x = w
    <3>1. x \in Workers /\ w \in Workers /\ Held(x) /\ Held(w)
      BY DEF Busy, Held
    <3> QED
      BY <1>3, <2>3, <2>4, <3>1 DEF JobInv
  <2> QED
    BY <2>2, <2>4, <2>5
<1>4. ASSUME NEW i, ~InRun(i), InConnect(i)
      PROVE  Result(i) = [res |-> "lost", at |-> 0]
  BY <1>4, Zenon
<1>5. ASSUME NEW i, ~InRun(i), ~InConnect(i)
      PROVE  Result(i) = outcome[i]
  BY <1>5, Zenon
<1>6. \A w \in Workers : Held(w) <=> w \in Busy("run") \/ w \in Busy("connect")
  BY <1>2 DEF Held, Busy, Job
<1> HIDE DEF Result
<1>7. \A i \in DOMAIN outcome :
        \/ \E w \in Workers : /\ Held(w) /\ job[w].task = i
                              /\ Result(i) = [res |-> "failed", at |-> job[w].query]
        \/ /\ \E w \in Workers : Held(w) /\ job[w].task = i
           /\ Result(i) = [res |-> "lost", at |-> 0]
        \/ /\ \A w \in Workers : Held(w) => job[w].task # i
           /\ Result(i) = outcome[i]
  <2> TAKE i \in DOMAIN outcome
  <2>1. CASE InRun(i)
    <3>1. PICK w \in Busy("run") : job[w].task = i
      BY <2>1
    <3>2. w \in Workers /\ Held(w)
      BY DEF Busy, Held
    <3> QED
      BY <1>3, <3>1, <3>2
  <2>2. CASE ~InRun(i) /\ InConnect(i)
    BY <1>4, <2>2 DEF Busy, Held
  <2>3. CASE ~InRun(i) /\ ~InConnect(i)
    BY <1>5, <1>6, <2>3
  <2> QED
    BY <2>1, <2>2, <2>3
<1>8. \A i \in DOMAIN outcome : Result(i) \in Outcome
  <2>1. \A w \in Workers : job[w].query \in Nat
    BY <1>2 DEF Job
  <2>2. \A i \in DOMAIN outcome : outcome[i] \in Outcome
    BY <1>2
  <2> QED
    BY <1>7, <2>1, <2>2 DEF Outcome
<1>9. /\ outcome' \in Seq(Outcome) /\ Len(outcome') = Len(tasks)
      /\ DOMAIN outcome' = DOMAIN outcome
  <2>1. DOMAIN outcome = 1..Len(outcome) /\ Len(outcome) \in Nat
    BY <1>2
  <2> QED
    BY <1>1, <1>2, <1>8, <2>1
<1>10. outbox' \in [Workers -> Seq({"extend", "done"})]
  BY <1>1, <1>2
<1>11. job' \in [Workers -> Job]
  BY <1>1, PoolAssumption DEF Idle, Job
<1> QED
  BY <1>1, <1>7, <1>9, <1>10, <1>11
-------------------------------------------------------------------------------
LEMMA StartFacts ==
  ASSUME PoolInv, NEW list \in Seq(Line), StartRun(list)
  PROVE  /\ pc' = "refresh" /\ logging' \in BOOLEAN
         /\ UNCHANGED <<kind, outbox, log, written, ran>>
         /\ runs' \in 0..MaxRuns /\ tasks' = list /\ next' = 1 /\ jobs' = 0 /\ done' = 0
         /\ outcome' \in Seq(Outcome) /\ Len(outcome') = Len(list)
         /\ \A i \in DOMAIN outcome' : outcome'[i] = Pending
         /\ job' \in [Workers -> Job] /\ \A w \in Workers : job'[w] = Idle
<1>1. Pending \in Outcome /\ Idle \in Job
  BY PoolAssumption DEF Pending, Outcome, Idle, Job
<1>2. runs' \in 0..MaxRuns
  BY PoolAssumption DEF StartRun, PoolInv, TypeOK
<1>3. /\ outcome' = [i \in DOMAIN list |-> Pending]
      /\ DOMAIN list = 1..Len(list) /\ Len(list) \in Nat
  BY DEF StartRun
<1>4. outcome' \in Seq(Outcome) /\ Len(outcome') = Len(list)
  BY <1>1, <1>3
<1> QED
  BY <1>1, <1>2, <1>3, <1>4 DEF StartRun

LEMMA Lists ==
  ASSUME PoolInv
  PROVE  /\ StartAll => StartRun(AllTasks) /\ AllTasks \in Seq(Line)
         /\ StartFailed => StartRun(FailedTasks) /\ FailedTasks \in Seq(Line)
BY AllTasksFacts, FailedTasksFacts DEF StartAll, StartFailed, PoolInv, TypeOK

LEMMA TakeFacts ==
  ASSUME PoolInv, NEW w \in Workers, TakeTask(w)
  PROVE  /\ UNCHANGED <<parent, run, outcome, outbox, bar, ran>>
         /\ next \in DOMAIN tasks /\ next \in Nat \ {0} /\ next' = next + 1 /\ ~Held(w)
         /\ tasks[next] \in Line /\ next' \in 1..(Len(tasks) + 1)
         /\ job'[w] = [step |-> "connect", task |-> next, query |-> tasks[next].from,
                       tries |-> 0]
         /\ \A x \in Workers \ {w} : job'[x] = job[x]
         /\ job' \in [Workers -> Job]
<1>1. /\ tasks \in Seq(Line) /\ next \in 1..(Len(tasks) + 1) /\ job \in [Workers -> Job]
      /\ Len(tasks) \in Nat
  BY DEF PoolInv, TypeOK
<1> DEFINE j == [step |-> "connect", task |-> next, query |-> tasks[next].from, tries |-> 0]
<1>2. /\ next <= Len(tasks) /\ next' = next + 1 /\ job[w].step = "idle"
      /\ job' = [job EXCEPT ![w] = j]
      /\ UNCHANGED <<parent, run, outcome, outbox, bar, ran>>
  BY DEF TakeTask
<1>3. next \in DOMAIN tasks /\ tasks[next] \in Line
  BY <1>1, <1>2
<1>4. j \in Job
  BY <1>1, <1>3, PoolAssumption DEF Job, Line
<1> HIDE DEF j
<1>5. job' \in [Workers -> Job] /\ job'[w] = j /\ \A x \in Workers \ {w} : job'[x] = job[x]
  BY <1>1, <1>2, <1>4
<1> QED
  BY <1>1, <1>2, <1>3, <1>5 DEF Held, j

LEMMA Grown ==
  ASSUME PoolInv, NEW w \in Workers, Step(w)
  PROVE  /\ ran' \in [TestCases -> SUBSET (Nat \ {0})]
         /\ \A t \in TestCases : ran[t] \subseteq ran'[t]
         /\ \A t \in TestCases : \A q \in ran'[t] :
              q \in ran[t] \/ (t = HereTc(w) /\ q = job[w].query)
BY StepFacts, RunsFacts DEF PoolInv

LEMMA TaskTc ==
  ASSUME PoolInv
  PROVE  /\ \A i \in DOMAIN tasks : tasks[i] \in Line /\ tasks[i].tc \in TestCases
         /\ \A i \in DOMAIN log : log[i] \in Line /\ log[i].tc \in TestCases
         /\ DOMAIN outcome = DOMAIN tasks /\ DOMAIN tasks = 1..Len(tasks) /\ Len(tasks) \in Nat
<1>1. /\ tasks \in Seq(Line) /\ log \in Seq(Line)
      /\ outcome \in Seq(Outcome) /\ Len(outcome) = Len(tasks)
  BY DEF PoolInv, TypeOK
<1>2. \A l \in Line : l.tc \in TestCases
  BY DEF Line
<1>3. \A i \in DOMAIN tasks : tasks[i] \in Line
  BY <1>1
<1>4. \A i \in DOMAIN log : log[i] \in Line
  BY <1>1
<1>5. DOMAIN outcome = DOMAIN tasks /\ DOMAIN tasks = 1..Len(tasks) /\ Len(tasks) \in Nat
  BY <1>1
<1> QED
  BY <1>2, <1>3, <1>4, <1>5

(* Every step keeps the types.                                               *)
LEMMA NextType == PoolInv /\ [Next]_vars => TypeOK'
<1> SUFFICES ASSUME PoolInv, [Next]_vars PROVE TypeOK'
  OBVIOUS
<1>0. TypeOK
  BY DEF PoolInv
<1>1. CASE StartAll
  BY <1>1, <1>0, Lists, StartFacts DEF StartAll, TypeOK
<1>2. CASE StartFailed
  <2>1. covered' \in BOOLEAN
    BY <1>2, Zenon DEF StartFailed
  <2> QED
    BY <1>2, <1>0, <2>1, Lists, StartFacts DEF TypeOK
<1>3. CASE RefreshEnds
  BY <1>3, <1>0 DEF RefreshEnds, TypeOK, run, bar
<1>4. CASE Join
  BY <1>4, <1>0 DEF Join, TypeOK, run, bar
<1>5. CASE WriteLog
  <2>1. /\ UNCHANGED <<run, next, outcome, job, outbox, bar, logging, ran>>
        /\ pc' \in {"raised", "ended"} /\ written' \in BOOLEAN /\ covered' \in BOOLEAN
    BY <1>5, <1>0 DEF WriteLog, TypeOK
  <2>2. log' \in Seq(Line)
    <3>1. CASE UNCHANGED log
      BY <1>0, <3>1 DEF TypeOK
    <3>2. CASE \E s \in InOrder(NumbersOf("failed")) :
                 log' = log \o [j \in DOMAIN s |-> LineOf(s[j])]
      BY <3>2, WriteFacts DEF PoolInv
    <3> QED
      BY <1>5, <3>1, <3>2 DEF WriteLog
  <2> QED
    BY <1>0, <2>1, <2>2 DEF TypeOK, run, bar
<1>6. CASE Interrupt
  <2>1. /\ outcome' \in Seq(Outcome) /\ Len(outcome') = Len(tasks)
        /\ job' \in [Workers -> Job] /\ outbox' \in [Workers -> Seq({"extend", "done"})]
    BY <1>6, InterruptFacts DEF PoolInv
  <2>2. /\ UNCHANGED <<run, next, bar, logging, log, written, ran, covered>>
        /\ pc' = "join"
    BY <1>6 DEF Interrupt
  <2> QED
    BY <1>0, <2>1, <2>2 DEF TypeOK, run, bar
<1>7. ASSUME NEW w \in Workers, Receive(w) PROVE TypeOK'
  <2>1. outbox' \in [Workers -> Seq({"extend", "done"})]
    <3>1. outbox[w] \in Seq({"extend", "done"}) /\ outbox[w] # <<>>
      BY <1>7, <1>0 DEF Receive, TypeOK
    <3>2. Tail(outbox[w]) \in Seq({"extend", "done"})
      BY <3>1
    <3> QED
      BY <1>7, <1>0, <3>2 DEF Receive, TypeOK
  <2>2. jobs' \in Nat /\ done' \in Nat
    BY <1>7, <1>0 DEF Receive, TypeOK
  <2>3. UNCHANGED <<parent, run, next, outcome, job, ran>>
    BY <1>7 DEF Receive
  <2> QED
    BY <1>0, <2>1, <2>2, <2>3 DEF TypeOK, run, parent
<1>8. ASSUME NEW w \in Workers, TakeTask(w) PROVE TypeOK'
  BY <1>8, <1>0, TakeFacts DEF TypeOK, parent, run, bar
<1>9. ASSUME NEW w \in Workers, Step(w) PROVE TypeOK'
  <2>1. /\ UNCHANGED <<parent, run, next, bar>>
        /\ outcome' \in Seq(Outcome) /\ Len(outcome') = Len(tasks)
        /\ job' \in [Workers -> Job] /\ outbox' \in [Workers -> Seq({"extend", "done"})]
    BY <1>9, StepFacts DEF PoolInv
  <2>2. ran' \in [TestCases -> SUBSET (Nat \ {0})]
    BY <1>9, Grown
  <2> QED
    BY <1>0, <2>1, <2>2 DEF TypeOK, parent, run, bar
<1>10. CASE UNCHANGED vars
  BY <1>10, <1>0 DEF vars, TypeOK
<1> QED
  BY <1>1, <1>2, <1>3, <1>4, <1>5, <1>6, <1>7, <1>8, <1>9, <1>10 DEF Next, Parent

(* Every step keeps what is said of the workers.                             *)
LEMMA NextJob == PoolInv /\ [Next]_vars => JobInv'
<1> SUFFICES ASSUME PoolInv, [Next]_vars PROVE JobInv'
  OBVIOUS
<1>0. TypeOK /\ JobInv
  BY DEF PoolInv
<1>a. ASSUME \A w \in Workers : job'[w] = Idle PROVE JobInv'
  BY <1>a DEF JobInv, Held, Idle
<1>b. ASSUME UNCHANGED <<tasks, next, outcome, job, ran>> PROVE JobInv'
  BY <1>0, <1>b DEF JobInv, Held
<1>1. CASE StartAll
  BY <1>1, <1>a, Lists, StartFacts
<1>2. CASE StartFailed
  BY <1>2, <1>a, Lists, StartFacts
<1>3. CASE RefreshEnds
  BY <1>3, <1>b DEF RefreshEnds, run
<1>4. CASE Join
  BY <1>4, <1>b DEF Join, run
<1>5. CASE WriteLog
  BY <1>5, <1>b DEF WriteLog, run
<1>6. CASE Interrupt
  BY <1>6, <1>a, <1>0, InterruptFacts
<1>7. ASSUME NEW w \in Workers, Receive(w) PROVE JobInv'
  BY <1>7, <1>b DEF Receive, run
<1>8. ASSUME NEW w \in Workers, TakeTask(w) PROVE JobInv'
  <2>1. outcome[next].res = "pending" /\ Behind(tasks[next])
    BY <1>8, TakeFacts, TaskTc DEF PoolInv, OutInv, LineInv
  <2>2. /\ UNCHANGED <<tasks, outcome, ran>> /\ next \in Nat \ {0} /\ next' = next + 1
        /\ tasks[next].from >= 1
        /\ job'[w] = [step |-> "connect", task |-> next, query |-> tasks[next].from,
                      tries |-> 0]
        /\ \A x \in Workers \ {w} : job'[x] = job[x]
    BY <1>8, TakeFacts DEF run, Line
  <2>3. \A x \in Workers \ {w} : Held(x) => job[x].task \in 1..(next - 1)
    BY <1>0 DEF JobInv
  <2> QED
    BY <1>0, <2>1, <2>2, <2>3 DEF JobInv, Held, Behind
<1>9. ASSUME NEW w \in Workers, Step(w) PROVE JobInv'
  <2>1. /\ Held(w) /\ UNCHANGED <<tasks, next>>
        /\ \A i \in DOMAIN outcome \ {job[w].task} : outcome'[i] = outcome[i]
        /\ \A x \in Workers \ {w} : job'[x] = job[x]
        /\ GoesOn(w) \/ GivesBack(w)
    BY <1>9, <1>0, StepFacts DEF run
  <2>2. \A t \in TestCases : ran[t] \subseteq ran'[t]
    BY <1>9, Grown
  <2>3. /\ job[w].task \in 1..(next - 1) /\ outcome[job[w].task].res = "pending"
        /\ job[w].query \in Nat \ {0} /\ HereTc(w) \in TestCases
        /\ 1..(job[w].query - 1) \subseteq ran[HereTc(w)]
    BY <1>0, <2>1, HeldFacts DEF JobInv, HereTc
  <2>4. ASSUME NEW x \in Workers, job'[x].step # "idle"
        PROVE  /\ job'[x].task \in 1..(next - 1) /\ outcome'[job'[x].task].res = "pending"
               /\ job'[x].query >= 1
               /\ 1..(job'[x].query - 1) \subseteq ran'[tasks[job'[x].task].tc]
               /\ Held(x) /\ job'[x].task = job[x].task
    <3>1. CASE x = w
      <4>1. GoesOn(w)
        BY <2>1, <2>4, <3>1 DEF GivesBack, Idle
      <4>2. 1..job[w].query \subseteq ran'[HereTc(w)] \/ job'[w].query = job[w].query
        BY <2>2, <2>3, <4>1 DEF GoesOn
      <4>3. 1..(job'[w].query - 1) \subseteq ran'[HereTc(w)]
        BY <2>2, <2>3, <4>1, <4>2 DEF GoesOn
      <4> QED
        BY <2>1, <2>3, <3>1, <4>1, <4>3 DEF GoesOn, HereTc
    <3>2. CASE x # w
      <4>1. job'[x] = job[x] /\ Held(x)
        BY <2>1, <2>4, <3>2 DEF Held
      <4>2. job[x].task # job[w].task /\ job[x].task \in DOMAIN outcome
            /\ tasks[job[x].task].tc \in TestCases
        BY <1>0, <2>1, <3>2, <4>1, HeldFacts DEF JobInv, HereTc
      <4>3. /\ job[x].task \in 1..(next - 1) /\ outcome[job[x].task].res = "pending"
            /\ job[x].query >= 1
            /\ 1..(job[x].query - 1) \subseteq ran[tasks[job[x].task].tc]
        BY <1>0, <4>1 DEF JobInv
      <4> QED
        BY <2>1, <2>2, <4>1, <4>2, <4>3
    <3> QED
      BY <3>1, <3>2
  <2>5. \A x, y \in Workers : Held(x) /\ Held(y) /\ job[x].task = job[y].task => x = y
    BY <1>0 DEF JobInv
  <2> QED
    BY <2>1, <2>4, <2>5 DEF JobInv, Held
<1>10. CASE UNCHANGED vars
  BY <1>10, <1>b DEF vars
<1> QED
  BY <1>1, <1>2, <1>3, <1>4, <1>5, <1>6, <1>7, <1>8, <1>9, <1>10 DEF Next, Parent

(* Every step keeps what is said of the tasks.                               *)
LEMMA NextOut == PoolInv /\ [Next]_vars => OutInv'
<1> SUFFICES ASSUME PoolInv, [Next]_vars PROVE OutInv'
  OBVIOUS
<1>0. TypeOK /\ JobInv /\ OutInv
  BY DEF PoolInv
<1>a. ASSUME \A i \in DOMAIN outcome' : outcome'[i] = Pending, next' = 1, pc' = "refresh"
      PROVE  OutInv'
  BY <1>a DEF OutInv, Pending
<1>b. ASSUME UNCHANGED <<tasks, next, outcome, ran>>,
             pc \in {"refresh", "join"} => pc' \in {"refresh", "join"}
      PROVE  OutInv'
  BY <1>0, <1>b DEF OutInv
<1>1. CASE StartAll
  BY <1>1, <1>a, Lists, StartFacts
<1>2. CASE StartFailed
  BY <1>2, <1>a, Lists, StartFacts
<1>3. CASE RefreshEnds
  BY <1>3, <1>b DEF RefreshEnds, run
<1>4. CASE Join
  <2>1. /\ UNCHANGED <<tasks, next, outcome, ran>>
        /\ \A i \in DOMAIN outcome : outcome[i].res \notin {"pending", "lost"}
    BY <1>4 DEF Join, run
  <2> QED
    BY <1>0, <2>1 DEF OutInv
<1>5. CASE WriteLog
  BY <1>5, <1>b DEF WriteLog, run
<1>6. CASE Interrupt
  <2>1. /\ UNCHANGED <<tasks, next, ran>> /\ pc' = "join" /\ DOMAIN outcome' = DOMAIN outcome
    BY <1>6, <1>0, InterruptFacts DEF Interrupt, run
  <2>2. ASSUME NEW i \in DOMAIN outcome
        PROVE  /\ i >= next => outcome'[i].res = "pending"
               /\ outcome'[i].res = "failed" =>
                    outcome'[i].at >= 1 /\ 1..(outcome'[i].at - 1) \subseteq ran[tasks[i].tc]
               /\ outcome'[i].res = "ok" => 1..Queries[tasks[i].tc] \subseteq ran[tasks[i].tc]
    <3>1. CASE \E w \in Workers : /\ Held(w) /\ job[w].task = i
                                  /\ outcome'[i] = [res |-> "failed", at |-> job[w].query]
      <4>1. PICK w \in Workers : /\ Held(w) /\ job[w].task = i
                                 /\ outcome'[i] = [res |-> "failed", at |-> job[w].query]
        BY <3>1
      <4>2. i \in 1..(next - 1) /\ next \in Nat
        BY <1>0, <4>1 DEF JobInv, TypeOK
      <4> QED
        BY <1>0, <4>1, <4>2 DEF JobInv
    <3>2. CASE /\ \E w \in Workers : Held(w) /\ job[w].task = i
               /\ outcome'[i] = [res |-> "lost", at |-> 0]
      <4>1. i \in 1..(next - 1) /\ next \in Nat
        BY <1>0, <3>2 DEF JobInv, TypeOK
      <4> QED
        BY <3>2, <4>1
    <3>3. CASE outcome'[i] = outcome[i]
      BY <1>0, <3>3 DEF OutInv
    <3> QED
      BY <1>6, <1>0, <3>1, <3>2, <3>3, InterruptFacts
  <2> QED
    BY <2>1, <2>2 DEF OutInv
<1>7. ASSUME NEW w \in Workers, Receive(w) PROVE OutInv'
  BY <1>7, <1>b DEF Receive, run, parent
<1>8. ASSUME NEW w \in Workers, TakeTask(w) PROVE OutInv'
  <2>1. UNCHANGED <<tasks, outcome, ran, pc>> /\ next \in Nat \ {0} /\ next' = next + 1
    BY <1>8, TakeFacts DEF run, parent
  <2>2. \A i \in DOMAIN outcome : i \in Nat
    BY TaskTc
  <2> QED
    BY <1>0, <2>1, <2>2 DEF OutInv
<1>9. ASSUME NEW w \in Workers, Step(w) PROVE OutInv'
  <2>1. /\ Held(w) /\ UNCHANGED <<tasks, next, pc>>
        /\ \A i \in DOMAIN outcome \ {job[w].task} : outcome'[i] = outcome[i]
        /\ GoesOn(w) \/ GivesBack(w)
        /\ outcome' \in Seq(Outcome) /\ Len(outcome') = Len(tasks)
    BY <1>9, <1>0, StepFacts DEF run, parent
  <2>2. DOMAIN outcome' = DOMAIN outcome
    BY <2>1, TaskTc
  <2>3. /\ job[w].task \in 1..(next - 1) /\ outcome[job[w].task].res = "pending"
        /\ job[w].query \in Nat \ {0} /\ HereTc(w) \in TestCases
        /\ 1..(job[w].query - 1) \subseteq ran[HereTc(w)]
        /\ next \in Nat /\ job[w].task \in DOMAIN outcome
    BY <1>0, <2>1, HeldFacts DEF JobInv, HereTc, TypeOK
  <2>4. pc \in {"refresh", "join"}
    BY <1>0, <2>3 DEF OutInv
  <2>5. ASSUME NEW i \in DOMAIN outcome, i # job[w].task
        PROVE  /\ i >= next => outcome'[i].res = "pending"
               /\ outcome'[i].res = "failed" =>
                    outcome'[i].at >= 1 /\ 1..(outcome'[i].at - 1) \subseteq ran'[tasks[i].tc]
               /\ outcome'[i].res = "ok" => 1..Queries[tasks[i].tc] \subseteq ran'[tasks[i].tc]
    <3>1. tasks[i].tc \in TestCases
      BY TaskTc
    <3>2. ran[tasks[i].tc] \subseteq ran'[tasks[i].tc]
      BY <1>9, <3>1, Grown
    <3> QED
      BY <1>0, <2>1, <2>5, <3>2 DEF OutInv
  <2>6. LET i == job[w].task
        IN  /\ i >= next => outcome'[i].res = "pending"
            /\ outcome'[i].res = "failed" =>
                 outcome'[i].at >= 1 /\ 1..(outcome'[i].at - 1) \subseteq ran'[tasks[i].tc]
            /\ outcome'[i].res = "ok" => 1..Queries[tasks[i].tc] \subseteq ran'[tasks[i].tc]
    <3>1. ran[HereTc(w)] \subseteq ran'[HereTc(w)] /\ Queries[HereTc(w)] \in Nat
      BY <1>9, <2>3, Grown, PoolAssumption
    <3>2. ~(job[w].task >= next)
      BY <2>3
    <3>3. CASE GoesOn(w)
      BY <2>3, <3>2, <3>3 DEF GoesOn
    <3>4. CASE GivesBack(w)
      <4>1. job[w].query > Queries[HereTc(w)] =>
              1..Queries[HereTc(w)] \subseteq 1..(job[w].query - 1)
        BY <2>3, <3>1
      <4> QED
        BY <2>3, <3>1, <3>2, <3>4, <4>1 DEF GivesBack, HereTc
    <3> QED
      BY <2>1, <3>3, <3>4
  <2> QED
    BY <2>1, <2>2, <2>4, <2>5, <2>6 DEF OutInv
<1>10. CASE UNCHANGED vars
  BY <1>10, <1>b DEF vars
<1> QED
  BY <1>1, <1>2, <1>3, <1>4, <1>5, <1>6, <1>7, <1>8, <1>9, <1>10 DEF Next, Parent

(* Every step keeps what is said of the lines.                               *)
LEMMA NextLine == PoolInv /\ [Next]_vars => LineInv'
<1> SUFFICES ASSUME PoolInv, [Next]_vars PROVE LineInv'
  OBVIOUS
<1>0. TypeOK /\ JobInv /\ OutInv /\ LineInv
  BY DEF PoolInv
<1>a. ASSUME UNCHANGED <<tasks, log, ran>> PROVE LineInv'
  BY <1>0, <1>a DEF LineInv, Behind
<1>1. CASE StartAll
  <2>1. tasks' = AllTasks /\ UNCHANGED <<log, ran>>
    BY <1>1, Lists, StartFacts
  <2>2. \A i \in DOMAIN AllTasks : 1..(AllTasks[i].from - 1) = {}
    BY AllTasksFacts
  <2> QED
    BY <1>0, <2>1, <2>2 DEF LineInv, Behind
<1>2. CASE StartFailed
  <2>1. tasks' = FailedTasks /\ UNCHANGED <<log, ran>>
    BY <1>2, Lists, StartFacts
  <2>2. \A i \in DOMAIN FailedTasks : \E j \in DOMAIN log : FailedTasks[i] = log[j]
    BY <1>0, FailedTasksFacts DEF TypeOK
  <2> QED
    BY <1>0, <2>1, <2>2 DEF LineInv, Behind
<1>3. CASE RefreshEnds
  BY <1>3, <1>a DEF RefreshEnds, run
<1>4. CASE Join
  BY <1>4, <1>a DEF Join, run
<1>5. CASE WriteLog
  <2>1. UNCHANGED <<tasks, ran>>
    BY <1>5 DEF WriteLog, run
  <2>2. CASE UNCHANGED log
    BY <1>a, <2>1, <2>2
  <2>3. CASE \E s \in InOrder(NumbersOf("failed")) :
               log' = log \o [j \in DOMAIN s |-> LineOf(s[j])]
    <3>1. \A i \in DOMAIN log' : \/ i \in DOMAIN log /\ log'[i] = log[i]
                                 \/ \E k \in NumbersOf("failed") : log'[i] = LineOf(k)
      BY <1>0, <2>3, Written
    <3>2. \A k \in NumbersOf("failed") : Behind(LineOf(k))
      BY <1>0 DEF NumbersOf, LineOf, Behind, OutInv
    <3> QED
      BY <1>0, <2>1, <3>1, <3>2 DEF LineInv, Behind
  <2> QED
    BY <1>5, <2>2, <2>3 DEF WriteLog
<1>6. CASE Interrupt
  BY <1>6, <1>a DEF Interrupt, run
<1>7. ASSUME NEW w \in Workers, Receive(w) PROVE LineInv'
  BY <1>7, <1>a DEF Receive, run, parent
<1>8. ASSUME NEW w \in Workers, TakeTask(w) PROVE LineInv'
  BY <1>8, <1>a, TakeFacts DEF run, parent
<1>9. ASSUME NEW w \in Workers, Step(w) PROVE LineInv'
  <2>1. UNCHANGED <<tasks, log>>
    BY <1>9, <1>0, StepFacts DEF run, parent
  <2>2. \A t \in TestCases : ran[t] \subseteq ran'[t]
    BY <1>9, Grown
  <2>3. /\ \A i \in DOMAIN tasks : tasks[i].tc \in TestCases
        /\ \A i \in DOMAIN log : log[i].tc \in TestCases
    BY TaskTc
  <2>4. /\ \A i \in DOMAIN tasks : 1..(tasks[i].from - 1) \subseteq ran'[tasks[i].tc]
        /\ \A i \in DOMAIN log : 1..(log[i].from - 1) \subseteq ran'[log[i].tc]
    BY <1>0, <2>2, <2>3 DEF LineInv, Behind
  <2> QED
    BY <2>1, <2>4 DEF LineInv, Behind
<1>10. CASE UNCHANGED vars
  BY <1>10, <1>a DEF vars
<1> QED
  BY <1>1, <1>2, <1>3, <1>4, <1>5, <1>6, <1>7, <1>8, <1>9, <1>10 DEF Next, Parent

(* A worker runs a query after those that come before it.                    *)
LEMMA NextOrder == PoolInv /\ [Next]_vars => QueriesInOrder'
<1> SUFFICES ASSUME PoolInv, [Next]_vars PROVE QueriesInOrder'
  OBVIOUS
<1>0. TypeOK /\ JobInv /\ QueriesInOrder
  BY DEF PoolInv
<1>a. UNCHANGED ran => QueriesInOrder'
  BY <1>0 DEF QueriesInOrder
<1>1. CASE StartAll
  BY <1>1, <1>a, Lists, StartFacts
<1>2. CASE StartFailed
  BY <1>2, <1>a, Lists, StartFacts
<1>3. CASE RefreshEnds
  BY <1>3, <1>a DEF RefreshEnds
<1>4. CASE Join
  BY <1>4, <1>a DEF Join
<1>5. CASE WriteLog
  BY <1>5, <1>a DEF WriteLog
<1>6. CASE Interrupt
  BY <1>6, <1>a DEF Interrupt
<1>7. ASSUME NEW w \in Workers, Receive(w) PROVE QueriesInOrder'
  BY <1>7, <1>a DEF Receive
<1>8. ASSUME NEW w \in Workers, TakeTask(w) PROVE QueriesInOrder'
  BY <1>8, <1>a, TakeFacts
<1>9. ASSUME NEW w \in Workers, Step(w) PROVE QueriesInOrder'
  <2>1. Held(w)
    BY <1>9, <1>0, StepFacts
  <2>2. /\ job[w].query \in Nat \ {0} /\ HereTc(w) \in TestCases
        /\ 1..(job[w].query - 1) \subseteq ran[HereTc(w)]
    BY <1>0, <2>1, HeldFacts DEF JobInv, HereTc
  <2>3. ASSUME NEW t \in TestCases, NEW q \in ran'[t] PROVE 1..q \subseteq ran'[t]
    <3>1. ran[t] \subseteq ran'[t] /\ (q \in ran[t] \/ (t = HereTc(w) /\ q = job[w].query))
      BY <1>9, Grown
    <3>2. CASE q \in ran[t]
      BY <1>0, <3>1, <3>2 DEF QueriesInOrder
    <3>3. CASE t = HereTc(w) /\ q = job[w].query
      BY <2>2, <3>1, <3>3
    <3> QED
      BY <3>1, <3>2, <3>3
  <2> QED
    BY <2>3 DEF QueriesInOrder
<1>10. CASE UNCHANGED vars
  BY <1>10, <1>a DEF vars
<1> QED
  BY <1>1, <1>2, <1>3, <1>4, <1>5, <1>6, <1>7, <1>8, <1>9, <1>10 DEF Next, Parent

(* Every step keeps account of the queries that have not run.                *)
LEMMA NextCover == PoolInv /\ CoverInv /\ [Next]_vars => CoverInv'
<1> SUFFICES ASSUME PoolInv, CoverInv, [Next]_vars PROVE CoverInv'
  OBVIOUS
<1>0. TypeOK /\ JobInv /\ OutInv /\ CoverInv
  BY DEF PoolInv
<1>a. ASSUME UNCHANGED <<tasks, next, outcome, job, ran, log, logging, covered>>,
             pc \in {"refresh", "join", "write"} => pc' \in {"refresh", "join", "write"}
      PROVE  CoverInv'
  <2>1. \A t, q : InLog(t, q)' = InLog(t, q) /\ InTask(t, q)' = InTask(t, q)
    BY <1>a DEF InLog, InTask, Held
  <2> QED
    BY <1>0, <1>a, <2>1 DEF CoverInv
<1>b. \A i \in DOMAIN tasks : i \in DOMAIN outcome
  BY TaskTc
<1>c. \A t \in TestCases : Queries[t] \in Nat
  BY PoolAssumption
<1>1. CASE StartAll
  <2>1. /\ tasks' = AllTasks /\ next' = 1 /\ pc' = "refresh" /\ UNCHANGED <<log, ran>>
        /\ covered' = logging'
    BY <1>1, Lists, StartFacts DEF StartAll
  <2>2. ASSUME covered', NEW t \in TestCases, NEW q \in 1..Queries[t] PROVE InTask(t, q)'
    <3>1. PICK i \in DOMAIN AllTasks : AllTasks[i].tc = t /\ AllTasks[i].from = 1
      BY AllTasksFacts
    <3>2. q >= 1 /\ i >= 1
      BY <1>c, AllTasksFacts
    <3> QED
      BY <2>1, <3>1, <3>2 DEF InTask
  <2> QED
    BY <2>1, <2>2 DEF CoverInv
<1>2. CASE StartFailed
  <2>1. /\ UNCHANGED <<log, ran>> /\ pc \in {"closed", "ended", "raised"}
        /\ covered' = (covered /\ logging')
    BY <1>2, Lists, StartFacts DEF StartFailed, StartRun
  <2>2. \A t, q : InLog(t, q)' = InLog(t, q)
    BY <2>1 DEF InLog
  <2> QED
    BY <1>0, <2>1, <2>2 DEF CoverInv
<1>3. CASE RefreshEnds
  BY <1>3, <1>a DEF RefreshEnds, run
<1>4. CASE Join
  BY <1>4, <1>a DEF Join, run
<1>5. CASE WriteLog
  <2>1. /\ UNCHANGED <<tasks, next, outcome, job, ran, logging>> /\ pc = "write"
    BY <1>5 DEF WriteLog, run
  <2>2. CASE ~covered'
    BY <2>2 DEF CoverInv
  <2>3. CASE /\ ~(logging /\ NumbersOf("raised") # {}) /\ UNCHANGED covered
             /\ IF logging
                THEN \E s \in InOrder(NumbersOf("failed")) :
                       log' = log \o [j \in DOMAIN s |-> LineOf(s[j])]
                ELSE log' = log
    <3>1. /\ \A i \in DOMAIN log : i \in DOMAIN log' /\ log'[i] = log[i]
          /\ logging => \A k \in NumbersOf("failed") :
                          \E i \in DOMAIN log' : log'[i] = LineOf(k)
      <4>1. CASE logging
        BY <1>0, <2>3, <4>1, Written
      <4>2. CASE ~logging
        BY <2>3, <4>2
      <4> QED
        BY <4>1, <4>2
    <3>2. ASSUME NEW t \in TestCases, NEW q \in 1..Queries[t], logging, InTask(t, q)
          PROVE  \E i \in DOMAIN log' : log'[i].tc = t /\ log'[i].from <= q
      <4>1. PICK i \in DOMAIN tasks :
              /\ tasks[i].tc = t
              /\ \/ i >= next /\ tasks[i].from <= q
                 \/ \E w \in Workers : Held(w) /\ job[w].task = i /\ job[w].query <= q
                 \/ outcome[i].res = "failed" /\ outcome[i].at <= q
                 \/ outcome[i].res \in {"raised", "lost"}
        BY <3>2 DEF InTask
      <4>2. outcome[i].res \notin {"pending", "lost"} /\ i \in DOMAIN outcome
        BY <1>0, <1>b, <2>1 DEF OutInv
      <4>3. outcome[i].res # "raised"
        BY <2>3, <3>2, <4>2 DEF NumbersOf
      <4>4. ~(i >= next) /\ \A w \in Workers : Held(w) => job[w].task # i
        BY <1>0, <4>2 DEF OutInv, JobInv
      <4>5. outcome[i].res = "failed" /\ outcome[i].at <= q
        BY <4>1, <4>2, <4>3, <4>4
      <4>6. LineOf(i).tc = t /\ LineOf(i).from <= q
        BY <1>c, <4>1, <4>5 DEF LineOf
      <4> QED
        BY <3>1, <3>2, <4>2, <4>5, <4>6 DEF NumbersOf
    <3>3. ASSUME NEW t, NEW q, InLog(t, q)
          PROVE  \E i \in DOMAIN log' : log'[i].tc = t /\ log'[i].from <= q
      BY <3>1, <3>3 DEF InLog
    <3>4. ASSUME covered, NEW t \in TestCases, NEW q \in 1..Queries[t] \ ran[t]
          PROVE  \E i \in DOMAIN log' : log'[i].tc = t /\ log'[i].from <= q
      BY <1>0, <3>2, <3>3, <3>4 DEF CoverInv
    <3> QED
      BY <2>1, <2>3, <3>4 DEF CoverInv, InLog
  <2> QED
    BY <1>5, <2>2, <2>3 DEF WriteLog
<1>6. CASE Interrupt
  <2>1. /\ UNCHANGED <<tasks, next, ran, log, logging, covered>>
        /\ pc' = "join" /\ pc = "refresh"
    BY <1>6 DEF Interrupt, run
  <2>2. ASSUME NEW t, NEW q, InTask(t, q) PROVE InTask(t, q)'
    <3>1. PICK i \in DOMAIN tasks :
            /\ tasks[i].tc = t
            /\ \/ i >= next /\ tasks[i].from <= q
               \/ \E w \in Workers : Held(w) /\ job[w].task = i /\ job[w].query <= q
               \/ outcome[i].res = "failed" /\ outcome[i].at <= q
               \/ outcome[i].res \in {"raised", "lost"}
      BY <2>2 DEF InTask
    <3>2. \/ \E w \in Workers : /\ Held(w) /\ job[w].task = i
                                /\ outcome'[i] = [res |-> "failed", at |-> job[w].query]
          \/ outcome'[i] = [res |-> "lost", at |-> 0]
          \/ (\A w \in Workers : Held(w) => job[w].task # i) /\ outcome'[i] = outcome[i]
      BY <1>6, <1>0, <1>b, InterruptFacts
    <3>3. CASE i >= next /\ tasks[i].from <= q
      BY <2>1, <3>1, <3>3 DEF InTask
    <3>4. CASE \E w \in Workers : Held(w) /\ job[w].task = i /\ job[w].query <= q
      <4>1. PICK w \in Workers : Held(w) /\ job[w].task = i /\ job[w].query <= q
        BY <3>4
      <4>2. \/ outcome'[i] = [res |-> "failed", at |-> job[w].query]
            \/ outcome'[i] = [res |-> "lost", at |-> 0]
        BY <1>0, <3>2, <4>1 DEF JobInv
      <4>3. \/ outcome'[i].res = "failed" /\ outcome'[i].at <= q
            \/ outcome'[i].res \in {"raised", "lost"}
        BY <4>1, <4>2
      <4> QED
        BY <2>1, <3>1, <4>3 DEF InTask
    <3>5. CASE \/ outcome[i].res = "failed" /\ outcome[i].at <= q
               \/ outcome[i].res \in {"raised", "lost"}
      <4>1. \A w \in Workers : Held(w) => job[w].task # i
        BY <1>0, <3>5 DEF JobInv
      <4>2. outcome'[i] = outcome[i] \/ outcome'[i] = [res |-> "lost", at |-> 0]
        BY <3>2, <4>1
      <4>3. \/ outcome'[i].res = "failed" /\ outcome'[i].at <= q
            \/ outcome'[i].res \in {"raised", "lost"}
        BY <3>5, <4>2
      <4> QED
        BY <2>1, <3>1, <4>3 DEF InTask
    <3> QED
      BY <3>1, <3>3, <3>4, <3>5
  <2>3. \A t, q : InLog(t, q)' = InLog(t, q)
    BY <2>1 DEF InLog
  <2> QED
    BY <1>0, <2>1, <2>2, <2>3 DEF CoverInv
<1>7. ASSUME NEW w \in Workers, Receive(w) PROVE CoverInv'
  BY <1>7, <1>a DEF Receive, run, parent
<1>8. ASSUME NEW w \in Workers, TakeTask(w) PROVE CoverInv'
  <2>1. /\ UNCHANGED <<tasks, outcome, ran, log, logging, covered, pc>>
        /\ next \in Nat \ {0} /\ next' = next + 1 /\ ~Held(w)
        /\ job'[w] = [step |-> "connect", task |-> next, query |-> tasks[next].from,
                      tries |-> 0]
        /\ \A x \in Workers \ {w} : job'[x] = job[x]
    BY <1>8, TakeFacts DEF run, parent
  <2>2. ASSUME NEW t, NEW q, InTask(t, q) PROVE InTask(t, q)'
    <3>1. PICK i \in DOMAIN tasks :
            /\ tasks[i].tc = t
            /\ \/ i >= next /\ tasks[i].from <= q
               \/ \E x \in Workers : Held(x) /\ job[x].task = i /\ job[x].query <= q
               \/ outcome[i].res = "failed" /\ outcome[i].at <= q
               \/ outcome[i].res \in {"raised", "lost"}
      BY <2>2 DEF InTask
    <3>2. CASE i = next /\ tasks[i].from <= q
      BY <2>1, <3>1, <3>2 DEF InTask, Held
    <3>3. CASE i >= next /\ i # next /\ tasks[i].from <= q
      <4>1. i >= next'
        BY <2>1, <3>3, TaskTc
      <4> QED
        BY <2>1, <3>1, <3>3, <4>1 DEF InTask
    <3>4. CASE \E x \in Workers : Held(x) /\ job[x].task = i /\ job[x].query <= q
      <4>1. PICK x \in Workers : Held(x) /\ job[x].task = i /\ job[x].query <= q
        BY <3>4
      <4>2. job'[x] = job[x]
        BY <2>1, <4>1
      <4> QED
        BY <2>1, <3>1, <4>1, <4>2 DEF InTask, Held
    <3>5. CASE \/ outcome[i].res = "failed" /\ outcome[i].at <= q
               \/ outcome[i].res \in {"raised", "lost"}
      BY <2>1, <3>1, <3>5 DEF InTask
    <3> QED
      BY <3>1, <3>2, <3>3, <3>4, <3>5
  <2>3. \A t, q : InLog(t, q)' = InLog(t, q)
    BY <2>1 DEF InLog
  <2> QED
    BY <1>0, <2>1, <2>2, <2>3 DEF CoverInv
<1>9. ASSUME NEW w \in Workers, Step(w) PROVE CoverInv'
  <2>1. /\ Held(w) /\ UNCHANGED <<tasks, next, pc, log, logging, covered>>
        /\ \A i \in DOMAIN outcome \ {job[w].task} : outcome'[i] = outcome[i]
        /\ \A x \in Workers \ {w} : job'[x] = job[x]
        /\ GoesOn(w) \/ GivesBack(w)
    BY <1>9, <1>0, StepFacts DEF run, parent
  <2>2. /\ job[w].query \in Nat \ {0} /\ HereTc(w) \in TestCases
        /\ outcome[job[w].task].res = "pending"
    BY <1>0, <2>1, HeldFacts DEF JobInv
  <2>3. ASSUME NEW t \in TestCases, NEW q \in 1..Queries[t] \ ran'[t], InTask(t, q)
        PROVE  InTask(t, q)'
    <3>0. q \in Nat
      BY <1>c
    <3>1. PICK i \in DOMAIN tasks :
            /\ tasks[i].tc = t
            /\ \/ i >= next /\ tasks[i].from <= q
               \/ \E x \in Workers : Held(x) /\ job[x].task = i /\ job[x].query <= q
               \/ outcome[i].res = "failed" /\ outcome[i].at <= q
               \/ outcome[i].res \in {"raised", "lost"}
      BY <2>3 DEF InTask
    <3>2. CASE i >= next /\ tasks[i].from <= q
      BY <2>1, <3>1, <3>2 DEF InTask
    <3>3. CASE \E x \in Workers \ {w} : Held(x) /\ job[x].task = i /\ job[x].query <= q
      <4>1. PICK x \in Workers \ {w} : Held(x) /\ job[x].task = i /\ job[x].query <= q
        BY <3>3
      <4>2. job'[x] = job[x]
        BY <2>1
      <4> QED
        BY <2>1, <3>1, <4>1, <4>2 DEF InTask, Held
    <3>4. CASE job[w].task = i /\ job[w].query <= q
      <4>1. HereTc(w) = t
        BY <3>1, <3>4 DEF HereTc
      <4>2. CASE GoesOn(w)
        <5>1. job'[w].query <= q
          BY <2>2, <2>3, <3>0, <3>4, <4>1, <4>2 DEF GoesOn
        <5> QED
          BY <2>1, <3>1, <3>4, <4>2, <5>1 DEF GoesOn, InTask, Held
      <4>3. CASE GivesBack(w)
        <5>1. ~(job[w].query > Queries[t])
          BY <1>c, <2>2, <2>3, <3>4
        <5>2. \/ outcome'[i].res = "failed" /\ outcome'[i].at <= q
              \/ outcome'[i].res \in {"raised", "lost"}
          BY <3>4, <4>1, <4>3, <5>1 DEF GivesBack
        <5> QED
          BY <2>1, <3>1, <5>2 DEF InTask
      <4> QED
        BY <2>1, <4>2, <4>3
    <3>5. CASE \/ outcome[i].res = "failed" /\ outcome[i].at <= q
               \/ outcome[i].res \in {"raised", "lost"}
      <4>1. outcome'[i] = outcome[i]
        BY <1>b, <2>1, <2>2, <3>5
      <4> QED
        BY <2>1, <3>1, <3>5, <4>1 DEF InTask
    <3> QED
      BY <3>1, <3>2, <3>3, <3>4, <3>5
  <2>4. \A t, q : InLog(t, q)' = InLog(t, q)
    BY <2>1 DEF InLog
  <2>5. \A t \in TestCases : ran[t] \subseteq ran'[t]
    BY <1>9, Grown
  <2> QED
    BY <1>0, <2>1, <2>3, <2>4, <2>5 DEF CoverInv
<1>10. CASE UNCHANGED vars
  BY <1>10, <1>a DEF vars
<1> QED
  BY <1>1, <1>2, <1>3, <1>4, <1>5, <1>6, <1>7, <1>8, <1>9, <1>10 DEF Next, Parent
-------------------------------------------------------------------------------
LEMMA InitPool == Init => PoolInv /\ CoverInv
<1> SUFFICES ASSUME Init PROVE PoolInv /\ CoverInv
  OBVIOUS
<1>1. Idle \in Job /\ <<>> \in Seq(Outcome) /\ <<>> \in Seq(Line)
  BY PoolAssumption DEF Idle, Job
<1>2. TypeOK
  <2>1. /\ kind \in Kinds /\ pc = "closed" /\ jobs \in Nat /\ done \in Nat
        /\ {logging, written, covered} \subseteq BOOLEAN
    BY DEF Init
  <2>2. tasks \in Seq(Line) /\ log \in Seq(Line) /\ outcome \in Seq(Outcome)
    BY <1>1 DEF Init
  <2>3. Len(outcome) = Len(tasks) /\ next \in 1..(Len(tasks) + 1)
    BY DEF Init
  <2>4. job \in [Workers -> Job]
    BY <1>1 DEF Init
  <2>5. outbox \in [Workers -> Seq({"extend", "done"})]
    BY DEF Init
  <2>6. ran \in [TestCases -> SUBSET (Nat \ {0})]
    BY DEF Init
  <2>7. runs \in 0..MaxRuns
    BY PoolAssumption DEF Init
  <2> QED
    BY <2>1, <2>2, <2>3, <2>4, <2>5, <2>6, <2>7 DEF TypeOK
<1> QED
  BY <1>2 DEF Init, PoolInv, JobInv, Held, Idle, OutInv, LineInv, QueriesInOrder, CoverInv

LEMMA Inductive == Spec => [](PoolInv /\ CoverInv)
<1>1. PoolInv /\ CoverInv /\ [Next]_vars => (PoolInv /\ CoverInv)'
  BY NextType, NextJob, NextOut, NextLine, NextOrder, NextCover DEF PoolInv
<1> QED
  BY <1>1, InitPool, PTL DEF Spec

(* The values of the variables keep their types.                             *)
THEOREM PoolTyped == Spec => []TypeOK
<1>1. PoolInv => TypeOK
  BY DEF PoolInv
<1> QED
  BY <1>1, Inductive, PTL

(* No query of a test case runs before those it builds on, whatever is       *)
(* retried, interrupted or resumed by however many workers and runs.         *)
THEOREM OrderIsKept == Spec => []QueriesInOrder
<1>1. PoolInv => QueriesInOrder
  BY DEF PoolInv
<1> QED
  BY <1>1, Inductive, PTL

(* A task that returns nothing has nothing left to run: the queries before   *)
(* the line that it was resumed from had run when the line was written.      *)
THEOREM NoneIsSkipped == Spec => []NothingSkipped
<1>1. PoolInv => NothingSkipped
  BY DEF PoolInv, OutInv, NothingSkipped
<1> QED
  BY <1>1, Inductive, PTL

(* After a run over all test cases with a log, the log accounts for every    *)
(* query that has not run: nothing is lost between the worker that fails and *)
(* the line, or when a later run takes the lines for its tasks.              *)
THEOREM LogIsComplete == Spec => []LogCoversFailures
<1>1. CoverInv => LogCoversFailures
  BY DEF CoverInv, LogCoversFailures, InLog
<1> QED
  BY <1>1, Inductive, PTL
===============================================================================
