--------------------------- MODULE WorkerLoopProofs ---------------------------
(***************************************************************************)
(* Safety of Delivery and of WorkerLoop, for any number of workers, tasks,  *)
(* sources and comments, any limit and any number of faults.                *)
(*                                                                          *)
(* A step of WorkerLoop is, for the state of Delivery, a step of a          *)
(* publisher, its death, or one that touches only tasks and the count of    *)
(* faults.  The invariants of Delivery are proved once for these kinds.     *)
(***************************************************************************)
EXTENDS WorkerLoop, FiniteSetTheorems, WellFoundedInduction, TLAPS

\* Steps of publish_result after its look at the delivery row.
Publishing == {"post", "posted", "failed"}

\* A post that was answered is on the issue.
PostIsThere ==
    \A p \in Publishers : pc[p] = "posted" => comments[Current(p)] > 0

\* The publishers that are at this step with task t.
At(t, there) == {p \in Publishers : pc[p] = there /\ Current(p) = t}

Workers == Cardinality(Publishers)

\* How many comments c there can be of a result with f faults so far, when a
\* publishers are about to post it, b have posted it and x are about to record
\* a failure.  Before a SUCCESS is recorded every worker has one post, and one
\* more for each fault; a recorded SUCCESS is used up only by a failure that is
\* recorded over it, and that fault has been counted when the call failed.
Within(success, c, f, a, b, x) ==
    IF success THEN c <= Workers * (1 + f - x) - a
               ELSE c <= Workers * (f - x) + b + x

Posts(t) == Cardinality(At(t, "post"))
Answers(t) == Cardinality(At(t, "posted"))
Failures(t) == Cardinality(At(t, "failed"))

Budget ==
    \A t \in Tasks :
        Within(outcome[t] = "SUCCESS", comments[t], faults,
               Posts(t), Answers(t), Failures(t))

Delivering == TypeOK /\ SuccessWasPosted /\ PostIsThere /\ Budget

\* What every step is, seen from Delivery.
Elsewhere ==
    /\ UNCHANGED <<outcome, comments, pc, queue>>
    /\ task' \in [Tasks -> {"open", "terminal", "bare", "cancelled"}]
    /\ UNCHANGED faults \/ Fault

DeliveryStep ==
    (\E p \in Publishers : Publish(p) \/ Crash(p)) \/ Elsewhere

----------------------------------------------------------------------------
(* Lemmas about what the actions are built from.                            *)

\* The oldest of a set of tasks is one of them.
LEMMA OldestIsOne ==
    ASSUME NEW S, S \subseteq Nat, S # {}
    PROVE  Min(S) \in S
<1>1. PICK m \in S : \A y \in S : ~ (<<y, m>> \in OpToRel(<, Nat))
  BY NatLessThanWellFounded, WFMin
<1>2. \A a, b \in Nat : a < b => <<a, b>> \in OpToRel(<, Nat)
  BY Zenon DEF OpToRel
<1>3. \A y \in S : y \in Nat /\ m \in Nat /\ ~ (y < m)
  BY <1>1, <1>2
<1>4. \A y \in S : m <= y
  BY <1>3
<1> QED
  BY <1>4 DEF Min

\* A publisher at a task of its queue is at a task.
LEMMA CurrentIsTask ==
    ASSUME TypeOK, NEW p \in Publishers, queue[p] # {}
    PROVE  Current(p) \in queue[p] /\ Current(p) \in Tasks
<1>1. queue[p] \subseteq Tasks /\ queue[p] \subseteq Nat
  BY TasksAssumption DEF TypeOK, Tasks
<1> QED
  BY <1>1, OldestIsOne DEF Current

LEMMA PendingAreTasks == Pending \subseteq Tasks
BY DEF Pending, Candidates, FirstOf

\* The publishers at the three steps of one task are different ones.
LEMMA AtCounts ==
    ASSUME NEW t
    PROVE  /\ Posts(t) \in Nat /\ Answers(t) \in Nat /\ Failures(t) \in Nat
           /\ Workers \in Nat
           /\ Posts(t) + Answers(t) + Failures(t) <= Workers
<1>1. ASSUME NEW there PROVE IsFiniteSet(At(t, there))
  <2>1. At(t, there) \in SUBSET Publishers
    BY DEF At
  <2> QED
    BY <2>1, PublishersAssumption, FS_Subset
<1> DEFINE A == At(t, "post")
           B == At(t, "posted")
           F == At(t, "failed")
<1>2. A \cap B = {} /\ (A \cup B) \cap F = {}
      /\ (A \cup B) \cup F \in SUBSET Publishers
  BY DEF At
<1> HIDE DEF A, B, F
<1>3. IsFiniteSet(A) /\ IsFiniteSet(B) /\ IsFiniteSet(F)
  BY <1>1 DEF A, B, F
<1>4. /\ Cardinality(A) \in Nat /\ Cardinality(B) \in Nat /\ Cardinality(F) \in Nat
      /\ Cardinality(Publishers) \in Nat
  BY <1>3, PublishersAssumption, FS_CardinalityType
<1>5. IsFiniteSet(A \cup B)
      /\ Cardinality(A \cup B) = Cardinality(A) + Cardinality(B)
  <2>1. Cardinality(A \cap B) = 0
    BY <1>2, FS_EmptySet
  <2>2. IsFiniteSet(A \cup B)
        /\ Cardinality(A \cup B)
              = Cardinality(A) + Cardinality(B) - Cardinality(A \cap B)
    BY <1>3, FS_Union
  <2> QED
    BY <1>4, <2>1, <2>2
<1>6. Cardinality((A \cup B) \cup F) = Cardinality(A \cup B) + Cardinality(F)
  <2>1. Cardinality((A \cup B) \cap F) = 0
    BY <1>2, FS_EmptySet
  <2>2. Cardinality((A \cup B) \cup F)
            = Cardinality(A \cup B) + Cardinality(F) - Cardinality((A \cup B) \cap F)
    BY <1>3, <1>5, FS_Union
  <2> QED
    BY <1>4, <1>5, <2>1, <2>2
<1>7. Cardinality((A \cup B) \cup F) <= Cardinality(Publishers)
  BY <1>2, PublishersAssumption, FS_Subset
<1> QED
  BY <1>4, <1>5, <1>6, <1>7 DEF Posts, Answers, Failures, Workers, A, B, F

\* There is a worker where one is at work.
LEMMA SomeWorker ==
    ASSUME NEW p \in Publishers
    PROVE  Workers >= 1
<1>1. Cardinality(Publishers) # 0
  BY PublishersAssumption, FS_EmptySet
<1> QED
  BY <1>1, AtCounts DEF Workers

\* Publisher q alone moves, and on to another task only where it is not
\* publishing.
Moves(q) ==
    /\ \A p \in Publishers \ {q} : pc'[p] = pc[p] /\ queue'[p] = queue[p]
    /\ pc'[q] \in Publishing => queue'[q] = queue[q]

\* Whether q is at a step with task t: 1 or 0.
Here(q, t, there) == IF pc[q] = there /\ Current(q) = t THEN 1 ELSE 0
HereNext(q, t, there) == IF pc'[q] = there /\ Current(q) = t THEN 1 ELSE 0

LEMMA AtChanges ==
    ASSUME NEW q \in Publishers, Moves(q), NEW t, NEW there \in Publishing
    PROVE  Cardinality(At(t, there))' =
             Cardinality(At(t, there)) - Here(q, t, there) + HereNext(q, t, there)
<1> DEFINE Rest == At(t, there) \ {q}
<1>1. At(t, there) = Rest \cup (IF Here(q, t, there) = 1 THEN {q} ELSE {})
  BY DEF At, Here
<1>2. At(t, there)' = Rest \cup (IF HereNext(q, t, there) = 1 THEN {q} ELSE {})
  <2>1. \A p \in Publishers \ {q} :
            p \in At(t, there)' <=> p \in At(t, there)
    BY DEF At, Moves, Current
  <2>2. q \in At(t, there)' <=> HereNext(q, t, there) = 1
    BY DEF At, Moves, Current, HereNext
  <2>3. At(t, there)' \subseteq Publishers /\ At(t, there) \subseteq Publishers
    BY DEF At
  <2> QED
    BY <2>1, <2>2, <2>3
<1>3. IsFiniteSet(Rest) /\ q \notin Rest
  <2>1. Rest \in SUBSET Publishers
    BY DEF At
  <2> QED
    BY <2>1, PublishersAssumption, FS_Subset
<1> HIDE DEF Rest
<1>4. Cardinality(Rest) \in Nat /\ Cardinality(Rest \cup {q}) = Cardinality(Rest) + 1
  BY <1>3, FS_AddElement, FS_CardinalityType
<1>5. Here(q, t, there) \in {0, 1} /\ HereNext(q, t, there) \in {0, 1}
  BY DEF Here, HereNext
<1>6. Cardinality(At(t, there)) = Cardinality(Rest) + Here(q, t, there)
  <2>1. CASE Here(q, t, there) = 1
    BY <1>1, <1>4, <2>1
  <2>2. CASE Here(q, t, there) = 0
    <3>1. At(t, there) = Rest
      BY <1>1, <2>2
    <3> QED
      BY <1>4, <2>2, <3>1
  <2> QED
    BY <1>5, <2>1, <2>2
<1>7. Cardinality(At(t, there)') = Cardinality(Rest) + HereNext(q, t, there)
  <2>1. CASE HereNext(q, t, there) = 1
    BY <1>2, <1>4, <2>1
  <2>2. CASE HereNext(q, t, there) = 0
    <3>1. At(t, there)' = Rest
      BY <1>2, <2>2
    <3> QED
      BY <1>4, <2>2, <3>1
  <2> QED
    BY <1>5, <2>1, <2>2
<1> QED
  BY <1>4, <1>5, <1>6, <1>7

----------------------------------------------------------------------------
(* The budget of comments, action by action.                                *)

\* A multiple of the number of workers is a whole number, and grows with what
\* it is a multiple of.
LEMMA Scaled == \A w \in Nat : \A m, n \in Int :
    /\ m <= n => w * m <= w * n
    /\ w * m \in Int
BY SMT

\* A fault adds room for every worker, and no step but a record of SUCCESS or
\* of a failure changes what the outcome says.
LEMMA BudgetOfFaults ==
    ASSUME TypeOK, Budget, NEW f \in Nat, f >= faults, NEW t \in Tasks
    PROVE  Within(outcome[t] = "SUCCESS", comments[t], f,
                  Posts(t), Answers(t), Failures(t))
<1>1. /\ comments[t] \in Nat /\ faults \in Nat /\ Workers \in Nat
      /\ Posts(t) \in Nat /\ Answers(t) \in Nat /\ Failures(t) \in Nat
  BY AtCounts, BoundsAssumption DEF TypeOK
<1>2. /\ Workers * (faults - Failures(t)) <= Workers * (f - Failures(t))
      /\ Workers * (f - Failures(t)) \in Int
      /\ Workers * (faults - Failures(t)) \in Int
  <2>1. /\ faults - Failures(t) \in Int /\ f - Failures(t) \in Int
        /\ faults - Failures(t) <= f - Failures(t)
    BY <1>1
  <2> QED
    BY <1>1, <2>1, Scaled
<1>3. /\ Workers * (1 + faults - Failures(t)) <= Workers * (1 + f - Failures(t))
      /\ Workers * (1 + f - Failures(t)) \in Int
      /\ Workers * (1 + faults - Failures(t)) \in Int
  <2>1. /\ 1 + faults - Failures(t) \in Int /\ 1 + f - Failures(t) \in Int
        /\ 1 + faults - Failures(t) <= 1 + f - Failures(t)
    BY <1>1
  <2> QED
    BY <1>1, <2>1, Scaled
<1>4. Within(outcome[t] = "SUCCESS", comments[t], faults,
             Posts(t), Answers(t), Failures(t))
  BY DEF Budget
<1>5. CASE outcome[t] = "SUCCESS"
  BY <1>1, <1>3, <1>4, <1>5 DEF Within
<1>6. CASE outcome[t] # "SUCCESS"
  BY <1>1, <1>2, <1>4, <1>6 DEF Within
<1> QED
  BY <1>5, <1>6

\* The counts of the three steps of task t after a move of q.
LEMMA CountsChange ==
    ASSUME NEW q \in Publishers, Moves(q), NEW t
    PROVE  /\ Posts(t)' = Posts(t) - Here(q, t, "post") + HereNext(q, t, "post")
           /\ Answers(t)' = Answers(t) - Here(q, t, "posted") + HereNext(q, t, "posted")
           /\ Failures(t)' = Failures(t) - Here(q, t, "failed") + HereNext(q, t, "failed")
BY AtChanges DEF Posts, Answers, Failures, Publishing

LEMMA BeginBudget ==
    ASSUME TypeOK, Budget, NEW q \in Publishers, Moves(q),
           UNCHANGED <<outcome, comments>>, faults' = faults,
           pc[q] \notin Publishing,
           \/ pc'[q] \notin Publishing
           \/ pc'[q] = "post" /\ outcome[Current(q)] # "SUCCESS"
    PROVE  Budget'
<1> SUFFICES ASSUME NEW t \in Tasks
             PROVE  Within(outcome[t] = "SUCCESS", comments[t], faults,
                           Posts(t), Answers(t), Failures(t))'
  BY DEF Budget
<1>1. /\ Answers(t)' = Answers(t) /\ Failures(t)' = Failures(t)
      /\ outcome[t] = "SUCCESS" => Posts(t)' = Posts(t)
  BY CountsChange, AtCounts DEF Here, HereNext, Publishing
<1> QED
  BY <1>1 DEF Budget, Within

LEMMA PostBudget ==
    ASSUME TypeOK, Budget, NEW q \in Publishers, Post(q), Current(q) \in Tasks
    PROVE  Budget'
<1> SUFFICES ASSUME NEW t \in Tasks
             PROVE  Within(outcome[t] = "SUCCESS", comments[t], faults,
                           Posts(t), Answers(t), Failures(t))'
  BY DEF Budget
<1>1. Moves(q) /\ pc[q] = "post" /\ pc'[q] = "posted"
  BY DEF Post, Goto, Moves, TypeOK
<1>2. /\ comments[t] \in Nat /\ faults \in Nat /\ Workers \in Nat
      /\ Posts(t) \in Nat /\ Answers(t) \in Nat /\ Failures(t) \in Nat
  BY AtCounts, BoundsAssumption DEF TypeOK
<1>3. faults' = faults /\ outcome' = outcome
  BY DEF Post
<1>4. CASE t = Current(q)
  <2>1. /\ Posts(t)' = Posts(t) - 1 /\ Answers(t)' = Answers(t) + 1
        /\ Failures(t)' = Failures(t)
    BY <1>1, <1>2, <1>4, CountsChange DEF Here, HereNext
  <2>2. comments'[t] = comments[t] + 1
    BY <1>4 DEF Post, TypeOK
  <2> QED
    BY <1>2, <1>3, <2>1, <2>2 DEF Budget, Within
<1>5. CASE t # Current(q)
  <2>1. /\ Posts(t)' = Posts(t) /\ Answers(t)' = Answers(t)
        /\ Failures(t)' = Failures(t)
    BY <1>1, <1>2, <1>5, CountsChange DEF Here, HereNext
  <2>2. comments'[t] = comments[t]
    BY <1>5 DEF Post, TypeOK
  <2> QED
    BY <1>3, <2>1, <2>2 DEF Budget, Within
<1> QED
  BY <1>4, <1>5

LEMMA PostFailsBudget ==
    ASSUME TypeOK, Budget, NEW q \in Publishers, PostFails(q), Current(q) \in Tasks
    PROVE  Budget'
<1> SUFFICES ASSUME NEW t \in Tasks
             PROVE  Within(outcome[t] = "SUCCESS", comments[t], faults,
                           Posts(t), Answers(t), Failures(t))'
  BY DEF Budget
<1>1. Moves(q) /\ pc[q] = "post" /\ pc'[q] = "failed"
  BY DEF PostFails, Goto, Moves, TypeOK
<1>2. /\ comments[t] \in Nat /\ faults \in Nat /\ Workers \in Nat
      /\ Posts(t) \in Nat /\ Answers(t) \in Nat /\ Failures(t) \in Nat
  BY AtCounts, BoundsAssumption DEF TypeOK
<1>3. faults' = faults + 1 /\ outcome' = outcome
  BY DEF PostFails, Fault
<1>4. CASE t = Current(q)
  <2>1. /\ Posts(t)' = Posts(t) - 1 /\ Answers(t)' = Answers(t)
        /\ Failures(t)' = Failures(t) + 1
    BY <1>1, <1>2, <1>4, CountsChange DEF Here, HereNext
  <2>2. comments'[t] \in Nat /\ comments'[t] <= comments[t] + 1
    BY <1>4 DEF PostFails, TypeOK
  <2>3. /\ faults' - Failures(t)' = faults - Failures(t)
        /\ 1 + faults' - Failures(t)' = 1 + faults - Failures(t)
    BY <1>2, <1>3, <2>1
  <2> QED
    BY <1>2, <1>3, <2>1, <2>2, <2>3 DEF Budget, Within
<1>5. CASE t # Current(q)
  <2>1. /\ Posts(t)' = Posts(t) /\ Answers(t)' = Answers(t)
        /\ Failures(t)' = Failures(t)
    BY <1>1, <1>2, <1>5, CountsChange DEF Here, HereNext
  <2>2. comments'[t] = comments[t]
    BY <1>5 DEF PostFails, TypeOK
  <2>3. Within(outcome[t] = "SUCCESS", comments[t], faults + 1,
               Posts(t), Answers(t), Failures(t))
    BY <1>2, BudgetOfFaults
  <2> QED
    BY <1>3, <2>1, <2>2, <2>3 DEF Within
<1> QED
  BY <1>4, <1>5

LEMMA RecordBudget ==
    ASSUME TypeOK, Budget, NEW q \in Publishers, Current(q) \in Tasks,
           RecordSuccess(q) \/ RecordFailed(q)
    PROVE  Budget'
<1> SUFFICES ASSUME NEW t \in Tasks
             PROVE  Within(outcome[t] = "SUCCESS", comments[t], faults,
                           Posts(t), Answers(t), Failures(t))'
  BY DEF Budget
<1>1. Moves(q) /\ pc'[q] = "next" /\ comments' = comments /\ faults' = faults
  BY DEF RecordSuccess, RecordFailed, Leave, Moves, TypeOK, Publishing
<1>2. /\ comments[t] \in Nat /\ faults \in Nat /\ Workers \in Nat
      /\ Posts(t) \in Nat /\ Answers(t) \in Nat /\ Failures(t) \in Nat
      /\ Posts(t) + Answers(t) + Failures(t) <= Workers /\ Workers >= 1
  BY AtCounts, SomeWorker, BoundsAssumption DEF TypeOK
<1>3. CASE t # Current(q)
  <2>1. /\ Posts(t)' = Posts(t) /\ Answers(t)' = Answers(t)
        /\ Failures(t)' = Failures(t)
    BY <1>1, <1>2, <1>3, CountsChange DEF Here, HereNext
  <2>2. outcome'[t] = outcome[t]
    BY <1>3 DEF RecordSuccess, RecordFailed, TypeOK
  <2> QED
    BY <1>1, <2>1, <2>2 DEF Budget, Within
<1>4. CASE t = Current(q) /\ RecordSuccess(q)
  <2>1. /\ Posts(t)' = Posts(t) /\ Answers(t)' = Answers(t) - 1
        /\ Failures(t)' = Failures(t)
    BY <1>1, <1>2, <1>4, CountsChange DEF Here, HereNext, RecordSuccess
  <2>2. outcome'[t] = "SUCCESS"
    BY <1>4 DEF RecordSuccess, TypeOK
  <2>3. Workers * (1 + faults - Failures(t))
            = Workers * (faults - Failures(t)) + Workers
    BY <1>2
  <2>4. Workers * (faults - Failures(t)) \in Int
    BY <1>2
  <2> HIDE <1>1
  <2>5. comments[t] <= Workers * (1 + faults - Failures(t)) - Posts(t)
    BY <1>2, <2>3, <2>4 DEF Budget, Within
  <2> QED
    BY <1>1, <2>1, <2>2, <2>5 DEF Within
<1>5. CASE t = Current(q) /\ RecordFailed(q)
  <2>1. /\ Posts(t)' = Posts(t) /\ Answers(t)' = Answers(t)
        /\ Failures(t)' = Failures(t) - 1 /\ Failures(t)' >= 0
    <3>1. Failures(t)' \in Nat
      <4>1. At(t, "failed")' \in SUBSET Publishers
        BY DEF At
      <4> QED
        BY <4>1, PublishersAssumption, FS_Subset, FS_CardinalityType DEF Failures
    <3> QED
      BY <1>1, <1>2, <1>5, <3>1, CountsChange DEF Here, HereNext, RecordFailed
  <2>2. outcome'[t] = "FAILED"
    BY <1>5 DEF RecordFailed, TypeOK
  <2>3. /\ Workers * (1 + faults - Failures(t))
             = Workers * (faults - Failures(t)) + Workers
        /\ faults - (Failures(t) - 1) = 1 + faults - Failures(t)
    BY <1>2
  <2>4. Workers * (faults - Failures(t)) \in Int
    BY <1>2
  <2>5. comments[t] <= Workers * (faults - (Failures(t) - 1))
                         + Answers(t) + (Failures(t) - 1)
    BY <1>2, <2>1, <2>3, <2>4 DEF Budget, Within
  <2> QED
    BY <1>1, <2>1, <2>2, <2>5 DEF Within
<1> QED
  BY <1>3, <1>4, <1>5

LEMMA CrashBudget ==
    ASSUME TypeOK, Budget, NEW q \in Publishers, Crash(q)
    PROVE  Budget'
<1> SUFFICES ASSUME NEW t \in Tasks
             PROVE  Within(outcome[t] = "SUCCESS", comments[t], faults,
                           Posts(t), Answers(t), Failures(t))'
  BY DEF Budget
<1>1. /\ Moves(q) /\ pc'[q] = "idle" /\ comments' = comments
      /\ outcome' = outcome /\ faults' = faults + 1
  BY DEF Crash, Fault, Moves, TypeOK, Publishing
<1>2. /\ comments[t] \in Nat /\ faults \in Nat /\ Workers \in Nat
      /\ Posts(t) \in Nat /\ Answers(t) \in Nat /\ Failures(t) \in Nat
      /\ Workers >= 1
  BY AtCounts, SomeWorker, BoundsAssumption DEF TypeOK
<1>3. \/ Posts(t)' = Posts(t) - 1 /\ Answers(t)' = Answers(t)
            /\ Failures(t)' = Failures(t)
      \/ Posts(t)' = Posts(t) /\ Answers(t)' = Answers(t) - 1
            /\ Failures(t)' = Failures(t)
      \/ Posts(t)' = Posts(t) /\ Answers(t)' = Answers(t)
            /\ Failures(t)' = Failures(t) - 1
      \/ Posts(t)' = Posts(t) /\ Answers(t)' = Answers(t)
            /\ Failures(t)' = Failures(t)
  BY <1>1, <1>2, CountsChange DEF Here, HereNext
<1> DEFINE R == Workers * (faults - Failures(t))
<1>4. /\ Workers * (1 + faults - Failures(t)) = R + Workers
      /\ Workers * (2 + faults - Failures(t)) = R + 2 * Workers
      /\ Workers * (3 + faults - Failures(t)) = R + 3 * Workers
      /\ R \in Int
  BY <1>2
<1> HIDE DEF R
<1>5. IF outcome[t] = "SUCCESS" THEN comments[t] <= R + Workers - Posts(t)
      ELSE comments[t] <= R + Answers(t) + Failures(t)
  <2>1. Within(outcome[t] = "SUCCESS", comments[t], faults,
               Posts(t), Answers(t), Failures(t))
    BY DEF Budget
  <2>2. CASE outcome[t] = "SUCCESS"
    <3>1. comments[t] <= Workers * (1 + faults - Failures(t)) - Posts(t)
      BY <2>1, <2>2 DEF Within
    <3> QED
      BY <1>2, <1>4, <2>2, <3>1
  <2>3. CASE outcome[t] # "SUCCESS"
    BY <2>1, <2>3 DEF Within, R
  <2> QED
    BY <2>2, <2>3
<1>6. CASE Failures(t)' = Failures(t)
  <2>1. /\ faults' - Failures(t)' = 1 + faults - Failures(t)
        /\ 1 + faults' - Failures(t)' = 2 + faults - Failures(t)
    BY <1>1, <1>2, <1>6
  <2>2. Posts(t)' <= Posts(t) /\ Answers(t)' >= Answers(t) - 1
        /\ Posts(t)' \in Int /\ Answers(t)' \in Int
    BY <1>2, <1>3
  <2> QED
    BY <1>1, <1>2, <1>4, <1>5, <1>6, <2>1, <2>2 DEF Within
<1>7. CASE Failures(t)' = Failures(t) - 1
  <2>1. /\ faults' - Failures(t)' = 2 + faults - Failures(t)
        /\ 1 + faults' - Failures(t)' = 3 + faults - Failures(t)
    BY <1>1, <1>2, <1>7
  <2>2. Posts(t)' = Posts(t) /\ Answers(t)' = Answers(t)
    BY <1>2, <1>3, <1>7
  <2> QED
    BY <1>1, <1>2, <1>4, <1>5, <1>7, <2>1, <2>2 DEF Within
<1> QED
  BY <1>3, <1>6, <1>7

\* What the budget says of the number of comments.
LEMMA BudgetExplains ==
    ASSUME TypeOK, Budget
    PROVE  DuplicatesExplained
<1> SUFFICES ASSUME NEW t \in Tasks
             PROVE  comments[t] <= Workers * (1 + faults)
  BY DEF DuplicatesExplained, Workers
<1>1. /\ comments[t] \in Nat /\ faults \in Nat /\ Workers \in Nat
      /\ Posts(t) \in Nat /\ Answers(t) \in Nat /\ Failures(t) \in Nat
      /\ Posts(t) + Answers(t) + Failures(t) <= Workers
  BY AtCounts, BoundsAssumption DEF TypeOK
<1>2. Failures(t) <= Workers * Failures(t)
  BY <1>1
<1>3. /\ Workers * (1 + faults) = Workers + Workers * faults
      /\ Workers * (faults - Failures(t)) = Workers * faults - Workers * Failures(t)
      /\ Workers * (1 + faults - Failures(t))
            = Workers + Workers * faults - Workers * Failures(t)
      /\ Workers * faults \in Int /\ Workers * Failures(t) \in Int
      /\ Workers * Failures(t) >= 0
  BY <1>1
<1> QED
  BY <1>1, <1>2, <1>3 DEF Budget, Within

----------------------------------------------------------------------------
(* The invariants of Delivery.                                              *)

\* What a publisher's step changes, in one place: itself, and the row and the
\* comments of the task it is at.
LEMMA PublisherTypes ==
    ASSUME TypeOK, NEW q \in Publishers, Publish(q) \/ Crash(q)
    PROVE  TypeOK'
<1> USE DEF TypeOK
<1>1. CASE Collect(q)
  BY <1>1, PendingAreTasks DEF Collect
<1>2. CASE Done(q)
  BY <1>2 DEF Done
<1>3. CASE Begin(q)
  BY <1>3 DEF Begin, Leave, Goto
<1>4. CASE Post(q)
  BY <1>4, CurrentIsTask DEF Post, Goto
<1>5. CASE PostFails(q)
  <2>1. Current(q) \in Tasks
    BY <1>5, CurrentIsTask DEF PostFails
  <2>2. comments' \in [Tasks -> Nat]
    BY <1>5, <2>1 DEF PostFails
  <2>3. faults' \in 0 .. MaxFaults
    BY <1>5, BoundsAssumption DEF PostFails, Fault
  <2> QED
    BY <1>5, <2>2, <2>3 DEF PostFails, Goto
<1>6. CASE RecordSuccess(q)
  BY <1>6 DEF RecordSuccess, Leave
<1>7. CASE RecordFailed(q)
  BY <1>7 DEF RecordFailed, Leave
<1>8. CASE Crash(q)
  BY <1>8, BoundsAssumption DEF Crash, Fault
<1> QED
  BY <1>1, <1>2, <1>3, <1>4, <1>5, <1>6, <1>7, <1>8 DEF Publish

LEMMA ElsewhereTypes ==
    ASSUME TypeOK, Elsewhere
    PROVE  TypeOK'
BY BoundsAssumption DEF TypeOK, Elsewhere, Fault

\* A recorded SUCCESS, and an answered post, have their comment: comments only
\* become more.
LEMMA PostedStays ==
    ASSUME TypeOK, SuccessWasPosted, PostIsThere, DeliveryStep
    PROVE  SuccessWasPosted' /\ PostIsThere'
<1>1. CASE Elsewhere
  BY <1>1 DEF Elsewhere, SuccessWasPosted, PostIsThere, Current
<1>2. ASSUME NEW q \in Publishers, Publish(q) \/ Crash(q)
      PROVE  SuccessWasPosted' /\ PostIsThere'
  <2>1. \A p \in Publishers \ {q} : pc'[p] = pc[p] /\ queue'[p] = queue[p]
    BY <1>2 DEF Publish, Collect, Done, Begin, Post, PostFails, RecordSuccess,
                RecordFailed, Crash, Leave, Goto, TypeOK
  <2>2. \A t \in Tasks : comments[t] > 0 => comments'[t] > 0
    BY <1>2 DEF Publish, Collect, Done, Begin, Post, PostFails, RecordSuccess,
                RecordFailed, Crash, TypeOK
  <2>3. pc'[q] = "posted" => queue'[q] = queue[q] /\ comments'[Current(q)] > 0
    <3>1. CASE Post(q)
      BY <3>1, CurrentIsTask DEF Post, Goto, TypeOK
    <3>2. CASE ~ Post(q)
      BY <1>2, <3>2 DEF Publish, Collect, Done, Begin, PostFails, RecordSuccess,
                        RecordFailed, Crash, Leave, Goto, TypeOK
    <3> QED
      BY <3>1, <3>2
  <2>4. \A t \in Tasks : outcome'[t] = "SUCCESS" /\ outcome[t] # "SUCCESS" =>
            comments[t] > 0
    <3>1. CASE RecordSuccess(q)
      BY <3>1 DEF RecordSuccess, PostIsThere, TypeOK
    <3>2. CASE ~ RecordSuccess(q)
      BY <1>2, <3>2 DEF Publish, Collect, Done, Begin, Post, PostFails,
                        RecordFailed, Crash, TypeOK
    <3> QED
      BY <3>1, <3>2
  <2>5. SuccessWasPosted'
    BY <2>2, <2>4 DEF SuccessWasPosted
  <2>6. ASSUME NEW p \in Publishers, pc'[p] = "posted"
        PROVE  comments'[Current(p)'] > 0
    <3>1. CASE p = q
      BY <2>3, <2>6, <3>1 DEF Current
    <3>2. CASE p # q
      <4>1. pc[p] = "posted" /\ queue'[p] = queue[p]
        BY <2>1, <2>6, <3>2
      <4>2. Current(p) \in Tasks /\ Current(p)' = Current(p)
        BY <4>1, CurrentIsTask DEF TypeOK, Current
      <4> QED
        BY <2>2, <4>1, <4>2 DEF PostIsThere
    <3> QED
      BY <3>1, <3>2
  <2> QED
    BY <2>5, <2>6 DEF PostIsThere
<1> QED
  BY <1>1, <1>2 DEF DeliveryStep

LEMMA BudgetKept ==
    ASSUME TypeOK, Budget, DeliveryStep
    PROVE  Budget'
<1>1. CASE Elsewhere
  <2>1. faults' \in Nat /\ faults' >= faults
    BY <1>1, BoundsAssumption DEF Elsewhere, Fault, TypeOK
  <2>2. \A t \in Tasks : Within(outcome[t] = "SUCCESS", comments[t], faults',
                                Posts(t), Answers(t), Failures(t))
    BY <2>1, BudgetOfFaults
  <2> QED
    BY <1>1, <2>2 DEF Elsewhere, Budget, Posts, Answers, Failures, At, Current
<1>2. ASSUME NEW q \in Publishers, Publish(q)
      PROVE  Budget'
  <2>1. CASE Collect(q)
    <3>1. Moves(q) /\ pc[q] \notin Publishing /\ pc'[q] \notin Publishing
      BY <2>1 DEF Collect, Moves, Publishing, TypeOK
    <3> QED
      BY <2>1, <3>1, BeginBudget DEF Collect
  <2>2. CASE Done(q)
    <3>1. Moves(q) /\ pc[q] \notin Publishing /\ pc'[q] \notin Publishing
      BY <2>2 DEF Done, Moves, Publishing, TypeOK
    <3> QED
      BY <2>2, <3>1, BeginBudget DEF Done
  <2>3. CASE Begin(q)
    <3>1. Moves(q) /\ pc[q] \notin Publishing
      BY <2>3 DEF Begin, Leave, Goto, Moves, Publishing, TypeOK
    <3>2. \/ pc'[q] \notin Publishing
          \/ pc'[q] = "post" /\ outcome[Current(q)] # "SUCCESS"
      BY <2>3 DEF Begin, Leave, Goto, Publishing, TypeOK
    <3> QED
      BY <2>3, <3>1, <3>2, BeginBudget DEF Begin
  <2>4. pc[q] \in Publishing => Current(q) \in Tasks
    BY CurrentIsTask DEF TypeOK, Publishing
  <2>5. CASE Post(q)
    BY <2>4, <2>5, PostBudget DEF Post, Publishing
  <2>6. CASE PostFails(q)
    BY <2>4, <2>6, PostFailsBudget DEF PostFails, Publishing
  <2>7. CASE RecordSuccess(q) \/ RecordFailed(q)
    BY <2>4, <2>7, RecordBudget DEF RecordSuccess, RecordFailed, Publishing
  <2> QED
    BY <1>2, <2>1, <2>2, <2>3, <2>5, <2>6, <2>7 DEF Publish
<1> QED
  BY <1>1, <1>2, CrashBudget DEF DeliveryStep

LEMMA DeliveringStarts ==
    ASSUME Init
    PROVE  Delivering
<1>1. TypeOK
  BY BoundsAssumption DEF Init, TypeOK
<1>2. SuccessWasPosted /\ PostIsThere
  BY DEF Init, SuccessWasPosted, PostIsThere
<1>3. Budget
  <2> SUFFICES ASSUME NEW t \in Tasks
               PROVE  comments[t] <= Workers * (faults - Failures(t))
                                       + Answers(t) + Failures(t)
                      /\ outcome[t] # "SUCCESS"
    BY DEF Budget, Within
  <2>1. At(t, "failed") = {}
    BY DEF At, Init
  <2>2. Failures(t) = 0
    BY <2>1, FS_EmptySet DEF Failures
  <2> QED
    BY <2>2, AtCounts DEF Init
<1> QED
  BY <1>1, <1>2, <1>3 DEF Delivering

LEMMA DeliveringStep ==
    ASSUME Delivering, DeliveryStep
    PROVE  Delivering'
<1>1. TypeOK'
  BY PublisherTypes, ElsewhereTypes DEF Delivering, DeliveryStep
<1> QED
  BY <1>1, PostedStays, BudgetKept DEF Delivering

LEMMA DeliveringStutters ==
    ASSUME Delivering, UNCHANGED vars
    PROVE  Delivering'
BY DEF Delivering, TypeOK, SuccessWasPosted, PostIsThere, Budget, Posts, Answers,
       Failures, At, Current, vars

\* Every step of Delivery is of one of the kinds.
LEMMA DeliverySteps ==
    ASSUME TypeOK, Next
    PROVE  DeliveryStep
BY DEF Next, DeliveryStep, Elsewhere, Settle, Cancel, TypeOK

THEOREM DeliveringHolds == Spec => []Delivering
<1>1. Init => Delivering
  BY DeliveringStarts
<1>2. Delivering /\ [Next]_vars => Delivering'
  BY DeliverySteps, DeliveringStep, DeliveringStutters DEF Delivering
<1> QED
  BY <1>1, <1>2, PTL DEF Spec

\* The variables of Delivery have their types; a publisher between its look at
\* the row and its own record has a task (publish_result is called with one).
THEOREM DeliveryTypes == Spec => []TypeOK
<1>1. Delivering => TypeOK
  BY DEF Delivering
<1> QED
  BY <1>1, DeliveringHolds, PTL

\* No delivery is recorded as SUCCESS (publish_result, the UPDATE after the
\* answer of gh) whose comment is not on the issue, whatever workers die, and
\* whatever records they write over each other.
THEOREM SuccessIsPosted == Spec => []SuccessWasPosted
<1>1. Delivering => SuccessWasPosted
  BY DEF Delivering
<1> QED
  BY <1>1, DeliveringHolds, PTL

\* However publish_result runs interleave, there are no more comments of one
\* result than one of each worker, and one more of each worker for each fault.
THEOREM DuplicatesAreExplained == Spec => []DuplicatesExplained
<1>1. Delivering => DuplicatesExplained
  BY BudgetExplains DEF Delivering
<1> QED
  BY <1>1, DeliveringHolds, PTL

----------------------------------------------------------------------------
(* A delivery that is done.                                                 *)

\* No publisher gets to a delivered t, and its row and comments stay.
StaysDone(t) ==
    outcome[t] = "SUCCESS" /\ Unattended(t) =>
        /\ outcome'[t] = "SUCCESS" /\ comments'[t] = comments[t]
        /\ Unattended(t)'

LEMMA DoneStaysDone ==
    ASSUME TypeOK, DeliveryStep, NEW t \in Tasks
    PROVE  StaysDone(t)
<1> SUFFICES ASSUME outcome[t] = "SUCCESS", Unattended(t)
             PROVE  /\ outcome'[t] = "SUCCESS" /\ comments'[t] = comments[t]
                    /\ Unattended(t)'
  BY DEF StaysDone
<1>1. CASE Elsewhere
  BY <1>1 DEF Elsewhere, Unattended, Current
<1>2. ASSUME NEW q \in Publishers, Publish(q) \/ Crash(q)
      PROVE  /\ outcome'[t] = "SUCCESS" /\ comments'[t] = comments[t]
             /\ Unattended(t)'
  <2>1. \A p \in Publishers \ {q} : pc'[p] = pc[p] /\ queue'[p] = queue[p]
    BY <1>2 DEF Publish, Collect, Done, Begin, Post, PostFails, RecordSuccess,
                RecordFailed, Crash, Leave, Goto, TypeOK
  <2>2. pc[q] \in Publishing => Current(q) # t
    BY DEF Unattended, Publishing
  <2>3. outcome'[t] = outcome[t] /\ comments'[t] = comments[t]
    BY <1>2, <2>2 DEF Publish, Collect, Done, Begin, Post, PostFails,
          RecordSuccess, RecordFailed, Crash, Publishing, TypeOK
  <2>4. pc'[q] \in Publishing => queue'[q] = queue[q] /\ Current(q) # t
    BY <1>2, <2>2 DEF Publish, Collect, Done, Begin, Post, PostFails,
          RecordSuccess, RecordFailed, Crash, Leave, Goto, Publishing, TypeOK
  <2>5. Unattended(t)'
    BY <2>1, <2>4 DEF Unattended, Publishing, Current
  <2> QED
    BY <2>3, <2>5
<1> QED
  BY <1>1, <1>2 DEF DeliveryStep

LEMMA DoneStutters ==
    ASSUME UNCHANGED vars
    PROVE  \A t : StaysDone(t)
BY DEF vars, StaysDone, Unattended, Current

\* Once publish_result has recorded SUCCESS for a task and no worker is between
\* its look at the row and its own record, no worker posts or records anything
\* for it again, although the task may be in the list of a tick under way.
THEOREM DeliveredIsFinal == Spec => DeliveredOnce
<1>1. Delivering /\ [Next]_vars => \A t \in Tasks : StaysDone(t)
  BY DeliverySteps, DoneStaysDone, DoneStutters DEF Delivering
<1>2. Delivering /\ [Next]_vars =>
          [\A t \in Tasks :
             outcome[t] = "SUCCESS" /\ Unattended(t) =>
                 /\ outcome'[t] = "SUCCESS" /\ comments'[t] = comments[t]
                 /\ Unattended(t)']_vars
  BY <1>1 DEF StaysDone
<1> QED
  BY <1>2, DeliveringHolds, PTL DEF Spec, DeliveredOnce

----------------------------------------------------------------------------
(* The loop of a worker.                                                    *)

\* The comments that are on the issues.
Posted == {c \in Sources \X Nat : c[2] \in 1 .. posted[c[1]]}

\* Workers poll, execute and deliver at their stages.
TicksOK ==
    /\ at \in [Publishers -> 1 .. Ended]
    /\ step \in [Publishers -> PollSteps \cup {"first", "start", "execute"}]
    /\ found \in [Publishers -> Nat]
    /\ running \in [Publishers -> Tasks \cup {NoTask}]
    /\ \A p \in Publishers :
          /\ pc[p] # "idle" => at[p] = DeliverStage
          /\ step[p] \in PollSteps => at[p] \in Sources
          /\ step[p] \in {"start", "execute"} <=> running[p] # NoTask
          /\ running[p] # NoTask => at[p] = PickStage

\* Tasks are of comments, each of one.
MailOK ==
    /\ mailbox \in Mailboxes
    /\ posted \in [Sources -> Nat]
    /\ \A s \in Sources : posted[s] \in 0 .. Len(mailbox[s])
    /\ origin \in Seq(Sources \X Nat) /\ Len(origin) <= N
    /\ IsInjective(origin)
    /\ ToSet(origin) \subseteq Posted
    /\ recorded \subseteq ToSet(origin)
    /\ phase \in [Tasks -> {"none", "queued", "ready", "started", "again"}]
    /\ left \in BOOLEAN

\* A worker in a poll has a comment, and one past create_task a task.
PollsOK ==
    \A p \in Publishers :
        /\ step[p] \in PollSteps => Taken(p) \in Posted
        /\ step[p] \in {"ready", "record"} => Taken(p) \in ToSet(origin)

Looping == Delivering /\ MailOK /\ TicksOK /\ PollsOK

LEMMA StagesAreNumbers ==
    /\ Cardinality(Sources) \in Nat
    /\ Sources = 1 .. Cardinality(Sources)
    /\ PickStage = Cardinality(Sources) + 1
    /\ DeliverStage = Cardinality(Sources) + 2
    /\ Ended = Cardinality(Sources) + 3
BY SourcesAssumption, FS_CardinalityType DEF PickStage, DeliverStage, Ended

\* What a step of the loop is for the state of Delivery.
LEMMA LoopDelivers ==
    ASSUME TypeOK, WorkerNext
    PROVE  DeliveryStep \/ UNCHANGED vars
<1>1. ASSUME NEW p \in Publishers,
             TickStep(p) \/ Executed(p) \/ Dies(p) \/ StartAgain(p)
      PROVE  DeliveryStep \/ UNCHANGED vars
  <2>1. CASE PollFails(p)
    BY <2>1 DEF PollFails, DeliveryStep, Elsewhere, TypeOK, vars
  <2>2. CASE Start(p) \/ Executed(p)
    BY <2>2 DEF Start, Executed, DeliveryStep, Elsewhere, TypeOK
  <2>3. CASE Deliver(p) \/ (Dies(p) /\ Crash(p))
    BY <2>3 DEF Deliver, DeliveryStep
  <2>4. CASE Dies(p) /\ ~ Crash(p)
    <3>1. Unfinished(running[p]) \in {"terminal", "bare"}
      BY DEF Unfinished
    <3> QED
      BY <2>4, <3>1 DEF Dies, DeliveryStep, Elsewhere, TypeOK
  <2> QED
    BY <1>1, <2>1, <2>2, <2>3, <2>4 DEF TickStep, Poll, PollNothing, PollRaises,
          PollFinds, PollCreates, PollReadies, PollRecords, Pick, StartFails,
          StartAgain
<1>2. ASSUME NEW s \in Sources, PostComment(s)
      PROVE  UNCHANGED vars
  BY <1>2 DEF PostComment
<1>3. ASSUME NEW t \in Tasks,
             CancelTask(t) \/ \E p \in Publishers : Reconcile(p, t)
      PROVE  DeliveryStep
  BY <1>3 DEF Reconcile, Unfinished, CancelTask, Cancel, DeliveryStep, Elsewhere,
        TypeOK
<1> QED
  BY <1>1, <1>2, <1>3 DEF WorkerNext

LEMMA LoopDelivering ==
    ASSUME Delivering, [WorkerNext]_allVars
    PROVE  /\ Delivering'
           /\ \A t \in Tasks : StaysDone(t)
<1>1. DeliveryStep \/ UNCHANGED vars
  BY LoopDelivers DEF allVars, Delivering
<1> QED
  BY <1>1, DeliveringStep, DeliveringStutters, DoneStaysDone, DoneStutters
     DEF Delivering

\* READY tasks are tasks, and the oldest one is one of them.
LEMMA ReadyAreTasks ==
    ASSUME MailOK
    PROVE  /\ Ready \subseteq Tasks
           /\ Ready # {} => Min(Ready) \in Tasks
<1>1. Ready \subseteq 1 .. Len(origin) /\ Len(origin) \in Nat
  BY DEF MailOK, Ready
<1>2. Ready \subseteq Tasks /\ Ready \subseteq Nat
  BY <1>1, TasksAssumption DEF MailOK, Tasks
<1> QED
  BY <1>2, OldestIsOne

\* The first new comment is on the issue.
LEMMA NewIsPosted ==
    ASSUME MailOK, NEW s \in Sources, New(s) # {}
    PROVE  Min(New(s)) \in 1 .. posted[s] /\ Min(New(s)) \in Nat
<1>1. New(s) \subseteq 1 .. posted[s] /\ posted[s] \in Nat
  BY DEF New, MailOK
<1>2. New(s) \subseteq Nat
  BY <1>1
<1> QED
  BY <1>1, <1>2, OldestIsOne

----------------------------------------------------------------------------
(* Where workers are.                                                       *)

\* A worker that moves to a stage, with no step of publish_result under way.
LEMMA Moved ==
    ASSUME TicksOK, NEW p \in Publishers, NEW stage \in 1 .. Ended,
           Move(p, stage),
           pc'[p] = "idle", \A q \in Publishers \ {p} : pc'[q] = pc[q]
    PROVE  TicksOK'
<1>1. /\ at'[p] = stage /\ step'[p] = "first"
      /\ found'[p] = NoComment /\ running'[p] = NoTask
      /\ \A q \in Publishers \ {p} :
            /\ at'[q] = at[q] /\ step'[q] = step[q] /\ found'[q] = found[q]
            /\ running'[q] = running[q]
  BY DEF Move, TicksOK
<1>2. /\ at' \in [Publishers -> 1 .. Ended]
      /\ step' \in [Publishers -> PollSteps \cup {"first", "start", "execute"}]
      /\ found' \in [Publishers -> Nat]
      /\ running' \in [Publishers -> Tasks \cup {NoTask}]
  BY DEF Move, TicksOK, NoComment
<1>3. "first" \notin PollSteps
  BY DEF PollSteps
<1> QED
  BY <1>1, <1>2, <1>3 DEF TicksOK

\* A worker on to its next stage is at an earlier one.
LEMMA GoesOn ==
    ASSUME TicksOK, NEW p \in Publishers, GoOn(p), pc' = pc,
           at[p] \in Sources \/ at[p] = PickStage
    PROVE  TicksOK'
<1>1. at[p] + 1 \in 1 .. Ended /\ at[p] # DeliverStage
  BY StagesAreNumbers
<1>2. pc'[p] = "idle"
  BY <1>1 DEF TicksOK
<1> QED
  BY <1>1, <1>2, Moved DEF GoOn

\* A worker on to its next step, at the same stage.
LEMMA Steps ==
    ASSUME TicksOK, NEW p \in Publishers, NEW there,
           StepTo(p, there), pc' = pc, found' \in [Publishers -> Nat],
           \/ /\ there \in PollSteps /\ at[p] \in Sources /\ running' = running
           \/ /\ there = "start" /\ at[p] = PickStage
              /\ \E t \in Tasks : running' = [running EXCEPT ![p] = t]
           \/ /\ there = "execute" /\ step[p] = "start" /\ running' = running
    PROVE  TicksOK'
<1> USE StagesAreNumbers
<1>1. /\ at' = at /\ step'[p] = there
      /\ \A q \in Publishers \ {p} :
            step'[q] = step[q] /\ running'[q] = running[q]
      /\ there \in PollSteps \cup {"first", "start", "execute"}
      /\ step' \in [Publishers -> PollSteps \cup {"first", "start", "execute"}]
  BY DEF StepTo, TicksOK
<1>2. NoTask \notin Tasks
  BY TasksAssumption DEF NoTask, Tasks
<1>3. {"start", "execute"} \cap PollSteps = {}
  BY DEF PollSteps
<1>4. CASE there \in PollSteps
  <2>1. running[p] = NoTask /\ running' = running
    <3>1. at[p] # PickStage /\ running' = running
      BY <1>3, <1>4
    <3> QED
      BY <3>1 DEF TicksOK
  <2> QED
    BY <1>1, <1>3, <1>4, <2>1 DEF TicksOK
<1>5. CASE there = "start"
  <2>1. /\ running'[p] \in Tasks /\ at[p] = PickStage
        /\ running' \in [Publishers -> Tasks \cup {NoTask}]
    BY <1>3, <1>5 DEF TicksOK
  <2> QED
    BY <1>1, <1>2, <1>3, <1>5, <2>1 DEF TicksOK
<1>6. CASE there = "execute"
  <2>1. running' = running /\ step[p] = "start"
    BY <1>3, <1>6
  <2> QED
    BY <1>1, <1>3, <1>6, <2>1 DEF TicksOK
<1> QED
  BY <1>3, <1>4, <1>5, <1>6

LEMMA PollTicks ==
    ASSUME TicksOK, MailOK, NEW p \in Publishers, Poll(p)
    PROVE  TicksOK'
<1>1. /\ at[p] \in Sources /\ pc[p] = "idle" /\ Ended \in 1 .. Ended
      /\ pc' = pc
  <2>1. at[p] \in Sources /\ pc' = pc
    BY DEF Poll, PollFails, PollNothing, PollRaises, PollFinds, PollCreates,
           PollReadies, PollRecords, Finds, PollSteps, TicksOK, vars
  <2> QED
    BY <2>1, StagesAreNumbers DEF TicksOK
<1>2. CASE GoOn(p)
  BY <1>1, <1>2, GoesOn
<1>3. CASE Move(p, Ended)
  BY <1>1, <1>3, Moved
<1>4. CASE \E there \in PollSteps :
              /\ StepTo(p, there) /\ running' = running
              /\ found' \in [Publishers -> Nat]
  BY <1>1, <1>4, Steps
<1>5. PollFinds(p) => GoOn(p) \/ \E there \in PollSteps :
              /\ StepTo(p, there) /\ running' = running
              /\ found' \in [Publishers -> Nat]
  <2>1. SUFFICES ASSUME PollFinds(p)
                 PROVE  found' = [found EXCEPT ![p] = Min(New(at[p]))]
                            => found' \in [Publishers -> Nat]
    BY <2>1 DEF PollFinds, PollSteps
  <2>2. Min(New(at[p])) \in Nat
    BY <1>1, <2>1, NewIsPosted DEF PollFinds, Finds
  <2> QED
    BY <2>2 DEF TicksOK
<1>6. ~ PollFinds(p) => \/ GoOn(p) \/ Move(p, Ended)
                        \/ \E there \in PollSteps :
                              /\ StepTo(p, there) /\ running' = running
                              /\ found' \in [Publishers -> Nat]
  BY DEF Poll, PollFails, PollNothing, PollRaises, PollCreates, PollReadies,
         PollRecords, PollSteps, TicksOK
<1> QED
  BY <1>2, <1>3, <1>4, <1>5, <1>6

LEMMA DeliverTicks ==
    ASSUME TypeOK, TicksOK, NEW p \in Publishers, Deliver(p)
    PROVE  TicksOK'
<1>1. \A q \in Publishers \ {p} : pc'[q] = pc[q]
  BY DEF Deliver, Publish, Collect, Done, Begin, Post, PostFails,
         RecordSuccess, RecordFailed, Leave, Goto, TypeOK
<1>2. at[p] = DeliverStage /\ 1 \in 1 .. Ended
  BY StagesAreNumbers DEF Deliver
<1>3. CASE pc'[p] = "idle"
  BY <1>1, <1>2, <1>3, Moved DEF Deliver
<1>4. CASE pc'[p] # "idle"
  <2>1. at' = at /\ step' = step /\ found' = found /\ running' = running
    BY <1>4 DEF Deliver, tick
  <2> QED
    BY <1>1, <1>2, <2>1 DEF TicksOK
<1> QED
  BY <1>3, <1>4

LEMMA TicksStep ==
    ASSUME TypeOK, TicksOK, MailOK, WorkerNext
    PROVE  TicksOK'
<1>1. ASSUME NEW p \in Publishers, Pick(p)
      PROVE  TicksOK'
  <2>1. at[p] = PickStage /\ pc' = pc /\ found \in [Publishers -> Nat]
    BY <1>1 DEF Pick, vars, TicksOK
  <2>2. CASE GoOn(p)
    BY <2>1, <2>2, GoesOn
  <2>3. CASE /\ Ready # {} /\ running' = [running EXCEPT ![p] = Min(Ready)]
             /\ StepTo(p, "start") /\ UNCHANGED found
    <3>1. \E t \in Tasks : running' = [running EXCEPT ![p] = t]
      BY <2>3, ReadyAreTasks
    <3> QED
      BY <2>1, <2>3, <3>1, Steps
  <2> QED
    BY <1>1, <2>2, <2>3 DEF Pick
<1>2. ASSUME NEW p \in Publishers, Start(p)
      PROVE  TicksOK'
  <2>1. /\ StepTo(p, "execute") /\ step[p] = "start" /\ pc' = pc
        /\ running' = running /\ found' = found /\ found \in [Publishers -> Nat]
    BY <1>2 DEF Start, TicksOK
  <2> QED
    BY <2>1, Steps
<1>3. ASSUME NEW p \in Publishers, StartFails(p) \/ Executed(p)
      PROVE  TicksOK'
  <2>1. step[p] \in {"start", "execute"} /\ GoOn(p) /\ pc' = pc
    BY <1>3 DEF StartFails, Executed, vars
  <2>2. at[p] = PickStage
    BY <2>1 DEF TicksOK
  <2> QED
    BY <2>1, <2>2, GoesOn
<1>4. ASSUME NEW p \in Publishers, Dies(p) \/ StartAgain(p)
      PROVE  TicksOK'
  <2>1. Move(p, 1) /\ 1 \in 1 .. Ended
    BY <1>4, StagesAreNumbers DEF Dies, StartAgain
  <2>2. pc'[p] = "idle" /\ \A q \in Publishers \ {p} : pc'[q] = pc[q]
    BY <1>4, StagesAreNumbers DEF Dies, Crash, StartAgain, TicksOK, TypeOK, vars
  <2> QED
    BY <2>1, <2>2, Moved
<1>5. ASSUME NEW s \in Sources, PostComment(s)
      PROVE  TicksOK'
  BY <1>5 DEF PostComment, TicksOK, vars, tick
<1>6. ASSUME NEW t \in Tasks,
             CancelTask(t) \/ \E p \in Publishers : Reconcile(p, t)
      PROVE  TicksOK'
  BY <1>6 DEF Reconcile, CancelTask, Cancel, TicksOK, tick
<1> QED
  BY <1>1, <1>2, <1>3, <1>4, <1>5, <1>6, PollTicks, DeliverTicks
     DEF WorkerNext, TickStep

----------------------------------------------------------------------------
(* Comments and tasks.                                                      *)

LEMMA MailStays ==
    ASSUME MailOK, UNCHANGED mail, UNCHANGED left,
           phase' \in [Tasks -> {"none", "queued", "ready", "started", "again"}]
    PROVE  MailOK' /\ Posted' = Posted /\ origin' = origin
BY DEF MailOK, mail, Posted

\* A new task is of a comment that had none.
LEMMA TaskIsNew ==
    ASSUME MailOK, NEW c \in Posted, c \notin ToSet(origin),
           Len(origin) + 1 \in Tasks, origin' = Append(origin, c),
           UNCHANGED <<mailbox, posted, recorded, left>>,
           phase' \in [Tasks -> {"none", "queued", "ready", "started", "again"}]
    PROVE  MailOK' /\ ToSet(origin') = ToSet(origin) \cup {c}
<1>1. /\ origin' \in Seq(Sources \X Nat) /\ Len(origin') = Len(origin) + 1
      /\ origin'[Len(origin) + 1] = c
      /\ \A i \in 1 .. Len(origin) : origin'[i] = origin[i]
      /\ DOMAIN origin = 1 .. Len(origin)
      /\ DOMAIN origin' = 1 .. Len(origin) + 1 /\ Len(origin) \in Nat
  BY DEF MailOK, Posted
<1>2. \A i \in 1 .. Len(origin) + 1 : i \in 1 .. Len(origin) \/ i = Len(origin) + 1
  BY <1>1
<1>3. \A i \in 1 .. Len(origin) : origin[i] \in ToSet(origin)
  BY <1>1 DEF ToSet
<1>4. IsInjective(origin')
  <2> SUFFICES ASSUME NEW a \in 1 .. Len(origin) + 1, NEW b \in 1 .. Len(origin) + 1,
                      origin'[a] = origin'[b]
               PROVE  a = b
    BY <1>1 DEF IsInjective
  <2>1. CASE a \in 1 .. Len(origin) /\ b \in 1 .. Len(origin)
    BY <1>1, <2>1 DEF MailOK, IsInjective
  <2>2. CASE ~ (a \in 1 .. Len(origin) /\ b \in 1 .. Len(origin))
    <3>1. \A i \in 1 .. Len(origin) : origin'[i] # origin'[Len(origin) + 1]
      BY <1>1, <1>3
    <3> QED
      BY <1>2, <2>2, <3>1
  <2> QED
    BY <2>1, <2>2
<1>5. ToSet(origin') = ToSet(origin) \cup {c}
  <2>1. ASSUME NEW d \in ToSet(origin')
        PROVE  d \in ToSet(origin) \cup {c}
    <3>1. PICK i \in 1 .. Len(origin) + 1 : d = origin'[i]
      BY <1>1, <2>1 DEF ToSet
    <3> QED
      BY <1>1, <1>2, <1>3, <3>1
  <2>2. ASSUME NEW d \in ToSet(origin) \cup {c}
        PROVE  d \in ToSet(origin')
    <3>1. \E i \in 1 .. Len(origin) + 1 : d = origin'[i]
      <4>1. CASE d = c
        BY <1>1, <4>1
      <4>2. CASE d \in ToSet(origin)
        <5>1. PICK i \in 1 .. Len(origin) : d = origin[i]
          BY <1>1, <4>2 DEF ToSet
        <5> QED
          BY <1>1, <5>1
      <4> QED
        BY <2>2, <4>1, <4>2
    <3> QED
      BY <1>1, <3>1 DEF ToSet
  <2> QED
    BY <2>1, <2>2
<1>6. Len(origin') <= N
  BY <1>1, TasksAssumption DEF Tasks
<1>7. Posted' = Posted
  BY DEF Posted
<1> QED
  BY <1>1, <1>4, <1>5, <1>6, <1>7 DEF MailOK

\* What every step does to the comments and tasks.
MailStep ==
    \/ /\ UNCHANGED <<mail, left>>
       /\ phase' \in [Tasks -> {"none", "queued", "ready", "started", "again"}]
    \/ UNCHANGED <<mail, phase>> /\ left' = TRUE
    \/ \E p \in Publishers :
          PollRecords(p) \/ (PollCreates(p) /\ Taken(p) \notin ToSet(origin))
    \/ \E s \in Sources : PostComment(s)

LEMMA MailSteps ==
    ASSUME MailOK, WorkerNext
    PROVE  MailStep
<1>1. ASSUME NEW p \in Publishers, Poll(p)
      PROVE  MailStep
  <2>1. CASE PollRecords(p) \/ (PollCreates(p) /\ Taken(p) \notin ToSet(origin))
    BY <2>1 DEF MailStep
  <2>2. CASE PollCreates(p) /\ Taken(p) \in ToSet(origin)
    BY <2>2 DEF PollCreates, MailStep, MailOK, mail
  <2>3. CASE PollReadies(p)
    BY <2>3 DEF PollReadies, MailStep, MailOK
  <2> QED
    BY <1>1, <2>1, <2>2, <2>3 DEF Poll, PollFails, PollNothing, PollRaises,
          PollFinds, MailStep, MailOK
<1>2. ASSUME NEW p \in Publishers, Start(p)
      PROVE  MailStep
  BY <1>2 DEF Start, MailStep, MailOK
<1>3. ASSUME NEW p \in Publishers,
             Pick(p) \/ StartFails(p) \/ Executed(p) \/ Deliver(p) \/ StartAgain(p)
      PROVE  MailStep
  BY <1>3 DEF Pick, StartFails, Executed, Deliver, StartAgain, MailStep, MailOK
<1>4. ASSUME NEW p \in Publishers, Dies(p)
      PROVE  MailStep
  BY <1>4 DEF Dies, MailStep, MailOK
<1>5. ASSUME NEW t \in Tasks,
             CancelTask(t) \/ \E p \in Publishers : Reconcile(p, t)
      PROVE  MailStep
  BY <1>5 DEF Reconcile, CancelTask, MailStep, MailOK
<1> QED
  BY <1>1, <1>2, <1>3, <1>4, <1>5 DEF WorkerNext, TickStep, MailStep

LEMMA MailKept ==
    ASSUME MailOK, TicksOK, PollsOK, MailStep
    PROVE  /\ MailOK'
           /\ Posted \subseteq Posted' /\ ToSet(origin) \subseteq ToSet(origin')
<1>1. CASE /\ UNCHANGED <<mail, left>>
           /\ phase' \in [Tasks -> {"none", "queued", "ready", "started", "again"}]
  BY <1>1, MailStays
<1>2. CASE UNCHANGED <<mail, phase>> /\ left' = TRUE
  BY <1>2 DEF MailOK, mail, Posted
<1>3. ASSUME NEW p \in Publishers, PollRecords(p)
      PROVE  /\ MailOK'
             /\ Posted \subseteq Posted' /\ ToSet(origin) \subseteq ToSet(origin')
  <2>1. Taken(p) \in ToSet(origin)
    BY <1>3 DEF PollRecords, PollsOK
  <2> QED
    BY <1>3, <2>1 DEF PollRecords, MailOK, Posted
<1>4. ASSUME NEW p \in Publishers, PollCreates(p), Taken(p) \notin ToSet(origin)
      PROVE  /\ MailOK'
             /\ Posted \subseteq Posted' /\ ToSet(origin) \subseteq ToSet(origin')
  <2>1. Taken(p) \in Posted
    BY <1>4 DEF PollCreates, PollsOK, PollSteps
  <2>2. /\ Len(origin) + 1 \in Tasks /\ origin' = Append(origin, Taken(p))
        /\ UNCHANGED <<mailbox, posted, recorded, left>>
    BY <1>4 DEF PollCreates
  <2>3. phase' \in [Tasks -> {"none", "queued", "ready", "started", "again"}]
    BY <1>4 DEF PollCreates, MailOK
  <2>4. MailOK' /\ ToSet(origin') = ToSet(origin) \cup {Taken(p)}
    BY <1>4, <2>1, <2>2, <2>3, TaskIsNew
  <2> QED
    BY <2>2, <2>4 DEF Posted
<1>5. ASSUME NEW s \in Sources, PostComment(s)
      PROVE  /\ MailOK'
             /\ Posted \subseteq Posted' /\ ToSet(origin) \subseteq ToSet(origin')
  <2>1. /\ posted' = [posted EXCEPT ![s] = @ + 1] /\ posted[s] < Len(mailbox[s])
        /\ UNCHANGED <<mailbox, origin, recorded, phase, left>>
    BY <1>5 DEF PostComment
  <2>2. Len(mailbox[s]) \in Nat /\ posted \in [Sources -> Nat]
    BY MailboxesAssumption DEF MailOK
  <2>3. /\ posted' \in [Sources -> Nat]
        /\ \A r \in Sources : /\ posted'[r] \in 0 .. Len(mailbox[r])
                              /\ posted[r] <= posted'[r]
    BY <2>1, <2>2 DEF MailOK
  <2>4. Posted \subseteq Posted'
    BY <2>2, <2>3 DEF Posted
  <2> QED
    BY <2>1, <2>3, <2>4 DEF MailOK
<1> QED
  BY <1>1, <1>2, <1>3, <1>4, <1>5 DEF MailStep

\* The comment of a worker in a poll stays where it is, but for its own step.
LEMMA PollsStep ==
    ASSUME MailOK, TicksOK, PollsOK, WorkerNext
    PROVE  PollsOK'
<1>1. Posted \subseteq Posted' /\ ToSet(origin) \subseteq ToSet(origin')
  BY MailSteps, MailKept
<1> SUFFICES ASSUME NEW q \in Publishers
             PROVE  /\ step'[q] \in PollSteps => Taken(q)' \in Posted'
                    /\ step'[q] \in {"ready", "record"} =>
                          Taken(q)' \in ToSet(origin')
  BY DEF PollsOK
<1>2. CASE step'[q] = "first"
  BY <1>2 DEF PollSteps
<1>3. CASE at'[q] = at[q] /\ found'[q] = found[q] /\ step'[q] = step[q]
  BY <1>1, <1>3 DEF PollsOK, Taken
<1>4. CASE step'[q] = "start" \/ step'[q] = "execute"
  BY <1>4 DEF PollSteps
<1>5. CASE PollFinds(q) /\ StepTo(q, "create")
  <2>1. /\ at' = at /\ found'[q] = Min(New(at[q])) /\ at[q] \in Sources
        /\ New(at[q]) # {} /\ step'[q] = "create"
    <3>1. found' = [found EXCEPT ![q] = Min(New(at[q]))] \/ GoOn(q)
      BY <1>5 DEF PollFinds
    <3>2. at' = at /\ at[q] \in Sources /\ New(at[q]) # {}
          /\ step' = [step EXCEPT ![q] = "create"]
      BY <1>5 DEF PollFinds, Finds, StepTo
    <3>3. ~ GoOn(q)
      <4>1. step'[q] = "create"
        BY <3>2 DEF TicksOK
      <4> QED
        BY <4>1 DEF GoOn, Move, TicksOK
    <3> QED
      BY <3>1, <3>2, <3>3 DEF TicksOK
  <2>2. Min(New(at[q])) \in 1 .. posted[at[q]] /\ Min(New(at[q])) \in Nat
    BY <2>1, NewIsPosted
  <2>3. Taken(q)' \in Posted
    BY <2>1, <2>2 DEF Taken, Posted
  <2> QED
    BY <1>1, <2>1, <2>3
<1>6. CASE PollCreates(q) /\ StepTo(q, "ready")
  <2>1. at' = at /\ step[q] = "create"
    BY <1>6 DEF PollCreates, StepTo
  <2>2. step'[q] = "ready"
    BY <1>6 DEF StepTo, TicksOK
  <2>3. found' = found /\ Taken(q) \in ToSet(origin')
    <3>1. ~ Move(q, Ended)
      BY <2>2 DEF Move, TicksOK
    <3>2. found' = found /\ origin' = Append(origin, Taken(q))
      BY <1>6, <3>1 DEF PollCreates
    <3>3. origin \in Seq(Sources \X Nat) /\ Taken(q) \in Sources \X Nat
      BY <2>1 DEF MailOK, PollsOK, PollSteps, Posted
    <3>4. Len(origin) + 1 \in DOMAIN origin' /\ origin'[Len(origin) + 1] = Taken(q)
      BY <3>2, <3>3
    <3> QED
      BY <3>2, <3>4 DEF ToSet
  <2>4. Taken(q)' = Taken(q) /\ Taken(q) \in Posted
    BY <2>1, <2>3 DEF Taken, PollsOK, PollSteps
  <2> QED
    BY <1>1, <2>3, <2>4
<1>7. CASE PollReadies(q) /\ StepTo(q, "record")
  <2>1. at' = at /\ step[q] = "ready"
    BY <1>7 DEF PollReadies, StepTo
  <2>2. step'[q] = "record"
    BY <1>7 DEF StepTo, TicksOK
  <2>3. found' = found
    <3>1. ~ GoOn(q) /\ ~ Move(q, Ended)
      BY <2>2 DEF GoOn, Move, TicksOK
    <3> QED
      BY <1>7, <3>1 DEF PollReadies
  <2>4. Taken(q)' = Taken(q) /\ Taken(q) \in Posted /\ Taken(q) \in ToSet(origin)
    BY <2>1, <2>3 DEF Taken, PollsOK, PollSteps
  <2> QED
    BY <1>1, <2>4
<1>8. ASSUME NEW p \in Publishers,
             TickStep(p) \/ Executed(p) \/ Dies(p) \/ StartAgain(p)
      PROVE  \/ step'[q] \in {"first", "start", "execute"}
             \/ at'[q] = at[q] /\ found'[q] = found[q] /\ step'[q] = step[q]
             \/ PollFinds(q) /\ StepTo(q, "create")
             \/ PollCreates(q) /\ StepTo(q, "ready")
             \/ PollReadies(q) /\ StepTo(q, "record")
  <2>1. ASSUME NEW stage, Move(p, stage)
        PROVE  \/ step'[q] = "first"
               \/ at'[q] = at[q] /\ found'[q] = found[q] /\ step'[q] = step[q]
    BY <2>1 DEF Move, TicksOK
  <2>2. CASE \E stage : Move(p, stage)
    BY <2>1, <2>2
  <2>3. CASE UNCHANGED tick
    BY <2>3 DEF tick
  <2>4. CASE PollFinds(p) /\ StepTo(p, "create")
             /\ found' = [found EXCEPT ![p] = Min(New(at[p]))]
    BY <2>4 DEF StepTo, TicksOK
  <2>5. CASE \/ PollCreates(p) /\ StepTo(p, "ready") /\ found' = found
             \/ PollReadies(p) /\ StepTo(p, "record") /\ found' = found
    BY <2>5 DEF StepTo, TicksOK
  <2>6. CASE /\ found' = found
             /\ StepTo(p, "start") \/ StepTo(p, "execute")
    BY <2>6 DEF StepTo, TicksOK
  <2> QED
    BY <1>8, <2>2, <2>3, <2>4, <2>5, <2>6 DEF TickStep, Poll, PollFails,
          PollNothing, PollRaises, PollFinds, PollCreates, PollReadies,
          PollRecords, Pick, Start, StartFails, Executed, Deliver, Dies,
          StartAgain, GoOn
<1>9. ASSUME NEW s \in Sources, PostComment(s)
      PROVE  at'[q] = at[q] /\ found'[q] = found[q] /\ step'[q] = step[q]
  BY <1>9 DEF PostComment, tick
<1>10. ASSUME NEW t \in Tasks,
             CancelTask(t) \/ \E p \in Publishers : Reconcile(p, t)
       PROVE  at'[q] = at[q] /\ found'[q] = found[q] /\ step'[q] = step[q]
  BY <1>10 DEF Reconcile, CancelTask, tick
<1> QED
  BY <1>2, <1>3, <1>4, <1>5, <1>6, <1>7, <1>8, <1>9, <1>10 DEF WorkerNext

----------------------------------------------------------------------------
(* The invariant.                                                           *)

LEMMA LoopingStarts ==
    ASSUME WorkerInit
    PROVE  Looping
<1>1. Delivering
  BY DeliveringStarts DEF WorkerInit
<1>2. TicksOK /\ PollsOK
  BY StagesAreNumbers DEF WorkerInit, Init, TicksOK, PollsOK, PollSteps,
     NoComment, NoTask
<1>3. MailOK
  <2>1. \A s \in Sources : Len(mailbox[s]) \in Nat
    BY MailboxesAssumption DEF WorkerInit
  <2>2. /\ origin = <<>> /\ origin \in Seq(Sources \X Nat) /\ Len(origin) = 0
        /\ ToSet(origin) = {} /\ IsInjective(origin)
    BY DEF WorkerInit, ToSet, IsInjective
  <2>3. /\ ToSet(origin) \subseteq Posted /\ recorded \subseteq ToSet(origin)
        /\ Len(origin) <= N
    BY <2>2, TasksAssumption DEF WorkerInit
  <2>4. phase = [t \in Tasks |-> "none"] /\ left = FALSE
    BY DEF WorkerInit
  <2>5. /\ phase \in [Tasks -> {"none", "queued", "ready", "started", "again"}]
        /\ left \in BOOLEAN
    BY <2>4
  <2>6. /\ mailbox \in Mailboxes /\ posted \in [Sources -> Nat]
        /\ \A s \in Sources : posted[s] \in 0 .. Len(mailbox[s])
    BY <2>1 DEF WorkerInit
  <2> QED
    BY <2>2, <2>3, <2>5, <2>6 DEF MailOK
<1> QED
  BY <1>1, <1>2, <1>3 DEF Looping

LEMMA LoopingStep ==
    ASSUME Looping, [WorkerNext]_allVars
    PROVE  Looping'
<1>1. Delivering /\ MailOK /\ TicksOK /\ PollsOK /\ TypeOK
  BY DEF Looping, Delivering
<1>2. Delivering'
  BY <1>1, LoopDelivering
<1>3. CASE WorkerNext
  BY <1>1, <1>2, <1>3, MailSteps, MailKept, TicksStep, PollsStep DEF Looping
<1>4. CASE UNCHANGED allVars
  <2>1. /\ UNCHANGED mail /\ UNCHANGED <<phase, left>> /\ UNCHANGED tick
        /\ pc' = pc
    BY <1>4 DEF allVars, vars
  <2>2. MailOK' /\ Posted' = Posted /\ origin' = origin
    BY <1>1, <2>1, MailStays DEF MailOK
  <2>3. TicksOK'
    BY <1>1, <2>1 DEF tick, TicksOK
  <2>4. PollsOK'
    BY <1>1, <2>1, <2>2 DEF tick, PollsOK, Taken
  <2> QED
    BY <1>2, <2>2, <2>3, <2>4 DEF Looping
<1> QED
  BY <1>3, <1>4

THEOREM LoopingHolds == WorkerSpec => []Looping
<1>1. WorkerInit => Looping
  BY LoopingStarts
<1>2. Looping /\ [WorkerNext]_allVars => Looping'
  BY LoopingStep
<1> QED
  BY <1>1, <1>2, PTL DEF WorkerSpec

\* The loop of worker_tick, for any number of workers, sources and comments,
\* deaths in a poll or in an execution included: every task comes from a comment
\* of a mailbox, no comment becomes two tasks, and none is recorded that did not
\* become one; a worker polls, executes or publishes only at the stage of its
\* tick for that.
THEOREM OneTaskPerComment == WorkerSpec => []WorkerTypeOK
<1>1. Looping => WorkerTypeOK
  BY DEF Looping, Delivering, MailOK, TicksOK, PollsOK, Posted, WorkerTypeOK
<1> QED
  BY <1>1, LoopingHolds, PTL

\* In the loop of the workers, too, a delivery recorded as SUCCESS has its
\* comment.
THEOREM LoopSuccessIsPosted == WorkerSpec => []SuccessWasPosted
<1>1. Looping => SuccessWasPosted
  BY DEF Looping, Delivering
<1> QED
  BY <1>1, LoopingHolds, PTL

\* In the loop of the workers, too, each comment of a result is explained by a
\* worker or by a fault.
THEOREM LoopDuplicatesAreExplained == WorkerSpec => []DuplicatesExplained
<1>1. Looping => DuplicatesExplained
  BY BudgetExplains DEF Looping, Delivering
<1> QED
  BY <1>1, LoopingHolds, PTL

\* The deliveries of the loop are those of module Delivery: what a poll, an
\* execution, recovery or a cancel does to a task, a restart of a delivered one
\* included, brings no worker back to what is delivered.
THEOREM LoopDeliveredIsFinal == WorkerSpec => DeliveredOnce
<1>1. Looping /\ [WorkerNext]_allVars =>
          [\A t \in Tasks :
             outcome[t] = "SUCCESS" /\ Unattended(t) =>
                 /\ outcome'[t] = "SUCCESS" /\ comments'[t] = comments[t]
                 /\ Unattended(t)']_vars
  BY LoopDelivering DEF Looping, StaysDone
<1> QED
  BY <1>1, LoopingHolds, PTL DEF WorkerSpec, DeliveredOnce
=============================================================================
