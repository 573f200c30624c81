---------------------- MODULE DependencyManager_proofs ----------------------
(***************************************************************************)
(* Safety of DependencyManager for any templates, projects and sources and *)
(* any number of launches: what runs alone runs alone, a task starts with  *)
(* its updates linked to it and over, and tasks share the updates that     *)
(* have not ended.                                                         *)
(***************************************************************************)
EXTENDS DependencyManager, FiniteSetTheorems, SequenceTheorems, TLAPS

TaskRow == [of : Templates \cup Projects \cup Sources, manual : BOOLEAN,
            status : Active \cup {"successful", "failed", "canceled"}, flag : BOOLEAN,
            processed : BOOLEAN, deps : SUBSET Nat]
DmType == [at : {"idle", "list", "looked"}, list : SUBSET Nat,
           last : {<<>>} \cup [Updatable -> Nat], old : SUBSET Updatable]

Types == tasks \in Seq(TaskRow) /\ dm \in DmType /\ dm.list \subseteq DOMAIN tasks

(* What the manager has not found outdated has an update, which it has noted. *)
Noted ==
  dm.at = "looked" =>
    \A x \in Updatable \ dm.old : dm.last[x] \in DOMAIN tasks /\ tasks[dm.last[x]].of = x

HasUpdates(i) ==
  \A x \in Wants(tasks[i].of) : \E d \in tasks[i].deps : d \in DOMAIN tasks /\ tasks[d].of = x
ProcessedLinked == \A i \in DOMAIN tasks : tasks[i].processed => HasUpdates(i)

IInv == Types /\ Noted /\ ProcessedLinked /\ Exclusive

(* Steps that leave the links alone. *)
SameLinks ==
  \A i \in DOMAIN tasks : /\ tasks'[i].of = tasks[i].of /\ tasks'[i].deps = tasks[i].deps
                          /\ tasks'[i].processed = tasks[i].processed
                          /\ tasks'[i].manual = tasks[i].manual

-----------------------------------------------------------------------------
(* Sets and sequences.                                                      *)

LEMMA GreatestOf ==
  ASSUME NEW n \in Nat, NEW T \in SUBSET (0 .. n), T # {}
  PROVE  Max(T) \in T /\ \A y \in T : y <= Max(T)
<1>. DEFINE R == {n - x : x \in T}
<1>1. R \in SUBSET Nat /\ R # {}
  <2>1. ASSUME NEW y \in R  PROVE y \in Nat
    <3>1. PICK x \in T : y = n - x
      OBVIOUS
    <3>2. x \in 0 .. n
      OBVIOUS
    <3>. QED  BY <3>1, <3>2
  <2>2. PICK x \in T : TRUE
    OBVIOUS
  <2>3. n - x \in R
    OBVIOUS
  <2>. QED  BY <2>1, <2>3
<1>. HIDE DEF R
<1>2. PICK m \in R : \A y \in R : ~(<<y, m>> \in OpToRel(<, Nat))
  BY <1>1, NatLessThanWellFounded, WFMin
<1>3. OpToRel(<, Nat) = {ss \in Nat \X Nat : ss[1] < ss[2]}
  BY Zenon DEF OpToRel
<1>4. ASSUME NEW y \in R  PROVE m <= y
  <2>1. m \in Nat /\ y \in Nat /\ <<y, m>> \in Nat \X Nat
    BY <1>1
  <2>2. <<y, m>> \notin {ss \in Nat \X Nat : ss[1] < ss[2]}
    BY <1>2, <1>3
  <2>3. ~(y < m)
    BY <2>1, <2>2
  <2>. QED  BY <2>1, <2>3
<1>5. PICK x \in T : m = n - x
  BY DEF R
<1>6. ASSUME NEW y \in T  PROVE x >= y
  <2>1. n - y \in R
    BY DEF R
  <2>2. n - x <= n - y /\ x \in Nat /\ y \in Nat
    BY <1>4, <1>5, <2>1
  <2>. QED  BY <2>2
<1>7. Max(T) \in T /\ \A y \in T : Max(T) >= y
  BY <1>6 DEF Max
<1>. QED  BY <1>7

LEMMA AllOfSet ==
  ASSUME NEW S, IsFiniteSet(S)
  PROVE  /\ SetToSeq(S) \in Seq(S) /\ \A x \in S : \E k \in DOMAIN SetToSeq(S) : SetToSeq(S)[k] = x
         /\ \A j, k \in DOMAIN SetToSeq(S) : SetToSeq(S)[j] = SetToSeq(S)[k] => j = k
<1>. DEFINE n == Cardinality(S)
<1>1. n \in Nat /\ ExistsBijection(1 .. n, S)
  BY FS_CardinalityType
<1>2. \E f \in [1 .. n -> S] : IsInjective(f)
  BY <1>1 DEF ExistsBijection, Bijection, Injection
<1>3. SetToSeq(S) \in [1 .. n -> S] /\ IsInjective(SetToSeq(S))
  BY <1>2 DEF SetToSeq
<1>4. SetToSeq(S) \in Injection(1 .. n, S)
  BY <1>3 DEF Injection
<1>5. Cardinality(1 .. n) = n
  BY <1>1, FS_Interval
<1>. HIDE DEF n
<1>6. SetToSeq(S) \in Surjection(1 .. n, S)
  <2>1. Cardinality(1 .. n) = Cardinality(S)
    BY <1>5 DEF n
  <2>. QED  BY <1>4, <2>1, FS_Injection
<1>7. SetToSeq(S) \in Seq(S)
  BY <1>1, <1>3, SeqDef
<1>8. \A j, k \in DOMAIN SetToSeq(S) : SetToSeq(S)[j] = SetToSeq(S)[k] => j = k
  BY <1>3 DEF IsInjective
<1>. QED  BY <1>6, <1>7, <1>8 DEF Surjection

LEMMA WantsUpdatable ==
  ASSUME NEW x \in Templates \cup Projects \cup Sources
  PROVE  /\ Wants(x) \subseteq Updatable /\ (x \in Projects => Wants(x) = {})
         /\ (x \in Sources => Wants(x) \subseteq Projects)
  BY DependencyAssumption DEF Wants, Updatable

LEMMA NewTaskType ==
  ASSUME NEW x \in Templates \cup Projects \cup Sources, NEW manual \in BOOLEAN
  PROVE  /\ NewTask(x, manual) \in TaskRow /\ NewTask(x, manual).of = x
         /\ NewTask(x, manual).status = "pending" /\ NewTask(x, manual).manual = manual
         /\ NewTask(x, manual).processed => Wants(x) = {}
         /\ NewTask(x, manual).deps = {} /\ (x \in Projects => NewTask(x, manual).processed)
<1>1. (x \in Projects \/ (x \in Templates /\ Wants(x) = {})) \in BOOLEAN
  OBVIOUS
<1>2. NewTask(x, manual) \in TaskRow
  BY <1>1 DEF NewTask, TaskRow, Active
<1>3. NewTask(x, manual).processed => Wants(x) = {}
  BY WantsUpdatable DEF NewTask
<1>. QED  BY <1>2, <1>3 DEF NewTask

LEMMA RowOf ==
  ASSUME Types, NEW i \in DOMAIN tasks
  PROVE  tasks[i] \in TaskRow /\ i \in Nat /\ DOMAIN tasks = 1 .. Len(tasks) /\ Len(tasks) \in Nat
  BY ElementOfSeq, LenProperties DEF Types

LEMMA LatestOf ==
  ASSUME Types, NEW x
  PROVE  /\ Latest(x) \in Nat /\ (Latest(x) # 0 => Latest(x) \in DOMAIN tasks /\ tasks[Latest(x)].of = x)
         /\ \A i \in TasksOf(x) : i <= Latest(x)
<1>1. Len(tasks) \in Nat /\ DOMAIN tasks = 1 .. Len(tasks)
  BY LenProperties DEF Types
<1>2. {0} \cup TasksOf(x) \in SUBSET (0 .. Len(tasks)) /\ {0} \cup TasksOf(x) # {}
  BY <1>1 DEF TasksOf
<1>3. Latest(x) \in {0} \cup TasksOf(x) /\ \A i \in TasksOf(x) : i <= Latest(x)
  BY <1>1, <1>2, GreatestOf DEF Latest
<1>. QED  BY <1>1, <1>3 DEF TasksOf

-----------------------------------------------------------------------------
LEMMA Initially == DependencyInit => IInv
<1>. SUFFICES ASSUME DependencyInit  PROVE IInv
  OBVIOUS
<1>1. NoCycle \in DmType /\ NoCycle.at = "idle" /\ NoCycle.list = {}
  BY DEF NoCycle, DmType
<1>2. <<>> \in Seq(TaskRow) /\ DOMAIN <<>> = {}
  BY EmptySeq
<1>. QED  BY <1>1, <1>2 DEF DependencyInit, IInv, Types, Noted, ProcessedLinked, Exclusive

(* A step of the task manager, of a task or of a user leaves the links alone; what
   starts is not blocked. *)
LEMMA LinksKept ==
  ASSUME IInv, tasks' \in Seq(TaskRow), DOMAIN tasks' = DOMAIN tasks, SameLinks, UNCHANGED dm, Exclusive'
  PROVE  IInv'
<1>1. Types'
  BY DEF IInv, Types
<1>2. Noted'
  BY DEF IInv, Noted, SameLinks
<1>3. ProcessedLinked'
  <2>. SUFFICES ASSUME NEW i \in DOMAIN tasks, tasks'[i].processed,
                       NEW x \in Wants(tasks'[i].of)
                PROVE  \E d \in tasks'[i].deps : d \in DOMAIN tasks' /\ tasks'[d].of = x
    BY DEF ProcessedLinked, HasUpdates
  <2>1. tasks[i].processed /\ tasks'[i].of = tasks[i].of /\ tasks'[i].deps = tasks[i].deps
    BY DEF SameLinks
  <2>2. PICK d \in tasks[i].deps : d \in DOMAIN tasks /\ tasks[d].of = x
    BY <2>1 DEF IInv, ProcessedLinked, HasUpdates
  <2>3. tasks'[d].of = x
    BY <2>2 DEF SameLinks
  <2>. QED  BY <2>1, <2>2, <2>3
<1>. QED  BY <1>1, <1>2, <1>3 DEF IInv

LEMMA StatusChanged ==
  ASSUME Types, NEW i \in DOMAIN tasks, NEW v \in Active \cup {"successful", "failed", "canceled"},
         tasks' = [tasks EXCEPT ![i].status = v]
  PROVE  /\ tasks' \in Seq(TaskRow) /\ DOMAIN tasks' = DOMAIN tasks /\ SameLinks
         /\ tasks'[i].status = v /\ \A k \in DOMAIN tasks \ {i} : tasks'[k] = tasks[k]
<1>. DEFINE r == [tasks[i] EXCEPT !.status = v]
<1>1. tasks[i] \in TaskRow /\ DOMAIN tasks = 1 .. Len(tasks) /\ Len(tasks) \in Nat
  BY RowOf
<1>2. r \in TaskRow /\ r.of = tasks[i].of /\ r.deps = tasks[i].deps
      /\ r.processed = tasks[i].processed /\ r.manual = tasks[i].manual /\ r.status = v
  BY <1>1 DEF TaskRow
<1>3. tasks' = [tasks EXCEPT ![i] = r]
  OBVIOUS
<1>. HIDE DEF r
<1>4. DOMAIN tasks' = DOMAIN tasks /\ tasks'[i] = r /\ \A k \in DOMAIN tasks \ {i} : tasks'[k] = tasks[k]
  BY <1>3
<1>5. tasks' \in Seq(TaskRow)
  BY <1>2, <1>3, ExceptSeq DEF Types
<1>. QED  BY <1>2, <1>4, <1>5 DEF SameLinks

LEMMA EndsStep ==
  ASSUME IInv, NEW i \in DOMAIN tasks, FailDependent(i) \/ Finish(i)
  PROVE  IInv'
<1>1. PICK v \in {"failed", "successful", "canceled"} : tasks' = [tasks EXCEPT ![i].status = v]
  BY DEF FailDependent, Finish
<1>2. /\ tasks' \in Seq(TaskRow) /\ DOMAIN tasks' = DOMAIN tasks /\ SameLinks
      /\ tasks'[i].status = v /\ \A k \in DOMAIN tasks \ {i} : tasks'[k] = tasks[k]
  BY <1>1, StatusChanged DEF IInv
<1>3. Exclusive'
  BY <1>2 DEF IInv, Exclusive, SameLinks
<1>. QED  BY <1>2, <1>3, LinksKept DEF FailDependent, Finish

LEMMA StartStep ==
  ASSUME IInv, NEW i \in DOMAIN tasks, Start(i)
  PROVE  IInv'
<1>1. /\ tasks' \in Seq(TaskRow) /\ DOMAIN tasks' = DOMAIN tasks /\ SameLinks
      /\ tasks'[i].status = "running" /\ \A k \in DOMAIN tasks \ {i} : tasks'[k] = tasks[k]
  BY StatusChanged DEF Start, IInv, Active
<1>2. \A k \in DOMAIN tasks : tasks[k].status = "running" /\ tasks[k].of = tasks[i].of
                              => tasks[k].of \in Simultaneous
  BY DEF Start, Blocked, BlockedByGraph
<1>3. Exclusive'
  BY <1>1, <1>2 DEF IInv, Exclusive, SameLinks
<1>. QED  BY <1>1, <1>3, LinksKept DEF Start

LEMMA CancelStep ==
  ASSUME IInv, NEW i \in DOMAIN tasks, Cancel(i)
  PROVE  /\ IInv' /\ DOMAIN tasks' = DOMAIN tasks /\ SameLinks
         /\ \A k \in DOMAIN tasks : tasks'[k].status = tasks[k].status \/ tasks'[k].status = "canceled"
<1>1. PICK chain : tasks' = [k \in DOMAIN tasks |->
                     IF k \notin chain \cup {i} \/ tasks[k].status \notin Active THEN tasks[k]
                     ELSE [tasks[k] EXCEPT !.flag = TRUE,
                                           !.status = IF @ = "pending" THEN "canceled" ELSE @]]
  BY DEF Cancel
<1>2. ASSUME NEW k \in DOMAIN tasks
      PROVE  /\ tasks'[k] \in TaskRow /\ tasks'[k].of = tasks[k].of /\ tasks'[k].deps = tasks[k].deps
             /\ tasks'[k].processed = tasks[k].processed /\ tasks'[k].manual = tasks[k].manual
             /\ tasks'[k].status = tasks[k].status \/ tasks'[k].status = "canceled"
  <2>. DEFINE v == IF tasks[k].status = "pending" THEN "canceled" ELSE tasks[k].status
              r == [tasks[k] EXCEPT !.flag = TRUE, !.status = v]
  <2>1. tasks[k] \in TaskRow /\ v \in Active \cup {"successful", "failed", "canceled"}
    BY RowOf DEF IInv, TaskRow
  <2>2. tasks'[k] = tasks[k] \/ tasks'[k] = r
    BY <1>1
  <2>3. v = tasks[k].status \/ v = "canceled"
    OBVIOUS
  <2>. HIDE DEF v
  <2>4. r \in TaskRow /\ r.of = tasks[k].of /\ r.deps = tasks[k].deps
        /\ r.processed = tasks[k].processed /\ r.manual = tasks[k].manual /\ r.status = v
    BY <2>1 DEF TaskRow
  <2>. HIDE DEF r
  <2>. QED  BY <2>1, <2>2, <2>3, <2>4
<1>3. DOMAIN tasks' = 1 .. Len(tasks) /\ Len(tasks) \in Nat /\ DOMAIN tasks = 1 .. Len(tasks)
      /\ tasks' = [k \in DOMAIN tasks |-> tasks'[k]]
  BY <1>1, LenProperties DEF IInv, Types
<1>4. tasks' \in Seq(TaskRow)
  BY <1>2, <1>3, SeqDef
<1>5. SameLinks
  BY <1>2 DEF SameLinks
<1>6. Exclusive'
  BY <1>2, <1>3 DEF IInv, Exclusive
<1>7. IInv'
  BY <1>3, <1>4, <1>5, <1>6, LinksKept DEF Cancel
<1>. QED  BY <1>2, <1>3, <1>5, <1>7

LEMMA LaunchStep ==
  ASSUME IInv, NEW x \in Templates \cup Projects \cup Sources, Launch(x)
  PROVE  /\ IInv' /\ \A k \in DOMAIN tasks : k \in DOMAIN tasks' /\ tasks'[k] = tasks[k]
         /\ \A k \in DOMAIN tasks' \ DOMAIN tasks : tasks'[k].manual
<1>. DEFINE t == NewTask(x, TRUE)
            n == Len(tasks) + 1
<1>1. t \in TaskRow /\ t.of = x /\ t.manual /\ t.status = "pending" /\ (t.processed => Wants(x) = {})
  BY NewTaskType
<1>2. tasks' = Append(tasks, t) /\ UNCHANGED dm
  BY DEF Launch
<1>. HIDE DEF t
<1>3. /\ tasks' \in Seq(TaskRow) /\ Len(tasks) \in Nat /\ DOMAIN tasks = 1 .. Len(tasks)
      /\ DOMAIN tasks' = DOMAIN tasks \cup {n} /\ n \notin DOMAIN tasks /\ tasks'[n] = t
      /\ \A k \in DOMAIN tasks : tasks'[k] = tasks[k]
  BY <1>1, <1>2 DEF IInv, Types
<1>. HIDE DEF n
<1>4. Types' /\ Noted'
  BY <1>2, <1>3 DEF IInv, Types, Noted
<1>5. ProcessedLinked'
  <2>. SUFFICES ASSUME NEW i \in DOMAIN tasks', tasks'[i].processed, NEW y \in Wants(tasks'[i].of)
                PROVE  \E d \in tasks'[i].deps : d \in DOMAIN tasks' /\ tasks'[d].of = y
    BY DEF ProcessedLinked, HasUpdates
  <2>1. i \in DOMAIN tasks
    BY <1>1, <1>3
  <2>2. PICK d \in tasks[i].deps : d \in DOMAIN tasks /\ tasks[d].of = y
    BY <1>3, <2>1 DEF IInv, ProcessedLinked, HasUpdates
  <2>. QED  BY <1>3, <2>1, <2>2
<1>6. Exclusive'
  BY <1>1, <1>3 DEF IInv, Exclusive
<1>. QED  BY <1>1, <1>3, <1>4, <1>5, <1>6 DEF IInv

-----------------------------------------------------------------------------
(* The dependency manager.                                                  *)

LEMMA ListStep ==
  ASSUME IInv, BeginDependencies
  PROVE  IInv'
<1>1. Unprocessed \in SUBSET Nat /\ Unprocessed \subseteq DOMAIN tasks
  BY RowOf DEF Unprocessed, IInv
<1>2. dm' \in DmType /\ dm'.at = "list" /\ dm'.list = Unprocessed
  BY <1>1 DEF BeginDependencies, NoCycle, DmType
<1>. QED  BY <1>1, <1>2 DEF BeginDependencies, IInv, Types, Noted, ProcessedLinked, HasUpdates, Exclusive

LEMMA LookStep ==
  ASSUME IInv, LookAtUpdates
  PROVE  IInv'
<1>1. PICK expired : dm' = [dm EXCEPT !.at = "looked", !.last = [x \in Updatable |-> Latest(x)],
                                      !.old = {x \in Updatable : Outdated(x, expired)}]
  BY DEF LookAtUpdates
<1>. DEFINE L == [x \in Updatable |-> Latest(x)]
            O == {x \in Updatable : Outdated(x, expired)}
<1>2. L \in [Updatable -> Nat] /\ O \in SUBSET Updatable
  BY LatestOf DEF IInv
<1>3. \A x \in Updatable \ O : L[x] \in DOMAIN tasks /\ tasks[L[x]].of = x
  BY LatestOf DEF Outdated, IInv
<1>. HIDE DEF L, O
<1>4. dm' = [dm EXCEPT !.at = "looked", !.last = L, !.old = O]
  BY <1>1 DEF L, O
<1>5. dm' \in DmType /\ dm'.list = dm.list /\ dm'.last = L /\ dm'.old = O
  BY <1>2, <1>4 DEF IInv, Types, DmType
<1>6. Types' /\ Noted'
  BY <1>3, <1>5 DEF LookAtUpdates, IInv, Types, Noted
<1>. QED  BY <1>6 DEF LookAtUpdates, IInv, ProcessedLinked, HasUpdates, Exclusive

LEMMA LinkedOwn ==
  ASSUME NEW own, NEW rank, NEW i \in DOMAIN own, rank[i] <= rank[i], NEW K,
         \A k \in DOMAIN own : own[k] \in SUBSET K
  PROVE  Linked(own, rank, i) \in SUBSET K /\ own[i] \subseteq Linked(own, rank, i)
  BY DEF Linked

(* Every update that a listed task, or a source update that is processed again, wants
   is new or noted; the first call links it, or the second. *)
LEMMA CommitStep ==
  ASSUME IInv, CommitDependencies
  PROVE  /\ IInv'
         /\ \A k \in DOMAIN tasks :
              /\ k \in DOMAIN tasks' /\ tasks'[k].status = tasks[k].status
              /\ tasks'[k].of = tasks[k].of /\ tasks'[k].manual = tasks[k].manual
              /\ tasks[k].processed \/ k \in dm.list => tasks'[k].processed
         /\ \A k \in DOMAIN tasks' :
              tasks'[k].deps \subseteq DOMAIN tasks' \cup (IF k \in DOMAIN tasks THEN tasks[k].deps ELSE {})
         /\ \A k \in DOMAIN tasks' \ DOMAIN tasks :
              /\ tasks'[k].of \in dm.old /\ ~tasks'[k].manual /\ tasks'[k].processed
              /\ \A j \in DOMAIN tasks' \ DOMAIN tasks : tasks'[j].of = tasks'[k].of => j = k
<1>. DEFINE new == SetToSeq(Created)
            key(x) == IF x \in Created THEN Len(tasks) + CHOOSE k \in DOMAIN new : new[k] = x
                                       ELSE dm.last[x]
            again == {key(s) : s \in Again}
            keys(x) == {key(y) : y \in Wants(x)}
            rows == tasks \o [k \in DOMAIN new |-> NewTask(new[k], FALSE)]
            first == [i \in dm.list |-> keys(rows[i].of)]
            second == [i \in again |-> keys(rows[i].of)]
            more(i, rank) == (IF i \in dm.list THEN Linked(first, [k \in dm.list |-> k], i) ELSE {})
                             \cup (IF i \in again THEN Linked(second, rank, i) ELSE {})
<1>0. dm.at = "looked" /\ dm' = NoCycle
  BY DEF CommitDependencies
<1>1. PICK rank \in Orders(again) :
        tasks' = [i \in DOMAIN rows |->
                   [rows[i] EXCEPT !.processed = @ \/ i \in dm.list \cup again,
                                   !.deps = @ \cup (IF i \in dm.list THEN Linked(first, [k \in dm.list |-> k], i) ELSE {})
                                              \cup (IF i \in again THEN Linked(second, rank, i) ELSE {})]]
  BY DEF CommitDependencies
<1>2. /\ Created \subseteq Updatable /\ IsFiniteSet(Created) /\ Again \subseteq Sources \cap FirstWants
      /\ Created \cap Sources \subseteq Again
      /\ \A s \in Again : Wants(s) \cap dm.old \subseteq Created
      /\ FirstWants \cap dm.old \subseteq Created /\ FirstWants \subseteq Updatable
  <2>1. \A i \in dm.list : tasks[i].of \in Templates \cup Projects \cup Sources
    BY RowOf DEF IInv, Types, TaskRow
  <2>2. FirstWants \subseteq Updatable
    BY <2>1, WantsUpdatable DEF FirstWants
  <2>3. Again \subseteq Sources \cap FirstWants
    BY DEF Again
  <2>4. \A s \in Again : Wants(s) \subseteq Projects
    BY <2>3, WantsUpdatable
  <2>5. Created \subseteq Updatable
    BY <2>2, <2>4 DEF Created, Updatable
  <2>6. IsFiniteSet(Updatable)
    BY DependencyAssumption, FS_Union DEF Updatable
  <2>7. IsFiniteSet(Created)
    BY <2>5, <2>6, FS_Subset
  <2>8. Created \cap Sources \subseteq Again
    BY <2>4, DependencyAssumption DEF Created, Again
  <2>. QED  BY <2>2, <2>3, <2>5, <2>7, <2>8 DEF Created
<1>3. /\ new \in Seq(Created) /\ DOMAIN new = 1 .. Len(new) /\ Len(new) \in Nat
      /\ \A x \in Created : \E k \in DOMAIN new : new[k] = x
      /\ \A k \in DOMAIN new : new[k] \in Created
      /\ \A j, k \in DOMAIN new : new[j] = new[k] => j = k
  <2>1. /\ new \in Seq(Created) /\ \A x \in Created : \E k \in DOMAIN new : new[k] = x
        /\ \A j, k \in DOMAIN new : new[j] = new[k] => j = k
    BY <1>2, AllOfSet
  <2>. HIDE DEF new
  <2>. QED  BY <2>1, LenProperties, ElementOfSeq
<1>. HIDE DEF new
<1>4. /\ rows \in Seq(TaskRow) /\ DOMAIN rows = 1 .. Len(tasks) + Len(new)
      /\ DOMAIN tasks = 1 .. Len(tasks) /\ Len(tasks) \in Nat
      /\ \A i \in DOMAIN tasks : rows[i] = tasks[i]
      /\ \A k \in DOMAIN new : rows[Len(tasks) + k] = NewTask(new[k], FALSE)
  <2>. DEFINE added == [k \in DOMAIN new |-> NewTask(new[k], FALSE)]
  <2>1. \A k \in DOMAIN new : NewTask(new[k], FALSE) \in TaskRow
    BY <1>2, <1>3, NewTaskType DEF Updatable
  <2>2. added \in Seq(TaskRow) /\ Len(added) = Len(new)
    <3>1. added \in [1 .. Len(new) -> TaskRow] /\ DOMAIN added = 1 .. Len(new)
      BY <1>3, <2>1
    <3>. HIDE DEF added
    <3>2. added \in Seq(TaskRow)
      BY <1>3, <3>1, SeqDef
    <3>3. Len(added) \in Nat /\ 1 .. Len(added) = 1 .. Len(new)
      BY <3>1, <3>2, LenProperties
    <3>. QED  BY <1>3, <3>2, <3>3
  <2>3. tasks \in Seq(TaskRow) /\ Len(tasks) \in Nat /\ DOMAIN tasks = 1 .. Len(tasks)
    BY LenProperties DEF IInv, Types
  <2>4. \A k \in DOMAIN new : added[k] = NewTask(new[k], FALSE)
    OBVIOUS
  <2>. HIDE DEF added
  <2>5. /\ tasks \o added \in Seq(TaskRow) /\ Len(tasks \o added) = Len(tasks) + Len(new)
        /\ \A i \in 1 .. Len(tasks) + Len(new) :
             (tasks \o added)[i] = IF i <= Len(tasks) THEN tasks[i] ELSE added[i - Len(tasks)]
    <3>1. /\ tasks \o added \in Seq(TaskRow) /\ Len(tasks \o added) = Len(tasks) + Len(added)
          /\ \A i \in 1 .. Len(tasks) + Len(added) :
               (tasks \o added)[i] = IF i <= Len(tasks) THEN tasks[i] ELSE added[i - Len(tasks)]
      <4>1. tasks \in Seq(TaskRow) /\ added \in Seq(TaskRow)
        BY <2>2, <2>3
      <4>. HIDE DEF TaskRow
      <4>. QED  BY ONLY <4>1, ConcatProperties
    <3>. QED  BY <2>2, <3>1
  <2>6. DOMAIN (tasks \o added) = 1 .. Len(tasks) + Len(new)
    BY <2>5, LenProperties
  <2>7. \A k \in DOMAIN new : (tasks \o added)[Len(tasks) + k] = added[k]
    BY <1>3, <2>3, <2>5
  <2>8. \A i \in DOMAIN tasks : (tasks \o added)[i] = tasks[i]
    BY <1>3, <2>3, <2>5
  <2>9. rows = tasks \o added
    BY DEF added
  <2>. QED  BY <2>3, <2>4, <2>5, <2>6, <2>7, <2>8, <2>9
<1>. HIDE DEF rows
(* The key of an update is that of a row of it. *)
<1>5. ASSUME NEW x \in Updatable, x \in Created \/ x \notin dm.old
      PROVE  key(x) \in DOMAIN rows /\ rows[key(x)].of = x
  <2>1. CASE x \in Created
    <3>. DEFINE k == CHOOSE k \in DOMAIN new : new[k] = x
    <3>1. k \in DOMAIN new /\ new[k] = x
      BY <1>3, <2>1
    <3>2. key(x) = Len(tasks) + k
      BY <2>1
    <3>. HIDE DEF k, key
    <3>3. rows[key(x)] = NewTask(x, FALSE) /\ key(x) \in DOMAIN rows
      <4>1. k \in 1 .. Len(new) /\ Len(tasks) + k \in 1 .. Len(tasks) + Len(new)
        BY <1>3, <1>4, <3>1
      <4>2. rows[Len(tasks) + k] = NewTask(new[k], FALSE)
        BY <1>4, <3>1
      <4>. QED  BY <1>4, <3>1, <3>2, <4>1, <4>2
    <3>. QED  BY <3>3 DEF NewTask
  <2>2. CASE x \notin Created
    <3>1. dm.last[x] \in DOMAIN tasks /\ tasks[dm.last[x]].of = x
      BY <1>0, <1>5, <2>2 DEF IInv, Noted
    <3>2. key(x) = dm.last[x] /\ DOMAIN tasks \subseteq DOMAIN rows
      BY <1>3, <1>4, <2>2
    <3>. QED  BY <1>4, <3>1, <3>2
  <2>. QED  BY <2>1, <2>2
<1>. HIDE DEF key
(* What a listed task wants has a key. *)
<1>6. ASSUME NEW i \in dm.list, NEW x \in Wants(rows[i].of)
      PROVE  /\ i \in DOMAIN tasks /\ key(x) \in first[i] /\ key(x) \in DOMAIN rows /\ rows[key(x)].of = x
  <2>1. i \in DOMAIN tasks /\ rows[i] = tasks[i] /\ x \in FirstWants
    BY <1>4 DEF IInv, Types, FirstWants
  <2>2. x \in Updatable /\ (x \in Created \/ x \notin dm.old)
    BY <1>2, <2>1
  <2>. QED  BY <1>5, <2>1, <2>2
<1>7. ASSUME NEW i \in again
      PROVE  /\ i \in DOMAIN rows /\ rows[i].of \in Again
             /\ \A x \in Wants(rows[i].of) :
                  key(x) \in second[i] /\ key(x) \in DOMAIN rows /\ rows[key(x)].of = x
  <2>1. PICK s \in Again : i = key(s)
    OBVIOUS
  <2>2. s \in Updatable /\ (s \in Created \/ s \notin dm.old)
    BY <1>2 DEF Updatable
  <2>3. i \in DOMAIN rows /\ rows[i].of = s
    BY <1>5, <2>1, <2>2
  <2>4. ASSUME NEW x \in Wants(s)  PROVE x \in Updatable /\ (x \in Created \/ x \notin dm.old)
    BY <1>2, WantsUpdatable DEF Updatable
  <2>. QED  BY <1>5, <2>3, <2>4
(* A new source update is among those that are processed again. *)
<1>8. ASSUME NEW i \in DOMAIN rows \ DOMAIN tasks
      PROVE  /\ rows[i].status = "pending" /\ ~rows[i].manual /\ rows[i].deps = {}
             /\ rows[i].processed => Wants(rows[i].of) = {}
             /\ rows[i].processed \/ i \in again
             /\ i - Len(tasks) \in DOMAIN new /\ rows[i].of = new[i - Len(tasks)]
  <2>1. PICK k \in DOMAIN new : i = Len(tasks) + k
    <3>1. i \in 1 .. Len(tasks) + Len(new) /\ i \notin 1 .. Len(tasks)
      BY <1>4
    <3>2. i - Len(tasks) \in 1 .. Len(new) /\ i = Len(tasks) + (i - Len(tasks))
      BY <1>3, <1>4, <3>1
    <3>. QED  BY <1>3, <3>2
  <2>2. rows[i] = NewTask(new[k], FALSE) /\ new[k] \in Updatable
    BY <1>2, <1>3, <1>4, <2>1
  <2>3. i - Len(tasks) = k
    BY <1>3, <1>4, <2>1
  <2>4. /\ rows[i].deps = {} /\ ~rows[i].manual /\ rows[i].status = "pending" /\ rows[i].of = new[k]
        /\ (rows[i].processed => Wants(rows[i].of) = {})
        /\ (new[k] \in Projects => rows[i].processed)
    <3>1. new[k] \in Templates \cup Projects \cup Sources
      BY <2>2 DEF Updatable
    <3>. QED  BY <2>2, <3>1, NewTaskType
  <2>5. CASE new[k] \in Sources
    <3>1. new[k] \in Again /\ new[k] \in Created
      BY <1>2, <1>3, <2>5
    <3>. DEFINE j == CHOOSE j \in DOMAIN new : new[j] = new[k]
    <3>2. j \in DOMAIN new /\ new[j] = new[k]
      OBVIOUS
    <3>3. j = k
      BY <1>3, <3>2
    <3>4. key(new[k]) = Len(tasks) + j
      BY <3>1 DEF key
    <3>5. key(new[k]) = i
      BY <2>1, <3>3, <3>4
    <3>6. i \in again
      BY <3>1, <3>5
    <3>. QED  BY <2>3, <2>4, <3>6
  <2>6. CASE new[k] \in Projects
    BY <2>3, <2>4, <2>6
  <2>. QED  BY <2>2, <2>5, <2>6 DEF Updatable
(* The links are links to keys. *)
<1>9. ASSUME NEW i \in DOMAIN rows
      PROVE  /\ more(i, rank) \in SUBSET DOMAIN rows /\ DOMAIN rows \subseteq Nat
             /\ i \in dm.list => first[i] \subseteq more(i, rank)
             /\ i \in again => second[i] \subseteq more(i, rank)
  <2>0. DOMAIN rows \subseteq Nat
    BY <1>3, <1>4
  <2>1. \A k \in dm.list : first[k] \in SUBSET DOMAIN rows
    <3>1. ASSUME NEW k \in dm.list, NEW x \in Wants(rows[k].of)  PROVE key(x) \in DOMAIN rows
      BY <1>6
    <3>. QED  BY <3>1
  <2>2. \A k \in again : second[k] \in SUBSET DOMAIN rows
    <3>1. ASSUME NEW k \in again, NEW x \in Wants(rows[k].of)  PROVE key(x) \in DOMAIN rows
      BY <1>7
    <3>. QED  BY <3>1
  <2>3. DOMAIN first = dm.list /\ DOMAIN second = again
    OBVIOUS
  <2>4. dm.list \in SUBSET Nat
    BY DEF IInv, Types, DmType
  <2>5. \A k \in again : rank[k] \in Nat
    BY DEF Orders
  <2>. HIDE DEF first, second, again
  <2>6. CASE i \in dm.list
    <3>0. [k \in dm.list |-> k][i] <= [k \in dm.list |-> k][i]
      BY <2>4, <2>6
    <3>1. Linked(first, [k \in dm.list |-> k], i) \in SUBSET DOMAIN rows
          /\ first[i] \subseteq Linked(first, [k \in dm.list |-> k], i)
      BY <2>1, <2>3, <2>6, <3>0, LinkedOwn
    <3>2. i \in again => /\ Linked(second, rank, i) \in SUBSET DOMAIN rows
                         /\ second[i] \subseteq Linked(second, rank, i)
      BY <2>2, <2>3, <2>5, LinkedOwn
    <3>. QED  BY <2>0, <2>6, <3>1, <3>2
  <2>7. CASE i \notin dm.list
    <3>1. i \in again => /\ Linked(second, rank, i) \in SUBSET DOMAIN rows
                         /\ second[i] \subseteq Linked(second, rank, i)
      BY <2>2, <2>3, <2>5, LinkedOwn
    <3>. QED  BY <2>0, <2>7, <3>1
  <2>. QED  BY <2>0, <2>6, <2>7
<1>10. ASSUME NEW i \in DOMAIN rows
       PROVE  /\ tasks'[i] \in TaskRow /\ tasks'[i].of = rows[i].of /\ tasks'[i].status = rows[i].status
              /\ tasks'[i].manual = rows[i].manual
              /\ tasks'[i].processed <=> (rows[i].processed \/ i \in dm.list \cup again)
              /\ tasks'[i].deps = rows[i].deps \cup more(i, rank)
              /\ tasks'[i].deps \subseteq rows[i].deps \cup DOMAIN rows
  <2>. DEFINE pr == rows[i].processed \/ i \in dm.list \cup again
              D == rows[i].deps \cup more(i, rank)
  <2>1. rows[i] \in TaskRow
    BY <1>4, ElementOfSeq, <1>3
  <2>2. pr \in BOOLEAN /\ D \in SUBSET Nat
    BY <1>9, <2>1 DEF TaskRow
  <2>3. tasks'[i] = [rows[i] EXCEPT !.processed = pr, !.deps = D]
    BY <1>1
  <2>. HIDE DEF pr, D
  <2>4. /\ tasks'[i] \in TaskRow /\ tasks'[i].of = rows[i].of /\ tasks'[i].status = rows[i].status
        /\ tasks'[i].processed = pr /\ tasks'[i].deps = D /\ tasks'[i].manual = rows[i].manual
    <3>1. PICK r \in TaskRow, p \in BOOLEAN, E \in SUBSET Nat : r = rows[i] /\ p = pr /\ E = D
      BY <2>1, <2>2
    <3>2. tasks'[i] = [r EXCEPT !.processed = p, !.deps = E]
      BY <2>3, <3>1
    <3>3. /\ [r EXCEPT !.processed = p, !.deps = E] \in TaskRow
          /\ [r EXCEPT !.processed = p, !.deps = E].of = r.of
          /\ [r EXCEPT !.processed = p, !.deps = E].status = r.status
          /\ [r EXCEPT !.processed = p, !.deps = E].manual = r.manual
          /\ [r EXCEPT !.processed = p, !.deps = E].processed = p
          /\ [r EXCEPT !.processed = p, !.deps = E].deps = E
      BY DEF TaskRow
    <3>. QED  BY <3>1, <3>2, <3>3, Zenon
  <2>. QED  BY <1>9, <2>4 DEF pr, D
<1>11. DOMAIN tasks' = DOMAIN rows /\ DOMAIN tasks \subseteq DOMAIN rows /\ tasks' \in Seq(TaskRow)
  <2>1. DOMAIN tasks' = DOMAIN rows /\ tasks' = [i \in DOMAIN rows |-> tasks'[i]]
    BY <1>1
  <2>2. tasks' \in [1 .. Len(tasks) + Len(new) -> TaskRow] /\ Len(tasks) + Len(new) \in Nat
    BY <1>3, <1>4, <1>10, <2>1
  <2>3. tasks' \in Seq(TaskRow)
    BY <2>2, SeqDef
  <2>4. DOMAIN tasks \subseteq DOMAIN rows
    BY <1>3, <1>4
  <2>. QED  BY <2>1, <2>3, <2>4
<1>12. Types' /\ Noted'
  BY <1>0, <1>11 DEF NoCycle, Types, Noted, DmType
<1>13. ProcessedLinked'
  <2>. SUFFICES ASSUME NEW i \in DOMAIN rows, tasks'[i].processed, NEW x \in Wants(rows[i].of)
                PROVE  \E d \in tasks'[i].deps : d \in DOMAIN rows /\ rows[d].of = x
    <3>. SUFFICES ASSUME NEW i \in DOMAIN tasks', tasks'[i].processed, NEW x \in Wants(tasks'[i].of)
                  PROVE  \E d \in tasks'[i].deps : d \in DOMAIN tasks' /\ tasks'[d].of = x
      BY DEF ProcessedLinked, HasUpdates
    <3>1. i \in DOMAIN rows /\ x \in Wants(rows[i].of)
      BY <1>10, <1>11
    <3>2. PICK d \in tasks'[i].deps : d \in DOMAIN rows /\ rows[d].of = x
      BY <3>1
    <3>. QED  BY <1>10, <1>11, <3>2
  <2>1. CASE i \in dm.list
    BY <1>6, <1>9, <1>10, <2>1
  <2>2. CASE i \in again
    BY <1>7, <1>9, <1>10, <2>2
  <2>3. CASE i \notin dm.list \cup again
    <3>1. rows[i].processed
      BY <1>10, <2>3
    <3>2. i \in DOMAIN tasks
      BY <1>8, <3>1
    <3>3. PICK d \in tasks[i].deps : d \in DOMAIN tasks /\ tasks[d].of = x
      BY <1>4, <3>1, <3>2 DEF IInv, ProcessedLinked, HasUpdates
    <3>. QED  BY <1>4, <1>10, <1>11, <3>2, <3>3
  <2>. QED  BY <2>1, <2>2, <2>3
<1>14. Exclusive'
  <2>1. \A i \in DOMAIN rows : tasks'[i].status = "running" => i \in DOMAIN tasks
    BY <1>8, <1>10
  <2>2. \A i \in DOMAIN tasks : tasks'[i].status = tasks[i].status /\ tasks'[i].of = tasks[i].of
    BY <1>4, <1>10, <1>11
  <2>. QED  BY <1>11, <2>1, <2>2 DEF IInv, Exclusive
(* What is new is outdated, and new once. *)
<1>15. ASSUME NEW k \in DOMAIN tasks' \ DOMAIN tasks
       PROVE  /\ tasks'[k].of \in dm.old /\ ~tasks'[k].manual /\ tasks'[k].processed
              /\ \A j \in DOMAIN tasks' \ DOMAIN tasks : tasks'[j].of = tasks'[k].of => j = k
  <2>1. Created \subseteq dm.old
    BY DEF Created
  <2>2. ASSUME NEW j \in DOMAIN tasks' \ DOMAIN tasks
        PROVE  j - Len(tasks) \in DOMAIN new /\ tasks'[j].of = new[j - Len(tasks)] /\ j \in Nat
    BY <1>3, <1>4, <1>8, <1>10, <1>11
  <2>3. tasks'[k].of \in dm.old
    BY <1>3, <2>1, <2>2
  <2>4. ASSUME NEW j \in DOMAIN tasks' \ DOMAIN tasks, tasks'[j].of = tasks'[k].of  PROVE j = k
    <3>1. j - Len(tasks) = k - Len(tasks)
      BY <1>3, <2>2, <2>4
    <3>. QED  BY <1>4, <2>2, <3>1
  <2>5. ~tasks'[k].manual /\ tasks'[k].processed
    BY <1>8, <1>10, <1>11
  <2>. QED  BY <2>3, <2>4, <2>5
<1>16. ASSUME NEW k \in DOMAIN tasks'
       PROVE  tasks'[k].deps \subseteq DOMAIN tasks' \cup (IF k \in DOMAIN tasks THEN tasks[k].deps ELSE {})
  BY <1>4, <1>8, <1>10, <1>11
<1>17. ASSUME NEW k \in DOMAIN tasks
       PROVE  tasks[k].processed \/ k \in dm.list => tasks'[k].processed
  BY <1>4, <1>10, <1>11
<1>. QED  BY <1>4, <1>10, <1>11, <1>12, <1>13, <1>14, <1>15, <1>16, <1>17 DEF IInv

-----------------------------------------------------------------------------
LEMMA Invariance == IInv /\ [DependencyNext]_depVars => IInv'
<1>. SUFFICES ASSUME IInv, [DependencyNext]_depVars  PROVE IInv'
  OBVIOUS
<1>1. CASE UNCHANGED depVars
  BY <1>1 DEF depVars, IInv, Types, Noted, ProcessedLinked, HasUpdates, Exclusive
<1>2. ASSUME NEW x \in Templates \cup Projects \cup Sources, Launch(x)  PROVE IInv'
  BY <1>2, LaunchStep
<1>3. CASE BeginDependencies \/ LookAtUpdates \/ CommitDependencies
  BY <1>3, ListStep, LookStep, CommitStep
<1>4. ASSUME NEW i \in DOMAIN tasks, FailDependent(i) \/ Start(i) \/ Finish(i) \/ Cancel(i)
      PROVE  IInv'
  BY <1>4, EndsStep, StartStep, CancelStep
<1>. QED  BY <1>1, <1>2, <1>3, <1>4 DEF DependencyNext

LEMMA Invariant == DependencySpec => []IInv
  BY Initially, Invariance, PTL DEF DependencySpec

(* Two tasks of one thing never run at a time, except for jobs of a template that is
   simultaneous (dependency_graph.py 43-141). *)
THEOREM ExclusiveAlways == DependencySpec => []Exclusive
<1>1. IInv => Exclusive
  BY DEF IInv
<1>. QED  BY <1>1, Invariant, PTL

(* What the step from pending to running has behind it. *)
StartsUpdated ==
  \A i \in DOMAIN tasks :
    tasks[i].status = "pending" /\ tasks'[i].status = "running" =>
      \A x \in Wants(tasks[i].of) :
        \E d \in tasks[i].deps : /\ tasks[d].of = x
                                 /\ tasks[d].status \in {"successful", "canceled"}

LEMMA OnlyStartStarts == IInv /\ [DependencyNext]_depVars => StartsUpdated
<1>. SUFFICES ASSUME IInv, [DependencyNext]_depVars, NEW i \in DOMAIN tasks,
                     tasks[i].status = "pending", tasks'[i].status = "running",
                     NEW x \in Wants(tasks[i].of)
              PROVE  \E d \in tasks[i].deps : /\ tasks[d].of = x
                                              /\ tasks[d].status \in {"successful", "canceled"}
  BY DEF StartsUpdated
<1>1. Start(i)
  <2>1. tasks'[i].status # tasks[i].status
    OBVIOUS
  <2>2. CASE UNCHANGED depVars
    BY <2>1, <2>2 DEF depVars
  <2>3. ASSUME NEW y \in Templates \cup Projects \cup Sources, Launch(y)  PROVE FALSE
    BY <2>1, <2>3, LaunchStep
  <2>4. CASE BeginDependencies \/ LookAtUpdates \/ CommitDependencies
    BY <2>1, <2>4, CommitStep DEF BeginDependencies, LookAtUpdates
  <2>5. ASSUME NEW k \in DOMAIN tasks, FailDependent(k) \/ Finish(k)  PROVE FALSE
    <3>1. PICK v \in {"failed", "successful", "canceled"} : tasks' = [tasks EXCEPT ![k].status = v]
      BY <2>5 DEF FailDependent, Finish
    <3>2. tasks'[k].status = v /\ \A j \in DOMAIN tasks \ {k} : tasks'[j] = tasks[j]
      BY <3>1, StatusChanged DEF IInv
    <3>. QED  BY <2>1, <3>2
  <2>6. ASSUME NEW k \in DOMAIN tasks, Cancel(k)  PROVE FALSE
    BY <2>1, <2>6, CancelStep
  <2>7. ASSUME NEW k \in DOMAIN tasks, Start(k)  PROVE Start(i)
    <3>1. \A j \in DOMAIN tasks \ {k} : tasks'[j] = tasks[j]
      BY <2>7, StatusChanged DEF Start, IInv, Active
    <3>. QED  BY <2>1, <2>7, <3>1
  <2>. QED  BY <2>2, <2>3, <2>4, <2>5, <2>6, <2>7 DEF DependencyNext
<1>2. tasks[i].processed
  BY <1>1 DEF Start, Ready
<1>3. PICK d \in tasks[i].deps : d \in DOMAIN tasks /\ tasks[d].of = x
  BY <1>2 DEF IInv, ProcessedLinked, HasUpdates
<1>4. tasks[d].status \notin {"failed"} \cup Active
  BY <1>1 DEF Start, Blocked, DepsIn
<1>5. tasks[d].status \in Active \cup {"successful", "failed", "canceled"}
  BY <1>3, RowOf DEF IInv, TaskRow
<1>. QED  BY <1>3, <1>4, <1>5

(* A task starts with what it wants up to date: each of its updates was linked to it,
   is over and has not failed (task_manager.py 320-395, 436-470). *)
THEOREM UpdatedBeforeStartAlways == DependencySpec => UpdatedBeforeStart
<1>1. IInv /\ [DependencyNext]_depVars => [StartsUpdated]_depVars
  BY OnlyStartStarts
<1>. QED  BY <1>1, Invariant, PTL DEF DependencySpec, UpdatedBeforeStart, StartsUpdated

-----------------------------------------------------------------------------
(* Sharing: what the manager makes anew comes after an update that is over,  *)
(* or after none.                                                            *)

(* An update that the manager made and that has not ended is the last it made, unless
   a user made one after it. *)
Latecomers ==
  \A i, k \in DOMAIN tasks :
    /\ i < k /\ tasks[i].of = tasks[k].of /\ ~tasks[i].manual /\ ~tasks[k].manual
    /\ tasks[i].status \in Active
    => \E m \in i .. k : tasks[m].of = tasks[i].of /\ tasks[m].manual

(* What the manager has found outdated: the latest it has noted is over, and the
   manager has made none since. *)
OldOver ==
  dm.at = "looked" =>
    \A x \in dm.old :
      /\ dm.last[x] \in Nat
      /\ dm.last[x] # 0 => /\ dm.last[x] \in DOMAIN tasks /\ tasks[dm.last[x]].of = x
                           /\ tasks[dm.last[x]].status \notin Active
      /\ \A i \in TasksOf(x) : tasks[i].manual \/ i <= dm.last[x]

Sharing == Latecomers /\ OldOver

(* Steps that make no task, and bring none back. *)
LEMMA SharingKept ==
  ASSUME Types, Sharing, DOMAIN tasks' = DOMAIN tasks, SameLinks, UNCHANGED dm,
         \A i \in DOMAIN tasks : tasks'[i].status \in Active => tasks[i].status \in Active
  PROVE  Sharing'
<1>1. \A i, k \in DOMAIN tasks : i .. k \subseteq DOMAIN tasks
  BY LenProperties DEF Types
<1>2. Latecomers'
  <2>. SUFFICES ASSUME NEW i \in DOMAIN tasks, NEW k \in DOMAIN tasks, i < k,
                       tasks'[i].of = tasks'[k].of, ~tasks'[i].manual, ~tasks'[k].manual,
                       tasks'[i].status \in Active
                PROVE  \E m \in i .. k : tasks'[m].of = tasks'[i].of /\ tasks'[m].manual
    BY DEF Latecomers
  <2>1. PICK m \in i .. k : tasks[m].of = tasks[i].of /\ tasks[m].manual
    BY DEF Sharing, Latecomers, SameLinks
  <2>. QED  BY <1>1, <2>1 DEF SameLinks
<1>3. OldOver'
  BY DEF Sharing, OldOver, TasksOf, SameLinks
<1>. QED  BY <1>2, <1>3 DEF Sharing

LEMMA SharingStatus ==
  ASSUME IInv, Sharing, NEW i \in DOMAIN tasks, FailDependent(i) \/ Start(i) \/ Finish(i) \/ Cancel(i)
  PROVE  Sharing'
<1>1. CASE FailDependent(i) \/ Finish(i)
  <2>1. PICK v \in {"failed", "successful", "canceled"} : tasks' = [tasks EXCEPT ![i].status = v]
    BY <1>1 DEF FailDependent, Finish
  <2>2. /\ DOMAIN tasks' = DOMAIN tasks /\ SameLinks
        /\ tasks'[i].status = v /\ \A k \in DOMAIN tasks \ {i} : tasks'[k] = tasks[k]
    BY <2>1, StatusChanged DEF IInv
  <2>. QED  BY <1>1, <2>2, SharingKept DEF FailDependent, Finish, IInv, Active
<1>2. CASE Start(i)
  <2>1. /\ DOMAIN tasks' = DOMAIN tasks /\ SameLinks /\ tasks[i].status = "pending"
        /\ \A k \in DOMAIN tasks \ {i} : tasks'[k] = tasks[k]
    BY <1>2, StatusChanged DEF Start, Ready, IInv, Active
  <2>. QED  BY <1>2, <2>1, SharingKept DEF Start, IInv, Active
<1>3. CASE Cancel(i)
  BY <1>3, CancelStep, SharingKept DEF Cancel, IInv, Active
<1>. QED  BY <1>1, <1>2, <1>3

LEMMA SharingLaunch ==
  ASSUME IInv, Sharing, NEW x \in Templates \cup Projects \cup Sources, Launch(x)
  PROVE  Sharing'
<1>1. /\ \A k \in DOMAIN tasks : k \in DOMAIN tasks' /\ tasks'[k] = tasks[k]
      /\ \A k \in DOMAIN tasks' \ DOMAIN tasks : tasks'[k].manual
  BY LaunchStep
<1>2. \A i, k \in DOMAIN tasks : i .. k \subseteq DOMAIN tasks
  BY LenProperties DEF IInv, Types
<1>3. Latecomers'
  <2>. SUFFICES ASSUME NEW i \in DOMAIN tasks', NEW k \in DOMAIN tasks', i < k,
                       tasks'[i].of = tasks'[k].of, ~tasks'[i].manual, ~tasks'[k].manual,
                       tasks'[i].status \in Active
                PROVE  \E m \in i .. k : tasks'[m].of = tasks'[i].of /\ tasks'[m].manual
    BY DEF Latecomers
  <2>1. i \in DOMAIN tasks /\ k \in DOMAIN tasks
    BY <1>1
  <2>2. tasks'[i] = tasks[i] /\ tasks'[k] = tasks[k]
    BY <1>1, <2>1
  <2>3. PICK m \in i .. k : tasks[m].of = tasks[i].of /\ tasks[m].manual
    BY <2>1, <2>2 DEF Sharing, Latecomers
  <2>4. m \in DOMAIN tasks
    BY <1>2, <2>1
  <2>5. tasks'[m] = tasks[m]
    BY <1>1, <2>4
  <2>. QED  BY <2>2, <2>3, <2>5
<1>4. OldOver'
  <2>1. dm' = dm
    BY DEF Launch
  <2>. SUFFICES ASSUME dm.at = "looked", NEW y \in dm.old
                PROVE  /\ dm.last[y] \in Nat
                       /\ dm.last[y] # 0 => /\ dm.last[y] \in DOMAIN tasks' /\ tasks'[dm.last[y]].of = y
                                            /\ tasks'[dm.last[y]].status \notin Active
                       /\ \A i \in DOMAIN tasks' :
                            tasks'[i].of = y => tasks'[i].manual \/ i <= dm.last[y]
    BY <2>1 DEF OldOver, TasksOf
  <2>2. /\ dm.last[y] \in Nat
        /\ dm.last[y] # 0 => /\ dm.last[y] \in DOMAIN tasks /\ tasks[dm.last[y]].of = y
                             /\ tasks[dm.last[y]].status \notin Active
        /\ \A i \in DOMAIN tasks : tasks[i].of = y => tasks[i].manual \/ i <= dm.last[y]
    BY DEF Sharing, OldOver, TasksOf
  <2>3. ASSUME dm.last[y] # 0
        PROVE  /\ dm.last[y] \in DOMAIN tasks' /\ tasks'[dm.last[y]].of = y
               /\ tasks'[dm.last[y]].status \notin Active
    BY <1>1, <2>2, <2>3
  <2>4. ASSUME NEW i \in DOMAIN tasks', tasks'[i].of = y
        PROVE  tasks'[i].manual \/ i <= dm.last[y]
    BY <1>1, <2>2, <2>4
  <2>. QED  BY <2>2, <2>3, <2>4
<1>. QED  BY <1>3, <1>4 DEF Sharing

LEMMA SharingLook ==
  ASSUME IInv, Sharing, LookAtUpdates
  PROVE  Sharing'
<1>1. PICK expired \in SUBSET {Latest(x) : x \in {x \in Updatable :
                                 Latest(x) # 0 /\ tasks[Latest(x)].status = "successful"}} :
        dm' = [dm EXCEPT !.at = "looked", !.last = [x \in Updatable |-> Latest(x)],
                         !.old = {x \in Updatable : Outdated(x, expired)}]
  BY DEF LookAtUpdates
<1>2. UNCHANGED tasks
  BY DEF LookAtUpdates
<1>3. ASSUME NEW x \in dm'.old
      PROVE  x \in Updatable /\ Outdated(x, expired) /\ dm'.last[x] = Latest(x)
  BY <1>1 DEF IInv, Types, DmType
<1>4. ASSUME NEW x \in dm'.old, Latest(x) # 0
      PROVE  tasks[Latest(x)].status \notin Active
  BY <1>3, <1>4 DEF Outdated, Active
<1>5. OldOver'
  BY <1>2, <1>3, <1>4, LatestOf DEF IInv, OldOver, TasksOf
<1>. QED  BY <1>2, <1>5 DEF Sharing, Latecomers

LEMMA SharingCommit ==
  ASSUME IInv, Sharing, CommitDependencies
  PROVE  Sharing'
<1>1. /\ dm.at = "looked" /\ dm' = NoCycle
      /\ \A k \in DOMAIN tasks : /\ k \in DOMAIN tasks' /\ tasks'[k].status = tasks[k].status
                                 /\ tasks'[k].of = tasks[k].of /\ tasks'[k].manual = tasks[k].manual
      /\ \A k \in DOMAIN tasks' \ DOMAIN tasks :
           /\ tasks'[k].of \in dm.old
           /\ \A j \in DOMAIN tasks' \ DOMAIN tasks : tasks'[j].of = tasks'[k].of => j = k
  BY CommitStep DEF CommitDependencies
<1>2. /\ Len(tasks) \in Nat /\ DOMAIN tasks = 1 .. Len(tasks)
      /\ Len(tasks') \in Nat /\ DOMAIN tasks' = 1 .. Len(tasks')
  BY CommitStep, LenProperties DEF IInv, Types
<1>3. ASSUME NEW i \in DOMAIN tasks', NEW k \in DOMAIN tasks', i < k,
             tasks'[i].of = tasks'[k].of, ~tasks'[i].manual, ~tasks'[k].manual,
             tasks'[i].status \in Active
      PROVE  \E m \in i .. k : tasks'[m].of = tasks'[i].of /\ tasks'[m].manual
  <2>1. i \in DOMAIN tasks
    BY <1>1, <1>2, <1>3
  <2>2. CASE k \in DOMAIN tasks
    <3>1. PICK m \in i .. k : tasks[m].of = tasks[i].of /\ tasks[m].manual
      BY <1>1, <1>3, <2>1, <2>2 DEF Sharing, Latecomers
    <3>2. m \in DOMAIN tasks
      BY <1>2, <2>1, <2>2
    <3>. QED  BY <1>1, <2>1, <3>1, <3>2
  <2>3. CASE k \notin DOMAIN tasks
    <3>. DEFINE x == tasks[i].of
                l == dm.last[x]
    <3>1. x \in dm.old /\ i \in TasksOf(x) /\ ~tasks[i].manual /\ tasks[i].status \in Active
      BY <1>1, <1>3, <2>1, <2>3 DEF TasksOf
    <3>2. i <= l
      BY <1>1, <3>1 DEF Sharing, OldOver
    <3>3. l \in DOMAIN tasks /\ tasks[l].of = x /\ tasks[l].status \notin Active
      BY <1>1, <1>2, <2>1, <3>1, <3>2 DEF Sharing, OldOver
    <3>4. i < l /\ l < k
      BY <1>2, <2>1, <2>3, <3>1, <3>2, <3>3
    <3>5. tasks[l].manual \/ \E m \in i .. l : tasks[m].of = x /\ tasks[m].manual
      BY <2>1, <3>1, <3>3, <3>4 DEF Sharing, Latecomers
    <3>6. PICK m \in i .. l : tasks[m].of = x /\ tasks[m].manual
      BY <1>2, <2>1, <3>3, <3>4, <3>5
    <3>7. m \in DOMAIN tasks /\ m \in i .. k
      BY <1>2, <2>1, <3>3, <3>4
    <3>. QED  BY <1>1, <2>1, <3>6, <3>7
  <2>. QED  BY <2>2, <2>3
<1>4. Latecomers'
  BY <1>3 DEF Latecomers
<1>. QED  BY <1>1, <1>4 DEF Sharing, OldOver, NoCycle

LEMMA SharingInvariance == IInv /\ Sharing /\ [DependencyNext]_depVars => Sharing'
<1>. SUFFICES ASSUME IInv, Sharing, [DependencyNext]_depVars  PROVE Sharing'
  OBVIOUS
<1>1. CASE UNCHANGED depVars
  BY <1>1 DEF depVars, Sharing, Latecomers, OldOver, TasksOf
<1>2. CASE BeginDependencies
  BY <1>2 DEF BeginDependencies, NoCycle, Sharing, Latecomers, OldOver
<1>3. ASSUME NEW x \in Templates \cup Projects \cup Sources, Launch(x)  PROVE Sharing'
  BY <1>3, SharingLaunch
<1>4. ASSUME NEW i \in DOMAIN tasks, FailDependent(i) \/ Start(i) \/ Finish(i) \/ Cancel(i)
      PROVE  Sharing'
  BY <1>4, SharingStatus
<1>. QED  BY <1>1, <1>2, <1>3, <1>4, SharingLook, SharingCommit DEF DependencyNext

(* Two unfinished updates of one thing, both made by the manager, have a user's
   between them, however many tasks want it (task_manager.py 320-346). *)
THEOREM SharedUpdateAlways == DependencySpec => []SharedUpdate
<1>1. DependencyInit => Sharing
  BY DEF DependencyInit, NoCycle, Sharing, Latecomers, OldOver
<1>2. Sharing => SharedUpdate
  BY DEF Sharing, Latecomers, SharedUpdate
<1>. QED  BY <1>1, <1>2, Invariant, SharingInvariance, PTL DEF DependencySpec
-----------------------------------------------------------------------------
(* How many tasks there are. The manager runs for tasks that were launched, and    *)
(* each of them is listed once.                                                    *)

Manual == {i \in DOMAIN tasks : tasks[i].manual}
Automatic == {i \in DOMAIN tasks : ~tasks[i].manual}
Served == {i \in Manual : tasks[i].processed}
UpdatesAtMost == Cardinality(Projects) + Cardinality(Sources)

ListedOnce == /\ \A i \in Automatic : tasks[i].processed
              /\ dm.at # "idle" => dm.list # {} /\ \A i \in dm.list : tasks[i].manual /\ ~tasks[i].processed
LinkedToRows == \A i \in DOMAIN tasks : tasks[i].deps \subseteq DOMAIN tasks
Bounded == /\ Cardinality(Manual) <= MaxLaunches
           /\ Cardinality(Automatic) <= Cardinality(Served) * UpdatesAtMost

Counts == ListedOnce /\ LinkedToRows /\ Bounded

LEMMA Numbers ==
  ASSUME Types
  PROVE  /\ IsFiniteSet(DOMAIN tasks) /\ IsFiniteSet(Manual) /\ IsFiniteSet(Automatic) /\ IsFiniteSet(Served)
         /\ Cardinality(Manual) \in Nat /\ Cardinality(Automatic) \in Nat /\ Cardinality(Served) \in Nat
         /\ Cardinality(Served) <= Cardinality(Manual)
         /\ UpdatesAtMost \in Nat /\ MaxLaunches \in Nat
         /\ IsFiniteSet(Updatable) /\ Cardinality(Updatable) = UpdatesAtMost
<1>1. DOMAIN tasks = 1 .. Len(tasks) /\ Len(tasks) \in Nat
  BY LenProperties DEF Types
<1>2. IsFiniteSet(DOMAIN tasks)
  <2>1. 1 \in Int /\ Len(tasks) \in Int
    BY <1>1
  <2>. QED  BY <1>1, <2>1, FS_Interval
<1>3. Manual \subseteq DOMAIN tasks /\ Automatic \subseteq DOMAIN tasks /\ Served \subseteq Manual
  BY DEF Manual, Automatic, Served
<1>4. IsFiniteSet(Manual) /\ IsFiniteSet(Automatic) /\ IsFiniteSet(Served)
      /\ Cardinality(Served) <= Cardinality(Manual)
  BY <1>2, <1>3, FS_Subset
<1>5. IsFiniteSet(Updatable) /\ Cardinality(Updatable) = UpdatesAtMost
  <2>1. Projects \cap Sources = {} /\ IsFiniteSet(Projects) /\ IsFiniteSet(Sources)
    BY DependencyAssumption
  <2>2. /\ IsFiniteSet(Projects \cup Sources)
        /\ Cardinality(Projects \cup Sources) =
             Cardinality(Projects) + Cardinality(Sources) - Cardinality(Projects \cap Sources)
    BY <2>1, FS_Union
  <2>3. Cardinality(Projects \cap Sources) = 0 /\ Cardinality(Projects) \in Nat /\ Cardinality(Sources) \in Nat
    BY <2>1, FS_EmptySet, FS_CardinalityType
  <2>. QED  BY <2>2, <2>3 DEF Updatable, UpdatesAtMost
<1>6. Cardinality(Projects) \in Nat /\ Cardinality(Sources) \in Nat /\ MaxLaunches \in Nat
  BY DependencyAssumption, FS_CardinalityType
<1>. QED  BY <1>2, <1>4, <1>5, <1>6, FS_CardinalityType DEF UpdatesAtMost

Finitely == IsFiniteSet(DOMAIN tasks) /\ IsFiniteSet(Served) /\ Cardinality(Served) \in Nat

LEMMA FinitelyNext == Types' => Finitely'
<1>1. Types => Finitely
  BY Numbers DEF Finitely
<1>. QED  BY <1>1, PTL

LEMMA SameCounts ==
  ASSUME IInv, Counts, DOMAIN tasks' = DOMAIN tasks, SameLinks, UNCHANGED dm
  PROVE  Counts'
<1>1. Manual' = Manual /\ Automatic' = Automatic /\ Served' = Served
  BY DEF Manual, Automatic, Served, SameLinks
<1>2. ListedOnce'
  <2>1. \A i \in Automatic' : tasks'[i].processed
    BY <1>1 DEF Counts, ListedOnce, SameLinks, Automatic
  <2>2. dm'.at # "idle" => dm'.list # {} /\ \A i \in dm'.list : tasks'[i].manual /\ ~tasks'[i].processed
    BY DEF Counts, ListedOnce, SameLinks, IInv, Types
  <2>. QED  BY <2>1, <2>2 DEF ListedOnce
<1>3. LinkedToRows'
  BY DEF Counts, LinkedToRows, SameLinks
<1>. QED  BY <1>1, <1>2, <1>3 DEF Counts, Bounded

LEMMA LaunchCounts ==
  ASSUME IInv, Counts, NEW x \in Templates \cup Projects \cup Sources, Launch(x)
  PROVE  Counts'
<1>. DEFINE t == NewTask(x, TRUE)
            n == Len(tasks) + 1
<1>1. t.manual /\ t.deps = {}
  BY NewTaskType
<1>2. t \in TaskRow
  BY NewTaskType
<1>3. tasks' = Append(tasks, t) /\ UNCHANGED dm
  BY DEF Launch
<1>4. Cardinality(Manual) < MaxLaunches
  BY DEF Launch, Manual
<1>. HIDE DEF t
<1>5. /\ DOMAIN tasks' = DOMAIN tasks \cup {n} /\ n \notin DOMAIN tasks /\ tasks'[n] = t
      /\ \A k \in DOMAIN tasks : tasks'[k] = tasks[k]
  BY <1>2, <1>3, LenProperties DEF IInv, Types
<1>. HIDE DEF n
<1>6. Manual' = Manual \cup {n} /\ n \notin Manual /\ Automatic' = Automatic /\ Served \subseteq Served'
  BY <1>1, <1>5 DEF Manual, Automatic, Served
<1>7. Types'
  BY LaunchStep DEF IInv
<1>8. /\ IsFiniteSet(Manual) /\ Cardinality(Manual) \in Nat /\ MaxLaunches \in Nat /\ UpdatesAtMost \in Nat
      /\ Cardinality(Served) \in Nat /\ Cardinality(Automatic) \in Nat
  BY Numbers DEF IInv
<1>9. IsFiniteSet(Served') /\ Cardinality(Served') \in Nat
  BY <1>7, FinitelyNext DEF Finitely
<1>10. Bounded'
  <2>1. Cardinality(Manual \cup {n}) = Cardinality(Manual) + 1
    BY <1>6, <1>8, FS_AddElement
  <2>2. Cardinality(Served) <= Cardinality(Served')
    BY <1>6, <1>9, FS_Subset
  <2>3. Cardinality(Served) * UpdatesAtMost <= Cardinality(Served') * UpdatesAtMost
    BY <1>8, <1>9, <2>2
  <2>4. Cardinality(Automatic) <= Cardinality(Served') * UpdatesAtMost
    <3>1. Cardinality(Automatic) <= Cardinality(Served) * UpdatesAtMost
      BY DEF Counts, Bounded
    <3>2. Cardinality(Served) * UpdatesAtMost \in Nat /\ Cardinality(Served') * UpdatesAtMost \in Nat
      BY <1>8, <1>9
    <3>. QED  BY <1>8, <2>3, <3>1, <3>2
  <2>5. Cardinality(Manual') <= MaxLaunches
    BY <1>4, <1>6, <1>8, <2>1
  <2>. QED  BY <1>6, <2>4, <2>5 DEF Bounded, UpdatesAtMost
<1>11. ListedOnce'
  <2>1. \A i \in Automatic' : tasks'[i].processed
    BY <1>5, <1>6 DEF Counts, ListedOnce, Automatic
  <2>2. dm'.at # "idle" => dm'.list # {} /\ \A i \in dm'.list : tasks'[i].manual /\ ~tasks'[i].processed
    BY <1>3, <1>5 DEF Counts, ListedOnce, IInv, Types
  <2>. QED  BY <2>1, <2>2 DEF ListedOnce
<1>12. LinkedToRows'
  BY <1>1, <1>5 DEF Counts, LinkedToRows
<1>. QED  BY <1>10, <1>11, <1>12 DEF Counts

LEMMA ManagerCounts ==
  ASSUME IInv, Counts, BeginDependencies \/ LookAtUpdates
  PROVE  Counts'
<1>1. tasks' = tasks
  BY DEF BeginDependencies, LookAtUpdates
<1>2. Manual' = Manual /\ Automatic' = Automatic /\ Served' = Served
  BY <1>1 DEF Manual, Automatic, Served
<1>3. dm'.list # {} /\ \A i \in dm'.list : tasks[i].manual /\ ~tasks[i].processed
  <2>1. CASE BeginDependencies
    <3>1. dm'.list = Unprocessed /\ Unprocessed # {}
      BY <2>1 DEF BeginDependencies, NoCycle
    <3>2. \A i \in Unprocessed : i \in DOMAIN tasks /\ ~tasks[i].processed
      BY DEF Unprocessed
    <3>3. \A i \in Unprocessed : tasks[i].manual
      BY <3>2 DEF Counts, ListedOnce, Automatic
    <3>. QED  BY <3>1, <3>2, <3>3
  <2>2. CASE LookAtUpdates
    <3>1. dm \in DmType /\ dm.at = "list"
      BY <2>2 DEF LookAtUpdates, IInv, Types
    <3>2. dm'.list = dm.list
      BY <2>2, <3>1 DEF LookAtUpdates, DmType
    <3>. QED  BY <3>1, <3>2 DEF Counts, ListedOnce
  <2>. QED  BY <2>1, <2>2
<1>4. ListedOnce'
  <2>1. \A i \in Automatic' : tasks'[i].processed
    BY <1>1, <1>2 DEF Counts, ListedOnce
  <2>. QED  BY <1>1, <1>3, <2>1 DEF ListedOnce
<1>5. LinkedToRows'
  BY <1>1 DEF Counts, LinkedToRows
<1>. QED  BY <1>2, <1>4, <1>5 DEF Counts, Bounded

(* A cycle processes at least one task that was launched, and creates at most one
   update of each project and source. *)
LEMMA CommitCounts ==
  ASSUME IInv, Counts, CommitDependencies
  PROVE  Counts'
<1>. DEFINE New == DOMAIN tasks' \ DOMAIN tasks
<1>1. /\ Types' /\ Types /\ dm'.at = "idle" /\ dm.at # "idle" /\ dm.list \subseteq DOMAIN tasks
      /\ dm.old \in SUBSET Updatable
  BY CommitStep DEF IInv, Types, DmType, CommitDependencies, NoCycle
<1>2. /\ \A k \in DOMAIN tasks :
           /\ k \in DOMAIN tasks' /\ tasks'[k].manual = tasks[k].manual
           /\ tasks[k].processed \/ k \in dm.list => tasks'[k].processed
      /\ \A k \in New :
           /\ tasks'[k].of \in dm.old /\ ~tasks'[k].manual /\ tasks'[k].processed
           /\ \A j \in New : tasks'[j].of = tasks'[k].of => j = k
      /\ \A k \in DOMAIN tasks' :
           tasks'[k].deps \subseteq DOMAIN tasks' \cup (IF k \in DOMAIN tasks THEN tasks[k].deps ELSE {})
  BY CommitStep
<1>3. Manual' = Manual /\ Automatic' = Automatic \cup New /\ Automatic \cap New = {}
  BY <1>2 DEF Manual, Automatic
<1>4. Served \cup dm.list \subseteq Served' /\ Served \cap dm.list = {} /\ dm.list # {}
  BY <1>1, <1>2 DEF Counts, ListedOnce, Served, Manual
<1>5. /\ Cardinality(Automatic) \in Nat /\ Cardinality(Served) \in Nat /\ UpdatesAtMost \in Nat
      /\ IsFiniteSet(Updatable) /\ Cardinality(Updatable) = UpdatesAtMost
      /\ IsFiniteSet(Automatic) /\ IsFiniteSet(Served)
  BY <1>1, Numbers
<1>6. /\ IsFiniteSet(Served') /\ Cardinality(Served') \in Nat /\ IsFiniteSet(DOMAIN tasks')
  BY <1>1, FinitelyNext DEF Finitely
<1>7. Cardinality(New) \in Nat /\ Cardinality(New) <= UpdatesAtMost /\ IsFiniteSet(New)
  <2>. DEFINE f == [k \in New |-> tasks'[k].of]
  <2>1. f \in [New -> Updatable] /\ \A j, k \in New : f[j] = f[k] => j = k
    BY <1>1, <1>2
  <2>2. IsFiniteSet(New)
    BY <1>6, FS_Subset
  <2>. HIDE DEF f, New
  <2>3. f \in Injection(New, Updatable)
    BY <2>1 DEF Injection, IsInjective
  <2>. QED  BY <1>5, <2>2, <2>3, FS_Injection, FS_CardinalityType
<1>. HIDE DEF New
<1>8. Cardinality(Served) + 1 <= Cardinality(Served')
  <2>1. PICK i : i \in dm.list
    BY <1>4
  <2>2. i \notin Served /\ Served \cup {i} \subseteq Served'
    BY <1>4, <2>1
  <2>3. Cardinality(Served \cup {i}) = Cardinality(Served) + 1
    BY <1>5, <2>2, FS_AddElement
  <2>. QED  BY <1>6, <2>2, <2>3, FS_Subset
<1>9. Cardinality(Automatic') = Cardinality(Automatic) + Cardinality(New)
  <2>1. Cardinality(Automatic \cup New) =
          Cardinality(Automatic) + Cardinality(New) - Cardinality(Automatic \cap New)
    BY <1>5, <1>7, FS_Union
  <2>2. Cardinality(Automatic \cap New) = 0
    BY <1>3, FS_EmptySet
  <2>. QED  BY <1>3, <1>5, <1>7, <2>1, <2>2
<1>10. Bounded'
  <2>. DEFINE u == UpdatesAtMost
              s == Cardinality(Served)
              r == Cardinality(Served')
  <2>1. Cardinality(Automatic) <= s * u
    BY DEF Counts, Bounded
  <2>2. u \in Nat /\ s \in Nat /\ r \in Nat /\ s + 1 <= r
    BY <1>5, <1>6, <1>8
  <2>. HIDE DEF u, s, r
  <2>3. (s + 1) * u = s * u + u /\ (s + 1) * u <= r * u /\ s * u \in Nat /\ r * u \in Nat
    BY <2>2
  <2>4. Cardinality(Automatic') <= r * u
    BY <1>5, <1>7, <1>9, <2>1, <2>2, <2>3 DEF u
  <2>. QED  BY <1>3, <2>4 DEF Counts, Bounded, r, u, UpdatesAtMost
<1>11. ListedOnce'
  <2>1. \A i \in Automatic' : tasks'[i].processed
    BY <1>2, <1>3 DEF Counts, ListedOnce, Automatic
  <2>. QED  BY <1>1, <2>1 DEF ListedOnce
<1>12. LinkedToRows'
  BY <1>2 DEF Counts, LinkedToRows
<1>. QED  BY <1>10, <1>11, <1>12 DEF Counts

LEMMA CountsInvariance == IInv /\ Counts /\ [DependencyNext]_depVars => Counts'
<1>. SUFFICES ASSUME IInv, Counts, [DependencyNext]_depVars  PROVE Counts'
  OBVIOUS
<1>1. CASE UNCHANGED depVars
  BY <1>1, SameCounts DEF depVars, SameLinks
<1>2. ASSUME NEW x \in Templates \cup Projects \cup Sources, Launch(x)  PROVE Counts'
  BY <1>2, LaunchCounts
<1>3. CASE BeginDependencies \/ LookAtUpdates
  BY <1>3, ManagerCounts
<1>4. CASE CommitDependencies
  BY <1>4, CommitCounts
<1>5. ASSUME NEW i \in DOMAIN tasks, FailDependent(i) \/ Finish(i) \/ Start(i)  PROVE Counts'
  <2>1. PICK v \in Active \cup {"successful", "failed", "canceled"} : tasks' = [tasks EXCEPT ![i].status = v]
    BY <1>5 DEF FailDependent, Finish, Start, Active
  <2>2. DOMAIN tasks' = DOMAIN tasks /\ SameLinks
    BY <2>1, StatusChanged DEF IInv
  <2>. QED  BY <1>5, <2>2, SameCounts DEF FailDependent, Finish, Start
<1>6. ASSUME NEW i \in DOMAIN tasks, Cancel(i)  PROVE Counts'
  BY <1>6, CancelStep, SameCounts DEF Cancel
<1>. QED  BY <1>1, <1>2, <1>3, <1>4, <1>5, <1>6 DEF DependencyNext

LEMMA FewEnough ==
  ASSUME IInv, Counts
  PROVE  DependencyTypeOK
<1>1. Len(tasks) \in Nat /\ DOMAIN tasks = 1 .. Len(tasks)
  BY LenProperties DEF IInv, Types
<1>2. /\ IsFiniteSet(Manual) /\ IsFiniteSet(Automatic)
      /\ Cardinality(Manual) \in Nat /\ Cardinality(Automatic) \in Nat /\ Cardinality(Served) \in Nat
      /\ Cardinality(Served) <= Cardinality(Manual) /\ UpdatesAtMost \in Nat /\ MaxLaunches \in Nat
  BY Numbers DEF IInv
<1>3. Len(tasks) = Cardinality(Manual) + Cardinality(Automatic)
  <2>1. DOMAIN tasks = Manual \cup Automatic /\ Manual \cap Automatic = {}
    BY DEF Manual, Automatic
  <2>2. Cardinality(Manual \cup Automatic) =
          Cardinality(Manual) + Cardinality(Automatic) - Cardinality(Manual \cap Automatic)
    BY <1>2, FS_Union
  <2>3. Cardinality(Manual \cap Automatic) = 0
    BY <2>1, FS_EmptySet
  <2>4. Cardinality(1 .. Len(tasks)) = Len(tasks)
    <3>1. 1 \in Int /\ Len(tasks) \in Int
      BY <1>1
    <3>2. Cardinality(1 .. Len(tasks)) = IF 1 > Len(tasks) THEN 0 ELSE Len(tasks) - 1 + 1
      BY <3>1, FS_Interval
    <3>. QED  BY <1>1, <3>2
  <2>5. Cardinality(Manual \cup Automatic) = Len(tasks)
    BY <1>1, <2>1, <2>4
  <2>. QED  BY <1>2, <2>2, <2>3, <2>5
<1>4. Len(tasks) <= MaxLaunches * (1 + UpdatesAtMost)
  <2>. DEFINE u == UpdatesAtMost
              s == Cardinality(Served)
  <2>1. Cardinality(Manual) <= MaxLaunches /\ Cardinality(Automatic) <= s * u
    BY DEF Counts, Bounded
  <2>2. u \in Nat /\ s \in Nat /\ s <= MaxLaunches
    BY <1>2, <2>1
  <2>. HIDE DEF u, s
  <2>3. /\ s * u <= MaxLaunches * u /\ s * u \in Nat /\ MaxLaunches * u \in Nat
        /\ MaxLaunches * (1 + u) = MaxLaunches + MaxLaunches * u
    BY <1>2, <2>2
  <2>4. Len(tasks) <= MaxLaunches * (1 + u)
    BY <1>2, <1>3, <2>1, <2>3
  <2>. QED  BY <2>4 DEF u
<1>5. 1 + UpdatesAtMost = 1 + Cardinality(Projects) + Cardinality(Sources)
  BY DependencyAssumption, FS_CardinalityType DEF UpdatesAtMost
<1>6. DOMAIN tasks \subseteq Keys
  <2>. DEFINE max == MaxLaunches * (1 + UpdatesAtMost)
  <2>1. Keys = 1 .. max
    BY <1>5 DEF Keys
  <2>2. max \in Nat
    BY <1>2
  <2>. HIDE DEF max
  <2>3. Len(tasks) <= max
    BY <1>4 DEF max
  <2>. QED  BY <1>1, <2>1, <2>2, <2>3
<1>7. ASSUME NEW i \in DOMAIN tasks  PROVE tasks[i] \in Task
  <2>1. tasks[i] \in TaskRow
    BY RowOf DEF IInv
  <2>2. tasks[i].deps \in SUBSET Keys
    BY <1>6 DEF Counts, LinkedToRows
  <2>. QED  BY <2>1, <2>2 DEF TaskRow, Task
<1>8. dm.at \in {"idle", "list", "looked"} /\ dm.list \subseteq DOMAIN tasks
  BY DEF IInv, Types, DmType
<1>. QED  BY <1>6, <1>7, <1>8 DEF DependencyTypeOK

(* The rows have their types, and there are no more of them than MaxLaunches allows:
   for each task that was launched the dependency manager creates at most one update of
   each project and source, and none for its own updates, whatever ends, fails or is
   canceled between its steps; links lead to rows (task_manager.py 302-408). *)
THEOREM DependencyTypeCorrect == DependencySpec => []DependencyTypeOK
<1>1. DependencyInit => Counts
  <2>. SUFFICES ASSUME DependencyInit  PROVE Counts
    OBVIOUS
  <2>1. DOMAIN tasks = {} /\ dm.at = "idle"
    <3>1. DOMAIN <<>> = {}
      BY EmptySeq
    <3>. QED  BY <3>1 DEF DependencyInit, NoCycle
  <2>2. Manual = {} /\ Automatic = {} /\ Served = {}
    BY <2>1 DEF Manual, Automatic, Served
  <2>3. Cardinality({}) = 0 /\ MaxLaunches \in Nat /\ UpdatesAtMost \in Nat
    BY DependencyAssumption, FS_EmptySet, FS_CardinalityType DEF UpdatesAtMost
  <2>4. Bounded
    BY <2>2, <2>3 DEF Bounded
  <2>. QED  BY <2>1, <2>2, <2>4 DEF Counts, ListedOnce, LinkedToRows
<1>2. IInv /\ Counts => DependencyTypeOK
  BY FewEnough
<1>. QED  BY <1>1, <1>2, CountsInvariance, Invariant, PTL DEF DependencySpec
====
