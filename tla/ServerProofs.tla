---------------------------- MODULE ServerProofs ----------------------------
(***************************************************************************)
(* Proofs about Server, for any set of requests, any number of threads, a  *)
(* loop that may break or not, and any configuration text: its type        *)
(* invariant, the safety invariants that the runs check on small           *)
(* instances, and that each of its steps is a step of RequestService.      *)
(***************************************************************************)
EXTENDS Server, SequenceTheorems, TLAPS

-----------------------------------------------------------------------------
(* The inductive invariant                                                 *)

Started == main \notin {"init", "bind"}

Holds(s, x) == \E i \in 1..Len(s) : s[i] = x

NoDuplicates(s) == \A i, j \in 1..Len(s) : s[i] = s[j] => i = j

InPool(r) == Holds(pool, r)

(* Before the loop runs nothing was delivered.                             *)
NothingBeforeLoop ==
  ~ Started => pool = <<>> /\ \A r \in Requests : conn[r] = "waiting"

(* router is destroyed only on the way out of main().                      *)
RouterAliveInside == ~ Started \/ Serving => router = "alive"

(* Who has the request and where its task is go together.                  *)
TaskFollowsConn ==
  \A r \in Requests :
    /\ task[r] = "none" <=> conn[r] = "waiting"
    /\ task[r] = "erased" <=> conn[r] \in {"sending", "freed"}
    /\ task[r] = "none" => outcome[r] = "none"

(* A request was replied to, once, if and only if libevent has it back.    *)
RepliesFollowConn ==
  \A r \in Requests :
    /\ replies[r] = IF conn[r] \in {"sending", "freed"} THEN 1 ELSE 0
    /\ replies[r] = 1 => outcome[r] = "written"

(* What a worker left behind while the server serves tells its kind.       *)
OutcomeFollowsKind ==
  Serving =>
    \A r \in Requests :
      /\ outcome[r] = "written" => kind[r] = "plain"
      /\ outcome[r] \in {"silent", "thrown"} => kind[r] # "plain"
      /\ task[r] = "taken" => outcome[r] = "silent"

(* The list holds no future twice, all that the program still has to       *)
(* answer while it serves, and every task that runs until the very end.    *)
PoolFollowsConn ==
  /\ NoDuplicates(pool)
  /\ \A r \in Requests : task[r] \in Running => InPool(r)
  /\ Serving => \A r \in Requests : conn[r] = "held" <=> InPool(r)

IInv ==
  /\ TypeOK
  /\ NothingBeforeLoop
  /\ RouterAliveInside
  /\ TaskFollowsConn
  /\ RepliesFollowConn
  /\ OutcomeFollowsKind
  /\ PoolFollowsConn
  /\ SweepIsExact

-----------------------------------------------------------------------------
(* Sequences                                                               *)

(* Erasing entry i of a list keeps the entries before it in place, moves   *)
(* the ones after it one place forward, and adds nothing.                  *)
LEMMA RemoveAtProperties ==
  ASSUME NEW S, NEW s \in Seq(S), NEW i \in 1..Len(s)
  PROVE  /\ RemoveAt(s, i) \in Seq(S)
         /\ Len(RemoveAt(s, i)) = Len(s) - 1
         /\ \A j \in 1..(Len(s) - 1) :
              RemoveAt(s, i)[j] = IF j < i THEN s[j] ELSE s[j + 1]
<1> DEFINE front == SubSeq(s, 1, i - 1)
           back  == SubSeq(s, i + 1, Len(s))
<1>0. Len(s) \in Nat /\ \A j \in 1..Len(s) : s[j] \in S
  BY LenProperties
<1>1. /\ front \in Seq(S)
      /\ Len(front) = i - 1
      /\ \A j \in 1..(i - 1) : front[j] = s[j]
  <2>1. \A j \in 1..(i - 1) : s[j] \in S
    BY <1>0
  <2>2. /\ front \in Seq(S)
        /\ Len(front) = IF 1 <= i - 1 THEN (i - 1) - 1 + 1 ELSE 0
        /\ \A j \in 1..((i - 1) - 1 + 1) : front[j] = s[1 + j - 1]
    BY <2>1, SubSeqProperties, i - 1 \in Int
  <2> QED
    BY <2>2
<1>2. /\ back \in Seq(S)
      /\ Len(back) = Len(s) - i
      /\ \A j \in 1..(Len(s) - i) : back[j] = s[i + j]
  <2>1. \A j \in (i + 1)..Len(s) : s[j] \in S
    BY <1>0
  <2>2. /\ back \in Seq(S)
        /\ Len(back) = IF i + 1 <= Len(s) THEN Len(s) - (i + 1) + 1 ELSE 0
        /\ \A j \in 1..(Len(s) - (i + 1) + 1) : back[j] = s[(i + 1) + j - 1]
    BY <1>0, <2>1, SubSeqProperties, i + 1 \in Int, Len(s) \in Int
  <2> QED
    BY <1>0, <2>2
<1>3. /\ front \o back \in Seq(S)
      /\ Len(front \o back) = Len(front) + Len(back)
      /\ \A j \in 1..(Len(front) + Len(back)) :
           (front \o back)[j] =
             IF j <= Len(front) THEN front[j] ELSE back[j - Len(front)]
  BY <1>1, <1>2, ConcatProperties
<1>4. RemoveAt(s, i) = front \o back
  BY DEF RemoveAt
<1> HIDE DEF front, back
<1>5. Len(front) + Len(back) = Len(s) - 1
  BY <1>0, <1>1, <1>2
<1>6. ASSUME NEW j \in 1..(Len(s) - 1)
      PROVE  RemoveAt(s, i)[j] = IF j < i THEN s[j] ELSE s[j + 1]
  <2>1. RemoveAt(s, i)[j] =
          IF j <= i - 1 THEN front[j] ELSE back[j - (i - 1)]
    BY <1>1, <1>3, <1>4, <1>5
  <2>2. CASE j < i
    BY <1>0, <1>1, <2>1, <2>2
  <2>3. CASE ~ (j < i)
    <3>1. j - (i - 1) \in 1..(Len(s) - i) /\ i + (j - (i - 1)) = j + 1
      BY <1>0, <2>3
    <3> QED
      BY <1>0, <1>2, <2>1, <2>3, <3>1
  <2> QED
    BY <2>2, <2>3
<1> QED
  BY <1>3, <1>4, <1>5, <1>6

(* What RemoveAt, Tail and Append do to a list without duplicates.         *)
LEMMA RemoveAtHolds ==
  ASSUME NEW S, NEW s \in Seq(S), NoDuplicates(s), NEW i \in 1..Len(s)
  PROVE  /\ NoDuplicates(RemoveAt(s, i))
         /\ \A x : Holds(RemoveAt(s, i), x) <=> Holds(s, x) /\ x # s[i]
<1> DEFINE t == RemoveAt(s, i)
<1>1. /\ Len(s) \in Nat
      /\ Len(t) = Len(s) - 1
      /\ \A j \in 1..Len(t) : t[j] = IF j < i THEN s[j] ELSE s[j + 1]
  BY RemoveAtProperties, LenProperties
<1> HIDE DEF t
<1>2. NoDuplicates(t)
  BY <1>1 DEF NoDuplicates
<1>3. ASSUME NEW x, Holds(t, x)
      PROVE  Holds(s, x) /\ x # s[i]
  <2>1. PICK j \in 1..Len(t) : t[j] = x
    BY <1>3 DEF Holds
  <2>2. CASE j < i
    <3>1. j \in 1..Len(s) /\ s[j] = x /\ j # i
      BY <1>1, <2>1, <2>2
    <3> QED
      BY <3>1 DEF Holds, NoDuplicates
  <2>3. CASE ~ (j < i)
    <3>1. j + 1 \in 1..Len(s) /\ s[j + 1] = x /\ j + 1 # i
      BY <1>1, <2>1, <2>3
    <3> QED
      BY <3>1 DEF Holds, NoDuplicates
  <2> QED
    BY <2>2, <2>3
<1>4. ASSUME NEW x, Holds(s, x), x # s[i]
      PROVE  Holds(t, x)
  <2>1. PICK j \in 1..Len(s) : s[j] = x
    BY <1>4 DEF Holds
  <2>2. CASE j < i
    <3>1. j \in 1..Len(t) /\ t[j] = x
      BY <1>1, <2>1, <2>2
    <3> QED
      BY <3>1 DEF Holds
  <2>3. CASE j > i
    <3>1. j - 1 \in 1..Len(t) /\ ~ (j - 1 < i) /\ (j - 1) + 1 = j
      BY <1>1, <2>1, <2>3
    <3>2. t[j - 1] = x
      BY <1>1, <2>1, <3>1
    <3> QED
      BY <3>1, <3>2 DEF Holds
  <2>4. j # i
    BY <1>4, <2>1
  <2> QED
    BY <1>1, <2>2, <2>3, <2>4
<1> QED
  BY <1>2, <1>3, <1>4 DEF t

(* The empty list holds nothing.                                           *)
LEMMA EmptyHolds == NoDuplicates(<<>>) /\ \A x : ~ Holds(<<>>, x)
  BY DEF NoDuplicates, Holds

(* Without its head a list holds what it held but for the head.            *)
LEMMA TailHolds ==
  ASSUME NEW S, NEW s \in Seq(S), NoDuplicates(s), s # <<>>
  PROVE  /\ NoDuplicates(Tail(s))
         /\ \A x : Holds(s, x) => Holds(Tail(s), x) \/ x = Head(s)
<1> DEFINE t == Tail(s)
<1>1. /\ Len(s) \in Nat /\ Len(t) = Len(s) - 1
      /\ \A j \in 1..Len(t) : t[j] = s[j + 1]
      /\ Head(s) = s[1]
  BY HeadTailProperties, LenProperties
<1> HIDE DEF t
<1>2. NoDuplicates(t)
  BY <1>1 DEF NoDuplicates
<1>3. ASSUME NEW x, Holds(s, x), x # Head(s)
      PROVE  Holds(t, x)
  <2>1. PICK j \in 1..Len(s) : s[j] = x
    BY <1>3 DEF Holds
  <2>2. j - 1 \in 1..Len(t) /\ (j - 1) + 1 = j
    BY <1>1, <1>3, <2>1
  <2>3. t[j - 1] = x
    BY <1>1, <2>1, <2>2
  <2> QED
    BY <2>2, <2>3 DEF Holds
<1> QED
  BY <1>2, <1>3 DEF t

(* An entry that is appended is the only one more.                         *)
LEMMA AppendHolds ==
  ASSUME NEW S, NEW s \in Seq(S), NoDuplicates(s), NEW e \in S, ~ Holds(s, e)
  PROVE  /\ NoDuplicates(Append(s, e))
         /\ \A x : Holds(Append(s, e), x) <=> Holds(s, x) \/ x = e
<1> DEFINE t == Append(s, e)
<1>1. /\ Len(s) \in Nat /\ Len(t) = Len(s) + 1
      /\ \A j \in 1..Len(s) : t[j] = s[j]
      /\ t[Len(s) + 1] = e
  BY AppendProperties, LenProperties
<1> HIDE DEF t
<1>2. NoDuplicates(t)
  BY <1>1 DEF NoDuplicates, Holds
<1>3. \A x : Holds(t, x) <=> Holds(s, x) \/ x = e
  BY <1>1 DEF Holds
<1> QED
  BY <1>2, <1>3 DEF t

-----------------------------------------------------------------------------
(* Type correctness                                                        *)

(* Every step of a thread keeps the types.                                 *)
LEMMA TypeStep == TypeOK /\ [Next]_vars => TypeOK'
<1> SUFFICES ASSUME TypeOK, [Next]_vars
             PROVE  TypeOK'
  OBVIOUS
<1> USE DEF TypeOK, Running, startup, threads
<1>1. CASE InitProductHandler
  BY <1>1 DEF InitProductHandler, Return
<1>2. CASE BindSucceeds
  BY <1>2 DEF BindSucceeds
<1>3. CASE BindFails
  BY <1>3 DEF BindFails, Return
<1>4. CASE LoopFails
  BY <1>4 DEF LoopFails, Return
<1>5. CASE LoopReturns
  BY <1>5 DEF LoopReturns
<1>6. CASE VisitRunning
  <2>1. pool[it] \in Requests
    BY <1>6, LenProperties DEF VisitRunning, Visit
  <2> QED
    BY <1>6, <2>1 DEF VisitRunning, Visit, Advance, Current
<1>7. CASE VisitWritten
  <2>1. it \in 1..Len(pool) /\ pool[it] \in Requests
    BY <1>7, LenProperties DEF VisitWritten, Visit
  <2>2. RemoveAt(pool, it) \in Seq(Requests)
    BY <2>1, RemoveAtProperties
  <2> QED
    BY <1>7, <2>1, <2>2 DEF VisitWritten, Visit, Current, SendReply
<1>8. CASE VisitSilent
  <2>1. pool[it] \in Requests
    BY <1>8, LenProperties DEF VisitSilent, Visit
  <2> QED
    BY <1>8, <2>1 DEF VisitSilent, Visit, Advance, Current
<1>9. CASE VisitThrows
  <2>1. pool[it] \in Requests
    BY <1>9, LenProperties DEF VisitThrows, Visit
  <2> QED
    BY <1>9, <2>1 DEF VisitThrows, Visit, Advance, Current
<1>10. CASE SweepEnds
  BY <1>10 DEF SweepEnds
<1>11. CASE JoinFront
  BY <1>11, HeadTailProperties DEF JoinFront
<1>12. CASE Exit
  BY <1>12 DEF Exit
<1>13. ASSUME NEW r \in Requests, Deliver(r)
      PROVE  TypeOK'
  BY <1>13 DEF Deliver
<1>14. ASSUME NEW r \in Requests, SendDone(r)
      PROVE  TypeOK'
  BY <1>14 DEF SendDone
<1>15. ASSUME NEW r \in Requests, StartTask(r)
      PROVE  TypeOK'
  BY <1>15 DEF StartTask, WorkerOnly
<1>16. ASSUME NEW r \in Requests, ReadRequest(r)
      PROVE  TypeOK'
  BY <1>16 DEF ReadRequest, WorkerOnly, Finish
<1>17. ASSUME NEW r \in Requests, HandleRequest(r)
      PROVE  TypeOK'
  BY <1>17 DEF HandleRequest, WorkerOnly, Finish
<1>18. ASSUME NEW r \in Requests, HandleDangling(r)
      PROVE  TypeOK'
  <2>1. UNCHANGED <<startup, conn, kind, pool, it, replies, swept>>
    BY <1>18 DEF HandleDangling
  <2>2. CASE main' = "terminated" /\ UNCHANGED threads
    BY <2>1, <2>2
  <2>3. ASSUME NEW how \in {"written", "silent", "thrown"},
               Finish(r, how), UNCHANGED main
        PROVE  TypeOK'
    BY <2>1, <2>3 DEF Finish
  <2> QED
    BY <1>18, <2>2, <2>3 DEF HandleDangling
<1>19. CASE UNCHANGED vars
  BY <1>19 DEF vars
<1> HIDE DEF TypeOK, Running, startup, threads
<1> QED
  BY <1>1, <1>2, <1>3, <1>4, <1>5, <1>6, <1>7, <1>8, <1>9, <1>10, <1>11,
     <1>12, <1>13, <1>14, <1>15, <1>16, <1>17, <1>18, <1>19
     DEF Next, Startup, Sweep, Closing, Callback, Worker

(* Every variable keeps its type (all of main.cpp's state).                *)
THEOREM TypeCorrect == Spec => []TypeOK
<1>1. Init => TypeOK
  BY DEF Init, TypeOK
<1> QED
  BY <1>1, TypeStep, PTL DEF Spec

-----------------------------------------------------------------------------
(* The inductive invariant is one                                          *)

(* The inductive invariant holds at the start of main().                   *)
LEMMA InitEstablishes == Init => IInv
  BY EmptyHolds
     DEF Init, IInv, TypeOK, NothingBeforeLoop, RouterAliveInside,
         TaskFollowsConn, RepliesFollowConn, OutcomeFollowsKind, PoolFollowsConn,
         SweepIsExact, Started, Serving, InPool, Running

(* Behind the iterator everything was looked at, ahead of it nothing; that *)
(* stays so when the iterator looks at its entry and moves on.             *)
LEMMA AdvancingKeepsSweepExact ==
  ASSUME TypeOK, NoDuplicates(pool), SweepIsExact, main = "sweep",
         it <= Len(pool),
         it' = it + 1, swept' = swept \cup {pool[it]}, pool' = pool
  PROVE  SweepIsExact'
<1>1. Len(pool) \in Nat /\ it \in 1..Len(pool)
  BY LenProperties DEF TypeOK
<1>2. \A j \in 1..Len(pool) : j < it <=> pool[j] \in swept
  BY DEF SweepIsExact
<1>3. \A j \in 1..Len(pool) : pool[j] = pool[it] <=> j = it
  BY <1>1 DEF NoDuplicates
<1> QED
  BY <1>1, <1>2, <1>3 DEF SweepIsExact

(* Behind the iterator everything was looked at, ahead of it nothing; that *)
(* stays so when the entry under the iterator is looked at and erased.     *)
LEMMA ErasingKeepsSweepExact ==
  ASSUME TypeOK, NoDuplicates(pool), SweepIsExact, main = "sweep",
         it \in 1..Len(pool),
         it' = it, swept' = swept \cup {pool[it]}, pool' = RemoveAt(pool, it)
  PROVE  SweepIsExact'
<1>1. /\ Len(pool) \in Nat
      /\ Len(pool') = Len(pool) - 1
      /\ \A j \in 1..Len(pool') :
           pool'[j] = IF j < it THEN pool[j] ELSE pool[j + 1]
  <2>1. pool \in Seq(Requests)
    BY DEF TypeOK
  <2>2. Len(pool) \in Nat
    BY <2>1, LenProperties
  <2>3. /\ Len(RemoveAt(pool, it)) = Len(pool) - 1
        /\ \A j \in 1..(Len(pool) - 1) :
             RemoveAt(pool, it)[j] = IF j < it THEN pool[j] ELSE pool[j + 1]
    BY <2>1, RemoveAtProperties
  <2> QED
    BY <2>2, <2>3
<1>2. \A j \in 1..Len(pool) : j < it <=> pool[j] \in swept
  BY DEF SweepIsExact
<1> SUFFICES ASSUME NEW j \in 1..Len(pool')
             PROVE  j < it <=> pool'[j] \in swept'
  BY DEF SweepIsExact
<1>3. CASE j < it
  BY <1>1, <1>2, <1>3
<1>4. CASE ~ (j < it)
  <2>1. j + 1 \in 1..Len(pool) /\ pool'[j] = pool[j + 1] /\ ~ (j + 1 <= it)
    BY <1>1, <1>4
  <2>2. pool[j + 1] # pool[it] /\ pool[j + 1] \notin swept
    BY <1>2, <2>1 DEF NoDuplicates
  <2> QED
    BY <1>4, <2>1, <2>2
<1> QED
  BY <1>3, <1>4

(* Every step of a thread keeps it.                                        *)
LEMMA StepPreserves == IInv /\ [Next]_vars => IInv'
<1> SUFFICES ASSUME IInv, [Next]_vars
             PROVE  IInv'
  OBVIOUS
<1>t. TypeOK /\ TypeOK'
  BY TypeStep DEF IInv
<1> USE <1>t
<1> USE DEF IInv, NothingBeforeLoop, RouterAliveInside, TaskFollowsConn,
            RepliesFollowConn, OutcomeFollowsKind, PoolFollowsConn, SweepIsExact,
            Started, Serving, InPool, Running, startup, threads, TypeOK
<1>1. CASE InitProductHandler
  BY <1>1 DEF InitProductHandler, Return
<1>2. CASE BindSucceeds
  <2>1. pool = <<>> /\ \A r \in Requests : conn[r] = "waiting"
    BY <1>2 DEF BindSucceeds
  <2>2. PoolFollowsConn'
    BY <1>2, <2>1, EmptyHolds DEF BindSucceeds
  <2>3. OutcomeFollowsKind'
    BY <1>2, <2>1 DEF BindSucceeds
  <2> QED
    BY <1>2, <2>2, <2>3 DEF BindSucceeds
<1>3. CASE BindFails
  BY <1>3 DEF BindFails, Return
<1>4. CASE LoopFails
  BY <1>4 DEF LoopFails, Return
<1>5. CASE LoopReturns
  BY <1>5 DEF LoopReturns
<1>6. CASE VisitRunning
  <2>1. SweepIsExact'
    BY <1>6, AdvancingKeepsSweepExact DEF VisitRunning, Visit, Advance, Current
  <2> QED
    BY <1>6, <2>1 DEF VisitRunning, Visit, Advance, Current
<1>7. CASE VisitWritten
  <2> DEFINE r == pool[it]
  <2>1. it \in 1..Len(pool) /\ r \in Requests
    BY <1>7, LenProperties DEF VisitWritten, Visit
  <2>2. NoDuplicates(pool') /\ \A q : Holds(pool', q) <=> Holds(pool, q) /\ q # r
    BY <1>7, <2>1, RemoveAtHolds DEF VisitWritten
  <2>3. conn[r] = "held" /\ replies[r] = 0
    BY <1>7, <2>1 DEF VisitWritten, Visit, Current
  <2>4. /\ task' = [task EXCEPT ![r] = "erased"]
        /\ conn' = [conn EXCEPT ![r] = "sending"]
        /\ replies' = [replies EXCEPT ![r] = @ + 1]
        /\ outcome[r] = "written" /\ main = "sweep"
        /\ UNCHANGED <<main, product, router, kind, it, outcome>>
    BY <1>7, <2>1 DEF VisitWritten, Visit, Current, SendReply
  <2>5. SweepIsExact'
    BY <1>7, <1>t, <2>1, ErasingKeepsSweepExact DEF VisitWritten, Visit, Current
  <2> HIDE DEF r
  <2>6. PoolFollowsConn'
    BY <2>1, <2>2, <2>3, <2>4
  <2>7. TaskFollowsConn' /\ RepliesFollowConn' /\ OutcomeFollowsKind'
    BY <2>1, <2>3, <2>4
  <2> QED
    BY <2>4, <2>5, <2>6, <2>7
<1>8. CASE VisitSilent
  <2>1. pool[it] \in Requests
    BY <1>8, LenProperties DEF VisitSilent, Visit
  <2>2. SweepIsExact'
    BY <1>8, AdvancingKeepsSweepExact DEF VisitSilent, Visit, Advance, Current
  <2>3. TaskFollowsConn' /\ OutcomeFollowsKind' /\ PoolFollowsConn'
    BY <1>8, <2>1 DEF VisitSilent, Visit, Current
  <2> QED
    BY <1>8, <2>2, <2>3 DEF VisitSilent, Visit
<1>9. CASE VisitThrows
  BY <1>9 DEF VisitThrows, Visit, Current
<1>10. CASE SweepEnds
  BY <1>10 DEF SweepEnds
<1>11. CASE JoinFront
  <2>1. /\ NoDuplicates(pool')
        /\ \A q : Holds(pool, q) => Holds(pool', q) \/ q = Head(pool)
    BY <1>11, TailHolds DEF JoinFront
  <2> QED
    BY <1>11, <2>1 DEF JoinFront
<1>12. CASE Exit
  BY <1>12 DEF Exit
<1>13. ASSUME NEW r \in Requests, Deliver(r)
      PROVE  IInv'
  <2>1. ~ Holds(pool, r)
    BY <1>13 DEF Deliver
  <2>2. NoDuplicates(pool') /\ \A q : Holds(pool', q) <=> Holds(pool, q) \/ q = r
    BY <1>13, <2>1, AppendHolds DEF Deliver
  <2> QED
    BY <1>13, <2>2 DEF Deliver
<1>14. ASSUME NEW r \in Requests, SendDone(r)
      PROVE  IInv'
  BY <1>14 DEF SendDone, Alive
<1>15. ASSUME NEW r \in Requests, StartTask(r)
      PROVE  IInv'
  BY <1>15 DEF StartTask, WorkerOnly, Alive
<1>16. ASSUME NEW r \in Requests, ReadRequest(r)
      PROVE  IInv'
  BY <1>16 DEF ReadRequest, WorkerOnly, Finish, Alive
<1>17. ASSUME NEW r \in Requests, HandleRequest(r)
      PROVE  IInv'
  <2>1. CASE kind[r] = "plain" /\ Finish(r, "written")
    BY <1>17, <2>1 DEF HandleRequest, WorkerOnly, Finish, Alive
  <2>2. CASE kind[r] = "product" /\ Finish(r, "silent")
    BY <1>17, <2>2 DEF HandleRequest, WorkerOnly, Finish, Alive
  <2> QED
    BY <1>17, <2>1, <2>2 DEF HandleRequest
<1>18. ASSUME NEW r \in Requests, HandleDangling(r)
      PROVE  IInv'
  BY <1>18 DEF HandleDangling, Finish, Alive
<1>19. CASE UNCHANGED vars
  BY <1>19 DEF vars
<1> HIDE DEF TypeOK, Running, startup, threads
<1> QED
  BY <1>1, <1>2, <1>3, <1>4, <1>5, <1>6, <1>7, <1>8, <1>9, <1>10, <1>11,
     <1>12, <1>13, <1>14, <1>15, <1>16, <1>17, <1>18, <1>19
     DEF Next, Startup, Sweep, Closing, Callback, Worker

(* The invariant holds in every reachable state.                           *)
THEOREM Invariance == Spec => []IInv
  BY InitEstablishes, StepPreserves, PTL DEF Spec

-----------------------------------------------------------------------------
(* What it implies                                                         *)

(* main.cpp:64-118: a worker never reads a request that libevent may have  *)
(* freed, however the sweep and the workers interleave.                    *)
THEOREM RequestsAreOwned == Spec => []WorkerOwnsRequest
<1>1. IInv => WorkerOwnsRequest
  BY DEF IInv, TypeOK, TaskFollowsConn, WorkerOwnsRequest, Running
<1> QED
  BY <1>1, Invariance, PTL

(* main.cpp:237-255 with evHttpResponse.hpp:19-66: at most one             *)
(* evhttp_send_reply per request, and only of a response that was written. *)
THEOREM RepliesAreUnique == Spec => []AtMostOneReply
<1>1. IInv => AtMostOneReply
  BY DEF IInv, TypeOK, RepliesFollowConn, AtMostOneReply
<1> QED
  BY <1>1, Invariance, PTL

(* main.cpp:62 and 237-255: while the server serves, eventPool is the set  *)
(* of the requests it has yet to answer, without duplicates.               *)
THEOREM PoolIsExactAlways == Spec => []PoolIsExact
<1>1. IInv => PoolIsExact
  <2> SUFFICES ASSUME IInv, Serving
               PROVE  /\ ToSet(pool) = {r \in Requests : conn[r] = "held"}
                      /\ IsInjective(pool)
    BY DEF PoolIsExact
  <2>1. /\ DOMAIN pool = 1..Len(pool)
        /\ \A i \in 1..Len(pool) : pool[i] \in Requests
    BY LenProperties DEF IInv, TypeOK
  <2>2. IsInjective(pool)
    BY <2>1 DEF IInv, PoolFollowsConn, NoDuplicates, IsInjective
  <2>3. \A r \in Requests : conn[r] = "held" <=> r \in ToSet(pool)
    BY <2>1 DEF IInv, PoolFollowsConn, InPool, Holds, ToSet
  <2>4. ToSet(pool) \subseteq Requests
    BY <2>1 DEF ToSet
  <2> QED
    BY <2>2, <2>3, <2>4
<1> QED
  BY <1>1, Invariance, PTL

(* main.cpp:237-255: erasing while iterating skips no entry.               *)
THEOREM SweepsAreExact == Spec => []SweepIsExact
<1>1. IInv => SweepIsExact
  BY DEF IInv
<1> QED
  BY <1>1, Invariance, PTL

(* main.cpp:45: the process outlives every task it started, unless it is   *)
(* terminated.  An exit needs an empty list, and a list that is empty      *)
(* holds no running task.                                                  *)
ExitNeedsEmptyPool == main = "exited" => pool = <<>>

(* When main() exits, no worker runs any more.                             *)
THEOREM WorkersAreJoined == Spec => []ExitJoinsWorkers
<1>1. Init => ExitNeedsEmptyPool
  BY DEF Init, ExitNeedsEmptyPool
<1>2. ExitNeedsEmptyPool /\ [Next]_vars => ExitNeedsEmptyPool'
  BY DEF ExitNeedsEmptyPool, Next, vars, Startup, Sweep, Closing, Callback, Worker,
         InitProductHandler, BindSucceeds, BindFails, LoopFails, LoopReturns,
         VisitRunning, VisitWritten, VisitSilent, VisitThrows, Visit, SweepEnds,
         JoinFront, Exit, Deliver, SendDone, StartTask, ReadRequest,
         HandleRequest, HandleDangling, WorkerOnly, Return
<1>3. IInv /\ ExitNeedsEmptyPool => ExitJoinsWorkers
  BY EmptyHolds DEF IInv, PoolFollowsConn, InPool, ExitNeedsEmptyPool, ExitJoinsWorkers
<1> QED
  BY <1>1, <1>2, <1>3, Invariance, PTL DEF Spec

-----------------------------------------------------------------------------
(* Server implements RequestService                                        *)

(* Every initial state of the program is one of the service.               *)
LEMMA InitImplements == Init => Service!Init
  BY DEF Init, Service!Init, StageOf, ServiceOf

(* What a client cannot see: neither a connection nor the service moves.   *)
LEMMA Invisible ==
  UNCHANGED <<kind, conn>> /\ ServiceOf(main') = ServiceOf(main)
    => UNCHANGED Service!vars
  BY DEF Service!vars

(* Every step of the program is a step of the service, or changes nothing  *)
(* that a client can see (the whole of main.cpp's request path).           *)
LEMMA StepImplements == IInv /\ [Next]_vars => [Service!Next]_(Service!vars)
<1> SUFFICES ASSUME IInv, [Next]_vars
             PROVE  [Service!Next]_(Service!vars)
  OBVIOUS
<1> USE DEF StageOf, ServiceOf, Service!vars
<1>1. CASE InitProductHandler
  <2>1. UNCHANGED <<kind, conn>> /\ main = "init" /\ main' \in {"bind", "closing"}
    BY <1>1 DEF InitProductHandler, Return
  <2> QED
    BY <2>1 DEF Service!Next, Service!FailToStart, Service!Become
<1>2. CASE BindSucceeds
  BY <1>2 DEF BindSucceeds, Service!Next, Service!Open
<1>3. CASE BindFails
  BY <1>3 DEF BindFails, Return, Service!Next, Service!FailToStart, Service!Become
<1>4. CASE LoopFails
  BY <1>4 DEF LoopFails, Return, Service!Next, Service!BreakLoop, Service!Become
<1>5. CASE LoopReturns \/ SweepEnds
  <2>1. UNCHANGED <<kind, conn>> /\ ServiceOf(main') = ServiceOf(main)
    BY <1>5 DEF LoopReturns, SweepEnds, startup, threads
  <2> QED
    BY <2>1, Invisible
<1>6. CASE VisitRunning \/ VisitSilent
  <2>1. UNCHANGED <<kind, conn>> /\ ServiceOf(main') = ServiceOf(main)
    BY <1>6 DEF VisitRunning, VisitSilent, Visit, startup, threads
  <2> QED
    BY <2>1, Invisible
<1>7. CASE VisitWritten
  <2>1. PICK r \in Requests : r = pool[it]
    BY <1>7, LenProperties DEF IInv, TypeOK, VisitWritten, Visit
  <2>2. conn[r] = "held" /\ kind[r] = "plain"
    BY <1>7, <2>1 DEF VisitWritten, Visit, Current, IInv, TypeOK, TaskFollowsConn,
                      OutcomeFollowsKind, Serving
  <2>3. /\ conn' = [conn EXCEPT ![r] = "sending"]
        /\ main = "sweep" /\ UNCHANGED <<main, kind>>
    BY <1>7, <2>1 DEF VisitWritten, Visit, Current, SendReply
  <2>4. Service!Answer(r)
    BY <2>2, <2>3 DEF Service!Answer, Service!Move, IInv, TypeOK
  <2> QED
    BY <2>4 DEF Service!Next
<1>8. CASE VisitThrows
  <2>1. PICK r \in Requests : r = pool[it]
    BY <1>8, LenProperties DEF IInv, TypeOK, VisitThrows, Visit
  <2>2. conn[r] = "held" /\ kind[r] # "plain"
    BY <1>8, <2>1 DEF VisitThrows, Visit, Current, IInv, TypeOK, TaskFollowsConn,
                      OutcomeFollowsKind, Serving
  <2>3. /\ main = "sweep" /\ main' = "terminated"
        /\ UNCHANGED <<kind, conn>>
    BY <1>8 DEF VisitThrows, Visit
  <2>4. Service!StopForFault
    BY <2>1, <2>2, <2>3 DEF Service!StopForFault, Service!Unanswerable, Service!Become
  <2> QED
    BY <2>4 DEF Service!Next
<1>9. CASE JoinFront \/ Exit
  <2>1. UNCHANGED <<kind, conn>> /\ ServiceOf(main') = ServiceOf(main)
    BY <1>9 DEF JoinFront, Exit, startup, threads
  <2> QED
    BY <2>1, Invisible
<1>10. ASSUME NEW r \in Requests, Deliver(r)
       PROVE  [Service!Next]_(Service!vars)
  <2>1. Service!Accept(r)
    BY <1>10 DEF Deliver, Service!Accept, Service!Move, IInv, TypeOK
  <2> QED
    BY <2>1 DEF Service!Next
<1>11. ASSUME NEW r \in Requests, SendDone(r)
       PROVE  [Service!Next]_(Service!vars)
  BY <1>11 DEF SendDone, IInv, TypeOK
<1>12. ASSUME NEW r \in Requests,
              StartTask(r) \/ ReadRequest(r) \/ HandleRequest(r)
       PROVE  [Service!Next]_(Service!vars)
  <2>1. UNCHANGED <<kind, conn>> /\ ServiceOf(main') = ServiceOf(main)
    BY <1>12 DEF StartTask, ReadRequest, HandleRequest, WorkerOnly, startup, threads
  <2> QED
    BY <2>1, Invisible
<1>13. ASSUME NEW r \in Requests, HandleDangling(r)
       PROVE  [Service!Next]_(Service!vars)
  <2>1. main = "closing"
    BY <1>13 DEF HandleDangling, Alive, IInv, TypeOK, RouterAliveInside, Started, Serving
  <2>2. main' \in {main, "terminated"} /\ UNCHANGED <<kind, conn>>
    BY <1>13 DEF HandleDangling
  <2>3. CASE main' = main
    BY <2>2, <2>3
  <2>4. CASE main' = "terminated"
    <3>1. conn[r] = "held"
      BY <1>13 DEF HandleDangling, IInv, TypeOK, TaskFollowsConn
    <3>2. Service!Unanswered
      BY <3>1 DEF Service!Unanswered
    <3>3. Service!CrashAfterClose
      BY <2>1, <2>2, <2>4, <3>2 DEF Service!CrashAfterClose, Service!Become
    <3> QED
      BY <3>3 DEF Service!Next
  <2> QED
    BY <2>2, <2>3, <2>4
<1>14. CASE UNCHANGED vars
  BY <1>14 DEF vars
<1> QED
  BY <1>1, <1>2, <1>3, <1>4, <1>5, <1>6, <1>7, <1>8, <1>9, <1>10, <1>11, <1>12,
     <1>13, <1>14
     DEF Next, Startup, Sweep, Closing, Callback, Worker

(* The safety half of ImplementsService, for every value of the constants: *)
(* a reply only to an accepted answerable request, once, while up; a way   *)
(* down only for a start that fails, a loop that breaks or a request that  *)
(* cannot be answered; and once closed, a crash only while a request is    *)
(* left whose worker goes on without its router.                           *)
THEOREM ServerImplementsService ==
  Spec => Service!Init /\ [][Service!Next]_(Service!vars)
  BY InitImplements, StepImplements, Invariance, PTL DEF Spec
=============================================================================
