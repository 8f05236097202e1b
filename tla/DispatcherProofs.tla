-------------------------- MODULE DispatcherProofs --------------------------
(***************************************************************************)
(* Proofs about the Dispatcher and about Decay, the loop over the decaying *)
(* items that it runs every 250 ms; neither touches the other's state.     *)
(*                                                                         *)
(* The dispatcher, for any tasks and threads: the types, that no wake-up   *)
(* is lost, and that tasks are settled in the order in which they were     *)
(* added, each of them once.  The last needs an invariant that follows a   *)
(* task from addTask to its end: on the list, in the hand of the thread,   *)
(* settled.                                                                *)
(*                                                                         *)
(* Decay, for any items, types and durations: the types, the references    *)
(* of the decaying items, their marks, and that they decay on time.        *)
(***************************************************************************)
EXTENDS Dispatcher, Decay, SequenceTheorems, TLAPS

----------------------------------------------------------------------------
(* The dispatcher: what happens to its list                                *)

\* push_front moves all others back by one.
LEMMA FrontOf ==
  ASSUME NEW s \in Seq(Tasks), NEW k \in Tasks
  PROVE  LET t == <<k>> \o s
         IN  /\ t \in Seq(Tasks)
             /\ Len(t) = Len(s) + 1
             /\ t[1] = k
             /\ \A i \in 2..Len(t) : t[i] = s[i - 1]
OBVIOUS

\* push_back leaves the others where they are.
LEMMA BackOf ==
  ASSUME NEW s \in Seq(Tasks), NEW k \in Tasks
  PROVE  LET t == Append(s, k)
         IN  /\ t \in Seq(Tasks)
             /\ Len(t) = Len(s) + 1
             /\ t[Len(t)] = k
             /\ \A i \in 1..Len(s) : t[i] = s[i]
OBVIOUS

\* pop_front takes the first one away.
LEMMA RestOf ==
  ASSUME NEW s \in Seq(Tasks), s # <<>>
  PROVE  /\ Tail(s) \in Seq(Tasks)
         /\ Len(s) \in Nat \ {0}
         /\ Len(Tail(s)) = Len(s) - 1
         /\ Head(s) = s[1]
         /\ s[1] \in Tasks
         /\ \A i \in 1..Len(s) - 1 : Tail(s)[i] = s[i + 1]
OBVIOUS

----------------------------------------------------------------------------
(* Types                                                                   *)

TInv == TypeOK /\ (pc = "taken" => task \in Tasks)

\* The types hold at the start.
LEMMA TInvInit == Init => TInv
BY DEF Init, TInv, TypeOK, States, Places, Fates

\* Every step keeps the types, and a task in the hand of the thread is one.
LEMMA TInvStep == TInv /\ [Next]_(vars) => TInv'
<1> SUFFICES ASSUME TInv, [Next]_(vars) PROVE TInv'
  OBVIOUS
<1> USE DEF TInv, TypeOK, States, Places, Fates
<1>1. ASSUME NEW t \in Threads \cup {Self}, NEW k \in Tasks,
             NEW front \in BOOLEAN, NEW ms \in BOOLEAN, AddTask(t, k, front, ms)
      PROVE  TInv'
  <2>1. taskList' \in Seq(Tasks)
    BY <1>1, FrontOf, BackOf DEF AddTask, Insert
  <2>2. added' \in Seq(Tasks)
    BY <1>1, BackOf DEF AddTask
  <2>3. /\ UNCHANGED <<threadState, expired, pc, task, ran>>
        /\ perishable' \in SUBSET Tasks /\ perishable \subseteq perishable'
        /\ signalling' \in SUBSET (Threads \cup {Self})
        /\ fate' \in [Tasks -> Fates]
    BY <1>1 DEF AddTask
  <2> QED BY <2>1, <2>2, <2>3
<1>2. ASSUME NEW t \in Threads \cup {Self}, NEW k \in Tasks, RefuseTask(t, k) PROVE TInv'
  BY <1>2 DEF RefuseTask, fields
<1>3. ASSUME NEW t \in Threads \cup {Self}, Notify(t) PROVE TInv'
  BY <1>3 DEF Notify, fields, history
<1>4. CASE Stop \/ Shutdown
  BY <1>4 DEF Stop, Shutdown, history
<1>5. CASE TestState \/ Wait \/ SpuriousWakeup \/ NothingToTake
  BY <1>5 DEF TestState, Wait, SpuriousWakeup, NothingToTake, fields, history
<1>6. CASE Take
  <2>1. taskList' \in Seq(Tasks) /\ task' \in Tasks
    BY <1>6, RestOf DEF Take, MayTake, Rest
  <2> QED BY <1>6, <2>1 DEF Take, history
<1>7. CASE Run
  <2>1. ran' \in Seq(Tasks)
    BY <1>7, BackOf DEF Run
  <2> QED BY <1>7, <2>1 DEF Run, Became, fields
<1>8. CASE Skip
  BY <1>8 DEF Skip, Became, fields
<1>9. CASE FlushNext
  <2>1. taskList' \in Seq(Tasks) /\ Head(taskList) \in Tasks
    BY <1>9, RestOf DEF FlushNext, Rest
  <2>2. ran' \in Seq(Tasks)
    BY <1>9, <2>1, BackOf DEF FlushNext
  <2> QED BY <1>9, <2>1, <2>2 DEF FlushNext, Became
<1>10. CASE Return \/ FlushReturn \/ FlushEnd \/ BlockOnOwnLock
  BY <1>10 DEF Return, FlushReturn, FlushEnd, BlockOnOwnLock, fields, history
<1>11. ASSUME NEW k \in Tasks, Expire(k) PROVE TInv'
  BY <1>11 DEF Expire, fields, history
<1>12. CASE UNCHANGED vars
  BY <1>12 DEF vars, fields, history
<1> HIDE DEF TInv, TypeOK, States, Places, Fates
<1> QED BY <1>1, <1>2, <1>3, <1>4, <1>5, <1>6, <1>7, <1>8, <1>9, <1>10, <1>11, <1>12
        DEF Next, DispatcherThread, Callers

\* Every reachable state of the dispatcher is well typed, for any tasks and any
\* threads that add them.
THEOREM TasksTyped == Spec => []TypeOK
<1>1. TInv => TypeOK
  BY DEF TInv
<1> QED BY TInvInit, TInvStep, <1>1, PTL DEF Spec

----------------------------------------------------------------------------
(* No wake-up is lost                                                      *)

\* Who finds the list empty signals, and every step keeps it so.
LEMMA TaskWakeupStep == TypeOK /\ NoLostWakeup /\ [Next]_(vars) => NoLostWakeup'
<1> SUFFICES ASSUME TypeOK, NoLostWakeup, [Next]_(vars) PROVE NoLostWakeup'
  OBVIOUS
<1> USE DEF NoLostWakeup
<1>1. ASSUME NEW t \in Threads \cup {Self}, NEW k \in Tasks,
             NEW front \in BOOLEAN, NEW ms \in BOOLEAN, AddTask(t, k, front, ms)
      PROVE  NoLostWakeup'
  BY <1>1 DEF AddTask, Signals
<1>2. ASSUME NEW t \in Threads \cup {Self}, NEW k \in Tasks, RefuseTask(t, k)
      PROVE  NoLostWakeup'
  BY <1>2 DEF RefuseTask, fields
<1>3. ASSUME NEW t \in Threads \cup {Self}, Notify(t) PROVE NoLostWakeup'
  BY <1>3 DEF Notify, fields
<1>4. CASE Stop \/ Shutdown
  BY <1>4 DEF Stop, Shutdown
<1>5. CASE DispatcherThread
  BY <1>5
     DEF DispatcherThread, TestState, Wait, Take, NothingToTake, Run, Skip, Return,
              FlushNext, FlushReturn, FlushEnd, fields
<1>6. CASE SpuriousWakeup \/ BlockOnOwnLock
  BY <1>6 DEF SpuriousWakeup, BlockOnOwnLock
<1>7. ASSUME NEW k \in Tasks, Expire(k) PROVE NoLostWakeup'
  BY <1>7 DEF Expire, fields
<1>8. CASE UNCHANGED vars
  BY <1>8 DEF vars, fields
<1> QED BY <1>1, <1>2, <1>3, <1>4, <1>5, <1>6, <1>7, <1>8 DEF Next, Callers

\* The thread never sleeps on a list with tasks once every caller of addTask has
\* notified, though addTask signals only when it finds the list empty.
THEOREM TaskNotMissed == Spec => []NoLostWakeup
<1>1. Init => NoLostWakeup
  BY DEF Init, NoLostWakeup
<1> QED BY <1>1, TaskWakeupStep, TasksTyped, PTL DEF Spec

----------------------------------------------------------------------------
(* Order                                                                   *)

OnList(k) == \E a \in DOMAIN taskList : taskList[a] = k
InHand(k) == pc = "taken" /\ task = k

\* A task that waits is at one place: once on the list, or in the thread's hand.
PlaceInv ==
  /\ \A k \in Tasks : fate[k] = "queued" <=> OnList(k) \/ InHand(k)
  /\ \A k \in Tasks : ~(OnList(k) /\ InHand(k))
  /\ \A a, b \in DOMAIN taskList : taskList[a] = taskList[b] => a = b

HistoryInv ==
  /\ \A i \in DOMAIN added : fate[added[i]] \notin {"new", "refused"}
  /\ \A i, j \in DOMAIN added : added[i] = added[j] => i = j
  /\ \A i \in DOMAIN ran : fate[ran[i]] = "run"

\* The tasks added at the back are on the list in the order of their addTask,
\* and all that were added before the one in hand are settled.
OrderInv ==
  /\ \A i, j \in DOMAIN added : \A a, b \in DOMAIN taskList :
       i < j /\ added[i] = taskList[a] /\ added[j] = taskList[b] => a < b
  /\ \A i, j \in DOMAIN added : i < j /\ InHand(added[j]) => Settled(added[i])

OInv == TInv /\ PlaceInv /\ HistoryInv /\ OrderInv /\ InOrder

\* At the start there are no tasks.
LEMMA OInvInit == Init => OInv
<1> SUFFICES ASSUME Init PROVE OInv
  OBVIOUS
<1>1. TInv
  BY TInvInit
<1>2. PlaceInv /\ HistoryInv /\ OrderInv /\ InOrder
  BY DEF Init, PlaceInv, HistoryInv, OrderInv, InOrder, OnList, InHand
<1> QED BY <1>1, <1>2 DEF OInv

\* A step that moves no task.
LEMMA FrameKeeps ==
  ASSUME OInv, TInv', UNCHANGED <<taskList, fate, added, ran>>,
         \A k \in Tasks : InHand(k)' <=> InHand(k)
  PROVE  OInv'
<1>1. PlaceInv'
  BY DEF OInv, PlaceInv, OnList
<1>2. HistoryInv'
  BY DEF OInv, HistoryInv
<1>3. \A i \in DOMAIN added : added[i] \in Tasks
  BY DEF OInv, TInv, TypeOK
<1>4. OrderInv'
  BY <1>3 DEF OInv, OrderInv, Settled
<1>5. InOrder'
  BY DEF OInv, InOrder, Settled
<1> QED BY <1>1, <1>2, <1>4, <1>5 DEF OInv

\* addTask, at the front or at the back.
LEMMA AddKeeps ==
  ASSUME OInv, TInv', NEW t \in Threads \cup {Self}, NEW k \in Tasks,
         NEW front \in BOOLEAN, NEW ms \in BOOLEAN, AddTask(t, k, front, ms)
  PROVE  OInv'
<1> USE DEF TInv, TypeOK
<1>1. /\ fate[k] = "new"
      /\ fate' = [fate EXCEPT ![k] = "queued"]
      /\ pc' = pc /\ task' = task /\ ran' = ran
      /\ taskList \in Seq(Tasks) /\ added \in Seq(Tasks) /\ ran \in Seq(Tasks)
      /\ fate \in [Tasks -> Fates]
  BY DEF AddTask, OInv
<1>2. ~OnList(k) /\ ~InHand(k)
  BY <1>1 DEF OInv, PlaceInv
<1>3. \A i \in DOMAIN added : added[i] \in Tasks \ {k}
  BY <1>1 DEF OInv, HistoryInv
<1>4. \A i \in DOMAIN ran : ran[i] \in Tasks \ {k}
  BY <1>1 DEF OInv, HistoryInv
<1>5. \A l \in Tasks : InHand(l)' <=> InHand(l)
  BY <1>1 DEF InHand
<1>6. CASE front
  <2>1. /\ taskList' \in Seq(Tasks)
        /\ Len(taskList') = Len(taskList) + 1
        /\ taskList'[1] = k
        /\ \A i \in 2..Len(taskList') : taskList'[i] = taskList[i - 1]
        /\ added' = added
    BY <1>1, <1>6, FrontOf DEF AddTask, Insert
  <2>a. \A a \in DOMAIN taskList' :
          a = 1 \/ (a - 1 \in DOMAIN taskList /\ taskList'[a] = taskList[a - 1])
    BY <1>1, <2>1
  <2>b. \A a \in DOMAIN taskList : a + 1 \in DOMAIN taskList' /\ taskList'[a + 1] = taskList[a]
    BY <1>1, <2>1
  <2>c. 1 \in DOMAIN taskList' /\ DOMAIN taskList \subseteq Nat /\ DOMAIN taskList' \subseteq Nat
    BY <1>1, <2>1
  <2>d. \A a \in DOMAIN taskList : taskList[a] \in Tasks \ {k}
    BY <1>1, <1>2 DEF OnList
  <2>2. PlaceInv'
    <3>1. \A l \in Tasks : OnList(l)' <=> l = k \/ OnList(l)
      <4>1. ASSUME NEW l \in Tasks, NEW a \in DOMAIN taskList', taskList'[a] = l
            PROVE  l = k \/ OnList(l)
        BY <4>1, <2>1, <2>a DEF OnList
      <4>2. ASSUME NEW l \in Tasks, NEW a \in DOMAIN taskList, taskList[a] = l
            PROVE  OnList(l)'
        <5>1. a + 1 \in DOMAIN taskList' /\ taskList'[a + 1] = l
          BY <4>2, <2>b
        <5> QED BY <5>1 DEF OnList
      <4>3. OnList(k)'
        BY <2>1, <2>c DEF OnList
      <4> QED BY <4>1, <4>2, <4>3 DEF OnList
    <3>2. \A a, b \in DOMAIN taskList' : taskList'[a] = taskList'[b] => a = b
      <4> SUFFICES ASSUME NEW a \in DOMAIN taskList', NEW b \in DOMAIN taskList',
                          taskList'[a] = taskList'[b]
                   PROVE  a = b
        OBVIOUS
      <4>1. CASE a = 1 \/ b = 1
        BY <4>1, <2>1, <2>a, <2>d
      <4>2. CASE a # 1 /\ b # 1
        <5>1. a - 1 = b - 1
          BY <4>2, <2>a DEF OInv, PlaceInv
        <5> QED BY <5>1, <2>c
      <4> QED BY <4>1, <4>2
    <3>3. \A l \in Tasks : fate'[l] = "queued" <=> l = k \/ fate[l] = "queued"
      BY <1>1
    <3> QED BY <1>2, <1>5, <3>1, <3>2, <3>3 DEF OInv, PlaceInv
  <2>3. HistoryInv'
    BY <1>1, <1>3, <1>4, <2>1 DEF OInv, HistoryInv
  <2>4. OrderInv'
    <3>1. ASSUME NEW i \in DOMAIN added, NEW j \in DOMAIN added,
                 NEW a \in DOMAIN taskList', NEW b \in DOMAIN taskList',
                 i < j, added[i] = taskList'[a], added[j] = taskList'[b]
          PROVE  a < b
      <4>1. a # 1 /\ b # 1
        BY <3>1, <1>3, <2>1
      <4>2. a - 1 < b - 1
        BY <3>1, <4>1, <2>a DEF OInv, OrderInv
      <4> QED BY <4>2, <2>c
    <3>2. \A i, j \in DOMAIN added : i < j /\ InHand(added[j])' => Settled(added[i])'
      BY <1>1, <1>3, <1>5, <2>1 DEF OInv, OrderInv, Settled
    <3> QED BY <2>1, <3>1, <3>2 DEF OrderInv, InHand
  <2>5. InOrder'
    BY <1>1, <1>3, <2>1 DEF OInv, InOrder, Settled
  <2> QED BY <2>2, <2>3, <2>4, <2>5 DEF OInv
<1>7. CASE ~front
  <2>1. /\ taskList' \in Seq(Tasks)
        /\ Len(taskList') = Len(taskList) + 1
        /\ taskList'[Len(taskList')] = k
        /\ \A i \in 1..Len(taskList) : taskList'[i] = taskList[i]
        /\ added' \in Seq(Tasks)
        /\ Len(added') = Len(added) + 1
        /\ added'[Len(added')] = k
        /\ \A i \in 1..Len(added) : added'[i] = added[i]
    BY <1>1, <1>7, BackOf DEF AddTask, Insert
  <2> DEFINE m == Len(taskList)
             n == Len(added)
  <2>a. /\ m \in Nat /\ n \in Nat
        /\ DOMAIN taskList = 1..m /\ DOMAIN taskList' = 1..m + 1
        /\ DOMAIN added = 1..n /\ DOMAIN added' = 1..n + 1
    BY <1>1, <2>1
  <2>b. taskList'[m + 1] = k /\ added'[n + 1] = k
    BY <2>1
  <2>c. \A a \in 1..m : taskList'[a] = taskList[a] /\ taskList[a] \in Tasks \ {k}
    <3>1. \A a \in 1..m : taskList'[a] = taskList[a]
      BY <2>1
    <3> HIDE DEF m, n
    <3>2. \A a \in 1..m : taskList[a] \in Tasks
      BY <1>1, <2>a
    <3>3. \A a \in 1..m : taskList[a] # k
      BY <1>2, <2>a DEF OnList
    <3> QED BY <3>1, <3>2, <3>3
  <2>d. \A i \in 1..n : added'[i] = added[i] /\ added[i] \in Tasks \ {k}
    BY <1>3, <2>1, <2>a
  <2>e. \A i \in 1..n + 1 : i = n + 1 \/ i \in 1..n
    BY <2>a
  <2>f. \A a \in 1..m + 1 : a = m + 1 \/ a \in 1..m
    BY <2>a
  <2>g. (\A a \in 1..m : a < m + 1 /\ a \in 1..m + 1) /\ m + 1 \in 1..m + 1
    BY <2>a
  <2> HIDE DEF m, n
  <2>2. PlaceInv'
    <3>1. \A l \in Tasks : OnList(l)' <=> l = k \/ OnList(l)
      BY <2>a, <2>b, <2>c, <2>f, <2>g DEF OnList
    <3>2. \A a, b \in DOMAIN taskList' : taskList'[a] = taskList'[b] => a = b
      BY <2>a, <2>b, <2>c, <2>f DEF OInv, PlaceInv
    <3>3. \A l \in Tasks : fate'[l] = "queued" <=> l = k \/ fate[l] = "queued"
      BY <1>1
    <3> QED BY <1>2, <1>5, <3>1, <3>2, <3>3 DEF OInv, PlaceInv
  <2>3. HistoryInv'
    <3>1. \A i \in DOMAIN added' : fate'[added'[i]] \notin {"new", "refused"}
      BY <1>1, <2>a, <2>b, <2>d, <2>e DEF OInv, HistoryInv
    <3>2. \A i, j \in DOMAIN added' : added'[i] = added'[j] => i = j
      BY <2>a, <2>b, <2>d, <2>e DEF OInv, HistoryInv
    <3>3. \A i \in DOMAIN ran' : fate'[ran'[i]] = "run"
      BY <1>1, <1>4 DEF OInv, HistoryInv
    <3> QED BY <3>1, <3>2, <3>3 DEF HistoryInv
  <2>4. OrderInv'
    <3>1. ASSUME NEW i \in DOMAIN added', NEW j \in DOMAIN added',
                 NEW a \in DOMAIN taskList', NEW b \in DOMAIN taskList',
                 i < j, added'[i] = taskList'[a], added'[j] = taskList'[b]
          PROVE  a < b
      <4>1. i \in 1..n
        BY <3>1, <2>a
      <4>2. a \in 1..m /\ added[i] = taskList[a]
        BY <3>1, <4>1, <2>a, <2>b, <2>c, <2>d, <2>f
      <4>3. CASE j = n + 1
        <5>1. b = m + 1
          BY <3>1, <4>3, <2>a, <2>b, <2>c, <2>f
        <5> QED BY <4>2, <5>1, <2>g
      <4>4. CASE j # n + 1
        <5>1. j \in 1..n /\ b \in 1..m /\ added[j] = taskList[b]
          BY <3>1, <4>4, <2>a, <2>b, <2>c, <2>d, <2>e, <2>f
        <5> QED BY <3>1, <4>1, <4>2, <5>1, <2>a DEF OInv, OrderInv
      <4> QED BY <4>3, <4>4
    <3>2. ASSUME NEW i \in DOMAIN added', NEW j \in DOMAIN added', i < j, InHand(added[j])'
          PROVE  Settled(added[i])'
      <4>1. i \in 1..n /\ added'[i] = added[i] /\ added[i] \in Tasks \ {k}
        BY <3>2, <2>a, <2>d
      <4>2. j \in 1..n /\ InHand(added[j])
        <5>1. added'[j] # k
          BY <1>1, <1>2, <3>2 DEF InHand
        <5> QED BY <1>1, <3>2, <5>1, <2>a, <2>b, <2>d, <2>e DEF InHand
      <4>3. Settled(added[i])
        BY <3>2, <4>1, <4>2, <2>a DEF OInv, OrderInv
      <4> QED BY <1>1, <4>1, <4>3 DEF Settled
    <3> QED BY <3>1, <3>2 DEF OrderInv, InHand
  <2>5. InOrder'
    <3>1. ASSUME NEW i \in DOMAIN added', NEW j \in DOMAIN added', i < j, Settled(added[j])'
          PROVE  Settled(added[i])'
      <4>1. i \in 1..n /\ added'[i] = added[i] /\ added[i] \in Tasks \ {k}
        BY <3>1, <2>a, <2>d
      <4>2. j \in 1..n /\ added'[j] = added[j] /\ Settled(added[j])
        BY <1>1, <3>1, <2>a, <2>b, <2>d, <2>e DEF Settled
      <4>3. Settled(added[i])
        BY <3>1, <4>1, <4>2, <2>a DEF OInv, InOrder
      <4> QED BY <1>1, <4>1, <4>3 DEF Settled
    <3>2. \A i, j \in DOMAIN ran' : i # j => ran'[i] # ran'[j]
      BY <1>1 DEF OInv, InOrder
    <3> QED BY <3>1, <3>2 DEF InOrder
  <2> QED BY <2>2, <2>3, <2>4, <2>5 DEF OInv
<1> QED BY <1>6, <1>7
\* The first task leaves the list: all tasks added before it are settled.
LEMMA RestKeeps ==
  ASSUME OInv, taskList # <<>>, taskList' = Rest, pc # "taken"
  PROVE  LET k == Head(taskList)
         IN  /\ k \in Tasks
             /\ fate[k] = "queued"
             /\ \A l \in Tasks : OnList(l)' <=> OnList(l) /\ l # k
             /\ \A a, b \in DOMAIN taskList' : taskList'[a] = taskList'[b] => a = b
             /\ \A i, j \in DOMAIN added : \A a, b \in DOMAIN taskList' :
                  i < j /\ added[i] = taskList'[a] /\ added[j] = taskList'[b] => a < b
             /\ \A i, j \in DOMAIN added : i < j /\ added[j] = k => Settled(added[i])
<1> DEFINE k == Head(taskList)
           m == Len(taskList)
<1>1. /\ taskList \in Seq(Tasks) /\ added \in Seq(Tasks)
      /\ fate \in [Tasks -> Fates]
      /\ PlaceInv /\ HistoryInv /\ OrderInv
  BY DEF OInv, TInv, TypeOK
<1>2. /\ taskList' \in Seq(Tasks)
      /\ m \in Nat \ {0}
      /\ Len(taskList') = m - 1
      /\ k = taskList[1]
      /\ k \in Tasks
      /\ \A i \in 1..m - 1 : taskList'[i] = taskList[i + 1]
  BY <1>1, RestOf DEF Rest
<1>3. DOMAIN taskList = 1..m /\ DOMAIN taskList' = 1..m - 1
  BY <1>1, <1>2
<1> HIDE DEF k, m
<1>4. /\ 1 \in 1..m
      /\ \A a \in 1..m - 1 : a + 1 \in 1..m /\ a + 1 # 1 /\ a \in Int
      /\ \A a \in 1..m : a # 1 => a - 1 \in 1..m - 1 /\ (a - 1) + 1 = a
  BY <1>2
<1>5. fate[k] = "queued" /\ OnList(k)
  BY <1>1, <1>2, <1>3, <1>4 DEF PlaceInv, OnList
<1>6. \A a, b \in 1..m : taskList[a] = taskList[b] => a = b
  BY <1>1, <1>3 DEF PlaceInv
<1>7. ASSUME NEW l \in Tasks PROVE OnList(l)' <=> OnList(l) /\ l # k
  <2>1. ASSUME NEW a \in 1..m - 1, taskList'[a] = l PROVE OnList(l) /\ l # k
    <3>1. a + 1 \in 1..m /\ a + 1 # 1 /\ taskList[a + 1] = l
      BY <2>1, <1>2, <1>4
    <3> QED BY <3>1, <1>2, <1>3, <1>4, <1>6 DEF OnList
  <2>2. ASSUME NEW a \in 1..m, taskList[a] = l, l # k PROVE OnList(l)'
    <3>1. a - 1 \in 1..m - 1 /\ taskList'[a - 1] = l
      BY <2>2, <1>2, <1>4
    <3> QED BY <3>1, <1>3 DEF OnList
  <2> QED BY <2>1, <2>2, <1>3 DEF OnList
<1>8. ASSUME NEW a \in DOMAIN taskList', NEW b \in DOMAIN taskList', taskList'[a] = taskList'[b]
      PROVE  a = b
  <2>1. a + 1 = b + 1
    BY <1>8, <1>2, <1>3, <1>4, <1>6
  <2> QED BY <2>1, <1>3, <1>4
<1>9. ASSUME NEW i \in DOMAIN added, NEW j \in DOMAIN added,
             NEW a \in DOMAIN taskList', NEW b \in DOMAIN taskList',
             i < j, added[i] = taskList'[a], added[j] = taskList'[b]
      PROVE  a < b
  <2>a. /\ a + 1 \in DOMAIN taskList /\ b + 1 \in DOMAIN taskList
        /\ added[i] = taskList[a + 1] /\ added[j] = taskList[b + 1]
    BY <1>9, <1>2, <1>3, <1>4
  <2>1. a + 1 < b + 1
    BY <1>9, <1>1, <2>a DEF OrderInv
  <2> QED BY <2>1, <1>3, <1>4
<1>10. ASSUME NEW i \in DOMAIN added, NEW j \in DOMAIN added, i < j, added[j] = k
       PROVE  Settled(added[i])
  <2>1. added[i] \in Tasks /\ fate[added[i]] \in Fates \ {"new", "refused"}
    BY <1>1 DEF HistoryInv
  <2>2. ~OnList(added[i])
    <3>1. ASSUME NEW a \in 1..m, taskList[a] = added[i] PROVE FALSE
      <4>1. a < 1
        BY <1>10, <3>1, <1>1, <1>2, <1>3, <1>4 DEF OrderInv
      <4> QED BY <4>1, <1>2
    <3> QED BY <3>1, <1>3 DEF OnList
  <2>3. fate[added[i]] # "queued"
    BY <2>1, <2>2, <1>1 DEF PlaceInv, InHand
  <2> QED BY <2>1, <2>3 DEF Settled, Fates
<1> QED BY <1>2, <1>5, <1>7, <1>8, <1>9, <1>10 DEF k

\* The thread takes the first task.
LEMMA TakeKeeps ==
  ASSUME OInv, TInv', Take
  PROVE  OInv'
<1> DEFINE k == Head(taskList)
<1>1. /\ taskList # <<>> /\ taskList' = Rest /\ pc # "taken"
      /\ pc' = "taken" /\ task' = k
      /\ fate' = fate /\ added' = added /\ ran' = ran
  BY DEF Take, HasLock, MayTake, history
<1>2. /\ k \in Tasks
      /\ fate[k] = "queued"
      /\ \A l \in Tasks : OnList(l)' <=> OnList(l) /\ l # k
      /\ \A a, b \in DOMAIN taskList' : taskList'[a] = taskList'[b] => a = b
      /\ \A i, j \in DOMAIN added : \A a, b \in DOMAIN taskList' :
           i < j /\ added[i] = taskList'[a] /\ added[j] = taskList'[b] => a < b
      /\ \A i, j \in DOMAIN added : i < j /\ added[j] = k => Settled(added[i])
  BY <1>1, RestKeeps
<1> HIDE DEF k
<1>3. \A l \in Tasks : ~InHand(l) /\ (InHand(l)' <=> l = k)
  BY <1>1 DEF InHand
<1>4. \A i \in DOMAIN added : added[i] \in Tasks
  BY DEF OInv, TInv, TypeOK
<1>5. PlaceInv'
  BY <1>1, <1>2, <1>3 DEF OInv, PlaceInv
<1>6. HistoryInv' /\ InOrder'
  BY <1>1 DEF OInv, HistoryInv, InOrder, Settled
<1>7. OrderInv'
  BY <1>1, <1>2, <1>3, <1>4 DEF OrderInv, Settled, InHand
<1> QED BY <1>5, <1>6, <1>7 DEF OInv

\* A waiting task is run: it had not been run before.
LEMMA RanOnce ==
  ASSUME OInv, NEW k \in Tasks, fate[k] = "queued",
         fate' = [fate EXCEPT ![k] = "run"], ran' = Append(ran, k)
  PROVE  /\ \A i \in DOMAIN ran' : fate'[ran'[i]] = "run"
         /\ \A i, j \in DOMAIN ran' : i # j => ran'[i] # ran'[j]
<1> DEFINE n == Len(ran)
<1>1. ran \in Seq(Tasks) /\ fate \in [Tasks -> Fates] /\ HistoryInv /\ InOrder
  BY DEF OInv, TInv, TypeOK
<1>2. /\ n \in Nat /\ DOMAIN ran = 1..n /\ DOMAIN ran' = 1..n + 1
      /\ ran'[n + 1] = k
      /\ \A i \in 1..n : ran'[i] = ran[i] /\ ran[i] \in Tasks
  BY <1>1, BackOf
<1> HIDE DEF n
<1>3. \A i \in 1..n : fate[ran[i]] = "run" /\ ran[i] # k
  BY <1>1, <1>2 DEF HistoryInv
<1>4. \A i \in 1..n + 1 : i = n + 1 \/ i \in 1..n
  BY <1>2
<1>5. \A i \in DOMAIN ran' : fate'[ran'[i]] = "run"
  BY <1>1, <1>2, <1>3, <1>4
<1>6. \A i, j \in DOMAIN ran' : i # j => ran'[i] # ran'[j]
  BY <1>1, <1>2, <1>3, <1>4 DEF InOrder
<1> QED BY <1>5, <1>6

\* The task in hand is run, or found expired.
LEMMA SettleKeeps ==
  ASSUME OInv, TInv', Run \/ Skip
  PROVE  OInv'
<1>1. /\ pc = "taken" /\ pc' # "taken" /\ task \in Tasks
      /\ fate' \in {[fate EXCEPT ![task] = "run"], [fate EXCEPT ![task] = "expired"]}
      /\ taskList' = taskList /\ added' = added
      /\ fate \in [Tasks -> Fates]
  BY DEF Run, Skip, Became, fields, OInv, TInv, TypeOK
<1>2. InHand(task) /\ (\A l \in Tasks : (InHand(l) <=> l = task) /\ ~InHand(l)')
  BY <1>1 DEF InHand
<1>3. fate[task] = "queued"
  BY <1>1, <1>2 DEF OInv, PlaceInv
<1>4. \A i \in DOMAIN added : added[i] \in Tasks
  BY DEF OInv, TInv, TypeOK
<1>5. \A l \in Tasks : l # task => fate'[l] = fate[l]
  BY <1>1
<1>6. fate'[task] \in {"run", "expired"}
  BY <1>1
<1>7. \A l \in Tasks : OnList(l)' <=> OnList(l)
  BY <1>1 DEF OnList
<1>8. PlaceInv'
  BY <1>1, <1>2, <1>5, <1>6, <1>7 DEF OInv, PlaceInv
<1>9. /\ \A i \in DOMAIN ran' : fate'[ran'[i]] = "run"
      /\ \A i, j \in DOMAIN ran' : i # j => ran'[i] # ran'[j]
  <2>1. CASE Run
    BY <2>1, <1>1, <1>3, RanOnce DEF Run, Became
  <2>2. CASE Skip
    <3>1. ran' = ran /\ \A i \in DOMAIN ran : ran[i] \in Tasks
      BY <2>2 DEF Skip, OInv, TInv, TypeOK
    <3> QED BY <3>1, <1>3, <1>5 DEF OInv, HistoryInv, InOrder
  <2> QED BY <2>1, <2>2
<1>10. HistoryInv'
  BY <1>1, <1>4, <1>5, <1>6, <1>9 DEF OInv, HistoryInv
<1>11. OrderInv'
  BY <1>1, <1>2, <1>4 DEF OInv, OrderInv
<1>12. \A l \in Tasks : Settled(l)' <=> Settled(l) \/ l = task
  BY <1>5, <1>6 DEF Settled
<1>13. InOrder'
  <2>1. \A i, j \in DOMAIN added : i < j /\ Settled(added[j])' => Settled(added[i])'
    BY <1>1, <1>2, <1>4, <1>12 DEF OInv, OrderInv, InOrder
  <2> QED BY <2>1, <1>1, <1>9 DEF InOrder
<1> QED BY <1>8, <1>10, <1>11, <1>13 DEF OInv

\* shutdown runs the first task of the list.
LEMMA FlushKeeps ==
  ASSUME OInv, TInv', FlushNext
  PROVE  OInv'
<1> DEFINE k == Head(taskList)
<1>1. /\ taskList # <<>> /\ taskList' = Rest
      /\ pc = "flush" /\ pc' = "flush_run"
      /\ fate' = [fate EXCEPT ![k] = "run"]
      /\ ran' = Append(ran, k)
      /\ added' = added
      /\ fate \in [Tasks -> Fates]
  BY DEF FlushNext, Became, OInv, TInv, TypeOK
<1>2. /\ k \in Tasks
      /\ fate[k] = "queued"
      /\ \A l \in Tasks : OnList(l)' <=> OnList(l) /\ l # k
      /\ \A a, b \in DOMAIN taskList' : taskList'[a] = taskList'[b] => a = b
      /\ \A i, j \in DOMAIN added : \A a, b \in DOMAIN taskList' :
           i < j /\ added[i] = taskList'[a] /\ added[j] = taskList'[b] => a < b
      /\ \A i, j \in DOMAIN added : i < j /\ added[j] = k => Settled(added[i])
  BY <1>1, RestKeeps
<1> HIDE DEF k
<1>3. \A l \in Tasks : ~InHand(l) /\ ~InHand(l)'
  BY <1>1 DEF InHand
<1>4. \A i \in DOMAIN added : added[i] \in Tasks
  BY DEF OInv, TInv, TypeOK
<1>5. \A l \in Tasks : fate'[l] = IF l = k THEN "run" ELSE fate[l]
  BY <1>1
<1>6. PlaceInv'
  BY <1>2, <1>3, <1>5 DEF OInv, PlaceInv
<1>7. /\ \A i \in DOMAIN ran' : fate'[ran'[i]] = "run"
      /\ \A i, j \in DOMAIN ran' : i # j => ran'[i] # ran'[j]
  BY <1>1, <1>2, RanOnce
<1>8. HistoryInv'
  BY <1>1, <1>4, <1>5, <1>7 DEF OInv, HistoryInv
<1>9. OrderInv'
  <2>1. \A i, j \in DOMAIN added : \A a, b \in DOMAIN taskList' :
          i < j /\ added[i] = taskList'[a] /\ added[j] = taskList'[b] => a < b
    BY <1>2
  <2>2. \A i, j \in DOMAIN added : ~InHand(added[j])'
    BY <1>1 DEF InHand
  <2> QED BY <1>1, <2>1, <2>2 DEF OrderInv
<1>10. \A l \in Tasks : Settled(l)' <=> Settled(l) \/ l = k
  BY <1>5 DEF Settled
<1>11. InOrder'
  <2>1. \A i, j \in DOMAIN added : i < j /\ Settled(added[j])' => Settled(added[i])'
    BY <1>1, <1>2, <1>4, <1>10 DEF OInv, InOrder
  <2> QED BY <2>1, <1>1, <1>7 DEF InOrder
<1> QED BY <1>6, <1>8, <1>9, <1>11 DEF OInv

\* A refused task is nowhere.
LEMMA RefuseKeeps ==
  ASSUME OInv, TInv', NEW t \in Threads \cup {Self}, NEW k \in Tasks, RefuseTask(t, k)
  PROVE  OInv'
<1>1. /\ fate[k] = "new" /\ fate' = [fate EXCEPT ![k] = "refused"]
      /\ UNCHANGED <<taskList, pc, task, added, ran>>
      /\ fate \in [Tasks -> Fates]
  BY DEF RefuseTask, fields, OInv, TInv, TypeOK
<1>2. /\ \A i \in DOMAIN added : added[i] \in Tasks \ {k}
      /\ \A i \in DOMAIN ran : ran[i] \in Tasks \ {k}
  BY <1>1 DEF OInv, HistoryInv, TInv, TypeOK
<1>3. \A l \in Tasks : fate'[l] = IF l = k THEN "refused" ELSE fate[l]
  BY <1>1
<1>4. PlaceInv'
  BY <1>1, <1>3 DEF OInv, PlaceInv, OnList, InHand
<1>5. HistoryInv'
  BY <1>1, <1>2, <1>3 DEF OInv, HistoryInv
<1>6. OrderInv'
  BY <1>1, <1>2, <1>3 DEF OInv, OrderInv, InHand, Settled
<1>7. InOrder'
  BY <1>1, <1>2, <1>3 DEF OInv, InOrder, Settled
<1> QED BY <1>4, <1>5, <1>6, <1>7 DEF OInv

\* Every step of the dispatcher keeps the invariant.
LEMMA OInvStep == OInv /\ [Next]_(vars) => OInv'
<1> SUFFICES ASSUME OInv, [Next]_(vars) PROVE OInv'
  OBVIOUS
<1>1. TInv'
  BY TInvStep DEF OInv
<1>2. ASSUME NEW t \in Threads \cup {Self}, NEW k \in Tasks,
             NEW front \in BOOLEAN, NEW ms \in BOOLEAN, AddTask(t, k, front, ms)
      PROVE  OInv'
  BY <1>1, <1>2, AddKeeps
<1>3. ASSUME NEW t \in Threads \cup {Self}, NEW k \in Tasks, RefuseTask(t, k) PROVE OInv'
  BY <1>1, <1>3, RefuseKeeps
<1>4. CASE Take
  BY <1>1, <1>4, TakeKeeps
<1>5. CASE Run \/ Skip
  BY <1>1, <1>5, SettleKeeps
<1>6. CASE FlushNext
  BY <1>1, <1>6, FlushKeeps
<1>7. ASSUME UNCHANGED <<taskList, fate, added, ran>>,
             UNCHANGED <<pc, task>> \/ (pc # "taken" /\ pc' # "taken")
      PROVE  OInv'
  BY <1>1, <1>7, FrameKeeps DEF InHand
<1>8. ASSUME NEW t \in Threads \cup {Self}, Notify(t) PROVE OInv'
  BY <1>7, <1>8 DEF Notify, fields, history
<1>9. CASE Stop \/ Shutdown
  BY <1>7, <1>9 DEF Stop, Shutdown, history
<1>10. CASE TestState \/ Wait \/ SpuriousWakeup \/ NothingToTake
  BY <1>7, <1>10
     DEF TestState, Wait, SpuriousWakeup, NothingToTake, HasLock, fields, history
<1>11. CASE Return \/ FlushReturn \/ FlushEnd \/ BlockOnOwnLock
  BY <1>7, <1>11 DEF Return, FlushReturn, FlushEnd, BlockOnOwnLock, fields, history
<1>12. ASSUME NEW k \in Tasks, Expire(k) PROVE OInv'
  BY <1>7, <1>12 DEF Expire, fields, history
<1>13. CASE UNCHANGED vars
  BY <1>7, <1>13 DEF vars, fields, history
<1> QED BY <1>2, <1>3, <1>4, <1>5, <1>6, <1>8, <1>9, <1>10, <1>11, <1>12, <1>13
        DEF Next, DispatcherThread, Callers

\* Tasks added at the back are settled in the order of their addTask, whatever
\* the Scheduler pushes in front and also by the flush of shutdown, and no task
\* is run twice.
THEOREM SettledInOrder == Spec => []InOrder
<1>1. OInv => InOrder
  BY DEF OInv
<1> QED BY OInvInit, OInvStep, <1>1, PTL DEF Spec

-----------------------------------------------------------------------------
(* Decaying items: the lists                                               *)

\* There are four buckets, and every computed bucket is one of them.
LEMMA FourBuckets == 0 .. Buckets - 1 = {0, 1, 2, 3}
BY DEF Buckets

LEMMA BucketsAgree ==
  ASSUME NEW b \in 0 .. Buckets - 1, NEW d \in Int
  PROVE  /\ After(b) \in {0, 1, 2, 3}
         /\ ShortBucket(b, d) \in {0, 1, 2, 3}
         /\ FreshBucket(b, d) \in {0, 1, 2, 3}
<1>1. \A n \in Int : n % 4 \in {0, 1, 2, 3}
  BY SMT
<1>2. After(b) \in {0, 1, 2, 3}
  BY <1>1 DEF After, Buckets
<1>3. ShortBucket(b, d) \in {0, 1, 2, 3}
  <2>1. b + ((d + Interval \div 2) \div 1000) \in Int
    BY DEF Interval, Buckets
  <2> QED  BY <1>1, <2>1 DEF ShortBucket, Buckets
<1>4. FreshBucket(b, d) \in {0, 1, 2, 3}
  <2>1. b + 1 + d \div 1000 \in Int
    BY DEF Buckets
  <2> QED  BY FourBuckets, <1>1, <2>1 DEF FreshBucket, Buckets
<1> QED  BY <1>2, <1>3, <1>4

\* The entries of an item are counted.
LEMMA EntriesCount ==
  ASSUME DecayTypeOK, NEW i \in Items
  PROVE  /\ fresh[i] \in Nat /\ todo[i] \in Nat
         /\ bucket[0][i] \in Nat /\ bucket[1][i] \in Nat
         /\ bucket[2][i] \in Nat /\ bucket[3][i] \in Nat
         /\ refs[i] \in Nat /\ releases[i] \in Nat
         /\ Entries(i) \in Nat
<1>1. /\ bucket[0] \in [Items -> Nat] /\ bucket[1] \in [Items -> Nat]
      /\ bucket[2] \in [Items -> Nat] /\ bucket[3] \in [Items -> Nat]
  BY FourBuckets DEF DecayTypeOK
<1>2. /\ fresh[i] \in Nat /\ todo[i] \in Nat
      /\ bucket[0][i] \in Nat /\ bucket[1][i] \in Nat
      /\ bucket[2][i] \in Nat /\ bucket[3][i] \in Nat
      /\ refs[i] \in Nat /\ releases[i] \in Nat
  BY <1>1 DEF DecayTypeOK
<1> QED  BY <1>2 DEF Entries

-----------------------------------------------------------------------------
(* The inductive invariant: the loop of checkDecay is all that holds entries  *)
(* outside of the lists, the item that is being decayed is placed and may     *)
(* decay, and an object that is not allocated carries no mark.                *)

DueDecays == due # NoItem => placed[due] /\ MayDecay(kind[due])

LoopIsEmpty == ~checking => todo = Zero

FreeAreUnmarked == \A i \in Items : kind[i] = NoKind => ~decaying[i]

IInv ==
  /\ DecayTypeOK
  /\ RefsAreExact
  /\ DecayingIsListed
  /\ DueDecays
  /\ LoopIsEmpty
  /\ FreeAreUnmarked

\* The types that the actions choose from.
LEMMA KindsTyped ==
  ASSUME NEW k \in Kinds
  PROVE  /\ DecayTime[k] \in Nat
         /\ 1000 * DecayTime[k] \in Int
         /\ k # NoKind
         /\ DecayTo[k] \in Kinds \cup {Vanish, Never}
<1>1. DecayTime[k] \in Nat
  BY KindsAssumption
<1>2. 1000 * DecayTime[k] \in Int
  BY <1>1
<1>3. k # NoKind
  BY KindsAssumption
<1>4. DecayTo[k] \in Kinds \cup {Vanish, Never}
  BY KindsAssumption
<1> QED  BY <1>1, <1>2, <1>3, <1>4

\* The reference that comes with the place of an item, and what RefsAreExact
\* says of one item.
Held(i) == IF placed[i] THEN 1 ELSE 0

Counted(i) ==
  /\ refs[i] = Held(i) + Entries(i) + releases[i]
  /\ kind[i] = NoKind <=> refs[i] = 0

LEMMA RefsCounted == RefsAreExact <=> \A i \in Items : Counted(i)
BY DEF RefsAreExact, Counted, Held

LEMMA RefsCountedNext == RefsAreExact' <=> \A i \in Items : Counted(i)'
BY DEF RefsAreExact, Counted, Held

LEMMA HeldCounts ==
  ASSUME NEW i \in Items
  PROVE  /\ Held(i) \in {0, 1}
         /\ placed[i] => Held(i) = 1
         /\ ~placed[i] => Held(i) = 0
BY DEF Held

\* An item that is placed is allocated; one that is not allocated is nowhere.
LEMMA PlacedHasKind ==
  ASSUME IInv, NEW i \in Items
  PROVE  /\ placed[i] => kind[i] \in Kinds
         /\ kind[i] = NoKind => /\ ~placed[i] /\ ~decaying[i]
                                /\ refs[i] = 0 /\ releases[i] = 0 /\ Entries(i) = 0
<1>1. Entries(i) \in Nat /\ releases[i] \in Nat /\ refs[i] \in Nat
  BY EntriesCount DEF IInv
<1>2. refs[i] = Held(i) + Entries(i) + releases[i]
  BY RefsCounted DEF IInv, Counted
<1>3. kind[i] = NoKind <=> refs[i] = 0
  BY RefsCounted DEF IInv, Counted
<1>4. kind[i] \in Kinds \cup {NoKind}
  BY DEF IInv, DecayTypeOK
<1>5. kind[i] = NoKind => ~decaying[i]
  BY DEF IInv, FreeAreUnmarked
<1>6. Held(i) = 1 => refs[i] # 0
  BY <1>1, <1>2
<1>7. refs[i] = 0 => Held(i) = 0 /\ Entries(i) = 0 /\ releases[i] = 0
  <2> Held(i) \in {0, 1}
    BY HeldCounts
  <2> QED  BY <1>1, <1>2
<1>8. /\ placed[i] => Held(i) = 1
      /\ Held(i) = 0 => ~placed[i]
  BY DEF Held
<1> QED  BY <1>3, <1>4, <1>5, <1>6, <1>7, <1>8

LEMMA InitKeeps == DecayInit => IInv
<1> SUFFICES ASSUME DecayInit PROVE IInv
  OBVIOUS
<1>0. Zero \in [Items -> Nat] /\ Zero \in [Items -> Int] /\ \A i \in Items : Zero[i] = 0
  BY DEF Zero
<1>1. DecayTypeOK
  <2>1. bucket \in [0 .. Buckets - 1 -> [Items -> Nat]]
    BY <1>0 DEF DecayInit
  <2>2. last \in 0 .. Buckets - 1
    BY FourBuckets DEF DecayInit
  <2>3. origin \in [Items -> Origins] /\ spent \subseteq Items
    BY DEF DecayInit, Origins
  <2> QED  BY <1>0, <2>1, <2>2, <2>3 DEF DecayInit, DecayTypeOK
<1>2. \A i \in Items : Entries(i) = 0
  BY <1>0, FourBuckets DEF DecayInit, Entries
<1>3. RefsAreExact
  BY <1>0, <1>2 DEF DecayInit, RefsAreExact
<1> QED  BY <1>1, <1>3 DEF DecayInit, IInv, DecayingIsListed, DueDecays, LoopIsEmpty, FreeAreUnmarked

-----------------------------------------------------------------------------
(* The actions *)

LEMMA CreateKeeps ==
  ASSUME IInv, NEW i \in Items, NEW k \in Kinds, NEW d \in Int, NEW o \in Origins,
         Create(i, k, d, o)
  PROVE  IInv'
<1>1. DecayTypeOK'
  BY DEF Create, lists, IInv, DecayTypeOK
<1>2. \A j \in Items : Entries(j)' = Entries(j)
  BY DEF Create, lists, Entries
<1>4. ~placed[i] /\ refs[i] = 0 /\ ~decaying[i] /\ Entries(i) = 0 /\ releases[i] = 0
  BY PlacedHasKind DEF Create
<1>5. ASSUME NEW j \in Items PROVE Counted(j)'
  <2>1. CASE j = i
    <3>1. Held(j)' = 1 /\ refs'[j] = 1 /\ releases'[j] = 0 /\ kind'[j] = k
      BY <2>1, <1>4 DEF Held, Create, IInv, DecayTypeOK
    <3> QED  BY <3>1, <2>1, <1>2, <1>4, KindsTyped DEF Counted
  <2>2. CASE j # i
    <3>1. Held(j)' = Held(j) /\ refs'[j] = refs[j] /\ releases'[j] = releases[j]
          /\ kind'[j] = kind[j]
      BY <2>2 DEF Held, Create, IInv, DecayTypeOK
    <3> QED  BY <3>1, <1>2, RefsCounted DEF Counted, IInv
  <2> QED  BY <2>1, <2>2
<1>6. DecayingIsListed'
  BY <1>2, <1>4 DEF IInv, DecayingIsListed, Create, DecayTypeOK
<1>7. DueDecays' /\ LoopIsEmpty'
  BY DEF IInv, Create, lists, DueDecays, LoopIsEmpty, AtRest, Zero
<1>8. FreeAreUnmarked'
  BY <1>4 DEF IInv, Create, FreeAreUnmarked, DecayTypeOK
<1> QED  BY <1>1, <1>5, <1>6, <1>7, <1>8, RefsCountedNext DEF IInv

\* The common part of RemoveItem and Vanishes.
LEMMA RemoveKeeps ==
  ASSUME IInv, NEW i \in Items, placed[i], Removed(i),
         UNCHANGED <<kind, duration, decaying, origin, refs, lists, left, timed, spent>>,
         due = NoItem \/ due = i, due' = NoItem
  PROVE  IInv'
<1>1. DecayTypeOK'
  BY DEF Removed, lists, IInv, DecayTypeOK
<1>2. \A j \in Items : Entries(j)' = Entries(j)
  BY DEF lists, Entries
<1>4. ASSUME NEW j \in Items PROVE Counted(j)'
  <2>0. refs'[j] = refs[j] /\ kind'[j] = kind[j] /\ Entries(j)' = Entries(j)
    BY <1>2
  <2>1. CASE j = i
    <3>1. Held(j) = 1 /\ Held(j)' = 0 /\ releases'[j] = releases[j] + 1
      BY <2>1 DEF Held, Removed, IInv, DecayTypeOK
    <3>2. Entries(j) \in Nat /\ releases[j] \in Nat
      BY EntriesCount DEF IInv
    <3> QED  BY <3>1, <3>2, <2>0, RefsCounted DEF Counted, IInv
  <2>2. CASE j # i
    <3>1. Held(j)' = Held(j) /\ releases'[j] = releases[j]
      BY <2>2 DEF Held, Removed, IInv, DecayTypeOK
    <3> QED  BY <3>1, <2>0, RefsCounted DEF Counted, IInv
  <2> QED  BY <2>1, <2>2
<1>5. \A j \in Items : placed'[j] => placed[j] /\ j # i
  BY DEF Removed, IInv, DecayTypeOK
<1>6. NoItem \notin Items
  BY KindsAssumption
<1>7. DecayingIsListed'
  BY <1>2, <1>5, <1>6 DEF IInv, DecayingIsListed
<1>8. LoopIsEmpty' /\ DueDecays' /\ FreeAreUnmarked'
  BY DEF IInv, lists, DueDecays, LoopIsEmpty, FreeAreUnmarked, Zero
<1>9. RefsAreExact'
  BY <1>4, RefsCountedNext
<1> QED  BY <1>1, <1>7, <1>8, <1>9 DEF IInv

LEMMA SetDurationKeeps ==
  ASSUME IInv, NEW i \in Items, SetDuration(i, 1)
  PROVE  IInv'
<1>1. DecayTypeOK'
  <2>1. duration' \in [Items -> Int] /\ timed' \in [Items -> BOOLEAN] /\ left' \in [Items -> Int]
    BY DEF SetDuration, IInv, DecayTypeOK
  <2> QED  BY <2>1 DEF SetDuration, lists, IInv, DecayTypeOK
<1>2. \A j \in Items : Entries(j)' = Entries(j)
  BY DEF SetDuration, lists, Entries
<1>3. UNCHANGED <<kind, decaying, placed, refs, releases, checking, todo, due, spent>>
  BY DEF SetDuration, lists
<1>4. RefsAreExact'
  BY <1>2, <1>3 DEF IInv, RefsAreExact
<1>5. DecayingIsListed' /\ LoopIsEmpty' /\ DueDecays' /\ FreeAreUnmarked'
  BY <1>2, <1>3 DEF IInv, DecayingIsListed, DueDecays, LoopIsEmpty, FreeAreUnmarked, Zero
<1> QED  BY <1>1, <1>4, <1>5 DEF IInv

LEMMA SetIdKeeps ==
  ASSUME IInv, NEW i \in Items, SetId(i)
  PROVE  IInv'
<1>1. UNCHANGED <<kind, duration, decaying, placed, refs, releases, fresh, bucket, last,
                  checking, todo, due, left, timed, spent>>
  BY DEF SetId, lists
<1>2. origin' \in [Items -> Origins]
  BY DEF SetId, IInv, DecayTypeOK, Origins
<1>3. \A j \in Items : Entries(j)' = Entries(j)
  BY <1>1 DEF Entries
<1>4. DecayTypeOK'
  BY <1>1, <1>2 DEF IInv, DecayTypeOK
<1>5. RefsAreExact' /\ DecayingIsListed'
  BY <1>1, <1>3 DEF IInv, RefsAreExact, DecayingIsListed
<1>6. LoopIsEmpty' /\ DueDecays' /\ FreeAreUnmarked'
  BY <1>1 DEF IInv, DueDecays, LoopIsEmpty, FreeAreUnmarked, MayDecay, Zero
<1> QED  BY <1>4, <1>5, <1>6 DEF IInv

\* A new object takes the place of another: the counts, whoever calls it.
LEMMA ReplaceCounts ==
  ASSUME IInv, NEW i \in Items, NEW j \in Items, NEW k \in Kinds,
         placed[i], Replace(i, j, k), UNCHANGED <<decaying, lists, left, timed, spent>>,
         due' \in Items \cup {NoItem}
  PROVE  /\ DecayTypeOK' /\ RefsAreExact' /\ FreeAreUnmarked'
         /\ i # j /\ placed'[j] /\ kind'[j] = k
         /\ \A h \in Items : placed'[h] => ~decaying[h] \/ (h # i /\ placed[h])
<1>1. DecayTypeOK'
  <2>0. /\ kind' = [kind EXCEPT ![j] = k] /\ duration' = [duration EXCEPT ![j] = 0]
        /\ refs' = [refs EXCEPT ![j] = 1] /\ releases' = [releases EXCEPT ![i] = releases[i] + 1]
    BY DEF Replace
  <2>1. kind' \in [Items -> Kinds \cup {NoKind}] /\ duration' \in [Items -> Int]
    <3>1. kind \in [Items -> Kinds \cup {NoKind}] /\ duration \in [Items -> Int]
      BY DEF IInv, DecayTypeOK
    <3>2. kind' \in [Items -> Kinds \cup {NoKind}]
      BY <2>0, <3>1
    <3>3. duration' \in [Items -> Int]
      BY <2>0, <3>1
    <3> QED  BY <3>2, <3>3
  <2>2. placed' \in [Items -> BOOLEAN]
    BY DEF Replace, IInv, DecayTypeOK
  <2>3. refs' \in [Items -> Nat] /\ releases' \in [Items -> Nat]
    <3>1. refs \in [Items -> Nat] /\ releases \in [Items -> Nat]
      BY DEF IInv, DecayTypeOK
    <3> QED  BY <2>0, <3>1
  <2>4. origin' \in [Items -> Origins]
    BY DEF Replace, Origins, IInv, DecayTypeOK
  <2> QED  BY <2>1, <2>2, <2>3, <2>4 DEF lists, IInv, DecayTypeOK
<1>2. \A h \in Items : Entries(h)' = Entries(h)
  BY DEF lists, Entries
<1>3. ~placed[j] /\ refs[j] = 0 /\ ~decaying[j] /\ Entries(j) = 0 /\ releases[j] = 0
  BY PlacedHasKind DEF Replace
<1>4. i # j
  BY <1>3
<1>5. ASSUME NEW h \in Items PROVE Counted(h)'
  <2>0. Entries(h)' = Entries(h)
    BY <1>2
  <2>1. CASE h = i
    <3>1. Held(h) = 1 /\ Held(h)' = 0 /\ releases'[h] = releases[h] + 1
          /\ refs'[h] = refs[h] /\ kind'[h] = kind[h]
      BY <2>1, <1>4 DEF Held, Replace, IInv, DecayTypeOK
    <3>2. Entries(h) \in Nat /\ releases[h] \in Nat
      BY EntriesCount DEF IInv
    <3> QED  BY <3>1, <3>2, <2>0, RefsCounted DEF Counted, IInv
  <2>2. CASE h = j
    <3>1. Held(h)' = 1 /\ refs'[h] = 1 /\ releases'[h] = 0 /\ kind'[h] = k
      BY <2>2, <1>3, <1>4 DEF Held, Replace, IInv, DecayTypeOK
    <3> QED  BY <3>1, <2>2, <1>2, <1>3, KindsTyped DEF Counted
  <2>3. CASE h # i /\ h # j
    <3>1. Held(h)' = Held(h) /\ releases'[h] = releases[h]
          /\ refs'[h] = refs[h] /\ kind'[h] = kind[h]
      BY <2>3 DEF Held, Replace, IInv, DecayTypeOK
    <3> QED  BY <3>1, <2>0, RefsCounted DEF Counted, IInv
  <2> QED  BY <2>1, <2>2, <2>3
<1>6. FreeAreUnmarked'
  BY <1>3 DEF IInv, FreeAreUnmarked, Replace, DecayTypeOK
<1>7. placed'[j] /\ kind'[j] = k
  BY DEF Replace, IInv, DecayTypeOK
<1>8. ASSUME NEW h \in Items, placed'[h] PROVE ~decaying[h] \/ (h # i /\ placed[h])
  BY <1>8, <1>3, <1>4 DEF Replace, IInv, DecayTypeOK
<1> QED  BY <1>1, <1>4, <1>5, <1>6, <1>7, <1>8, RefsCountedNext

LEMMA TransformKeeps ==
  ASSUME IInv, NEW i \in Items, NEW j \in Items, NEW k \in Kinds, Transform(i, j, k)
  PROVE  IInv'
<1>0. /\ due = NoItem /\ due' = NoItem /\ placed[i] /\ UNCHANGED lists
      /\ \A h \in Items : Entries(h)' = Entries(h)
  BY DEF Transform, AtRest, lists, Entries
<1>1. LoopIsEmpty' /\ DueDecays'
  BY <1>0 DEF IInv, LoopIsEmpty, DueDecays, lists, Zero
<1>2. CASE Group[kind[i]] = Group[k]
  <2>1. /\ kind' = [kind EXCEPT ![i] = k]
        /\ duration' = [duration EXCEPT ![i] = DurationAs(i, k)]
        /\ decaying' = [decaying EXCEPT ![i] = DecayingAs(i, k)]
        /\ timed' = [timed EXCEPT ![i] = timed[i] /\ KeepsTime(i, k)]
        /\ left' = [left EXCEPT ![i] = IF timed'[i] THEN left[i] ELSE 0]
        /\ spent' = IF KeepsTime(i, k) THEN spent ELSE spent \ {i}
        /\ UNCHANGED <<placed, origin, refs, releases>>
    BY <1>2 DEF Transform
  <2>2. DurationAs(i, k) \in Int
    BY KindsTyped DEF DurationAs, IInv, DecayTypeOK
  <2>3. DecayTypeOK'
    <3>1. /\ kind' \in [Items -> Kinds \cup {NoKind}]
          /\ duration' \in [Items -> Int]
      BY <2>1, <2>2 DEF IInv, DecayTypeOK
    <3>2. decaying' \in [Items -> BOOLEAN]
      <4> DecayingAs(i, k) \in BOOLEAN
        BY DEF DecayingAs
      <4> QED  BY <2>1 DEF IInv, DecayTypeOK
    <3>3. timed' \in [Items -> BOOLEAN]
      <4>1. (timed[i] /\ KeepsTime(i, k)) \in BOOLEAN
        OBVIOUS
      <4>2. timed \in [Items -> BOOLEAN]
        BY DEF IInv, DecayTypeOK
      <4> QED  BY <2>1, <4>1, <4>2
    <3>4. left' \in [Items -> Int]
      BY <2>1 DEF IInv, DecayTypeOK
    <3> QED  BY <2>1, <3>1, <3>2, <3>3, <3>4, <1>0 DEF IInv, DecayTypeOK, lists
  <2>4. kind[i] # NoKind
    BY <1>0, PlacedHasKind
  <2>9. k # NoKind
    BY KindsTyped
  <2>5. RefsAreExact'
    <3>1. \A h \in Items : kind'[h] = NoKind <=> kind[h] = NoKind
      BY <2>1, <2>4, <2>9 DEF IInv, DecayTypeOK
    <3> QED  BY <2>1, <3>1, <1>0 DEF IInv, RefsAreExact
  <2>6. DecayingAs(i, k) => decaying[i] /\ KeepsTime(i, k)
    BY DEF DecayingAs
  <2>7. \A h \in Items : decaying'[h] => decaying[h] /\ (h \in spent => h \in spent')
    BY <2>1, <2>6 DEF IInv, DecayTypeOK
  <2>8. DecayingIsListed'
    BY <2>1, <2>7, <1>0 DEF IInv, DecayingIsListed
  <2>10. FreeAreUnmarked'
    <3>1. \A h \in Items : kind'[h] = NoKind => kind[h] = NoKind
      BY <2>1, <2>9 DEF IInv, DecayTypeOK
    <3> QED  BY <2>7, <3>1 DEF IInv, FreeAreUnmarked
  <2> QED  BY <1>1, <2>3, <2>5, <2>8, <2>10 DEF IInv
<1>3. CASE Group[kind[i]] # Group[k]
  <2>1. Replace(i, j, k) /\ UNCHANGED <<decaying, left, timed, spent>>
    BY <1>3 DEF Transform
  <2>2. /\ DecayTypeOK' /\ RefsAreExact' /\ FreeAreUnmarked'
        /\ \A h \in Items : placed'[h] => ~decaying[h] \/ (h # i /\ placed[h])
    <3> due' \in Items \cup {NoItem}
      BY <1>0
    <3> QED  BY <2>1, <1>0, ReplaceCounts
  <2>3. DecayingIsListed'
    BY <2>1, <2>2, <1>0 DEF IInv, DecayingIsListed
  <2> QED  BY <1>1, <2>2, <2>3 DEF IInv
<1> QED  BY <1>2, <1>3


\* startDecay puts an item in the list of the new ones: the entries and the
\* references of that item, and of it alone, grow by one.
LEMMA ListedCounts ==
  ASSUME IInv, NEW i \in Items, NEW d \in Int, Listed(i, d), kind[i] # NoKind,
         UNCHANGED <<placed, releases, bucket, todo>>,
         \A h \in Items : kind'[h] = NoKind <=> kind[h] = NoKind
  PROVE  /\ fresh' \in [Items -> Nat] /\ refs' \in [Items -> Nat]
         /\ timed' \in [Items -> BOOLEAN] /\ left' \in [Items -> Int]
         /\ RefsAreExact'
         /\ Entries(i)' > 0
         /\ \A h \in Items : Entries(h) > 0 => Entries(h)' > 0
<1>1. fresh' \in [Items -> Nat] /\ refs' \in [Items -> Nat]
  BY SMTT(30) DEF Listed, IInv, DecayTypeOK
<1>2. timed' \in [Items -> BOOLEAN]
  <2>1. (Entries(i) = 0) \in BOOLEAN
    OBVIOUS
  <2> QED  BY <2>1 DEF Listed, IInv, DecayTypeOK
<1>3. left' \in [Items -> Int]
  BY DEF Listed, IInv, DecayTypeOK
<1>4. Entries(i)' = Entries(i) + 1
  <2>1. fresh'[i] = fresh[i] + 1
    BY DEF Listed, IInv, DecayTypeOK
  <2> QED  BY <2>1, EntriesCount DEF Entries, IInv
<1>5. \A h \in Items : h # i => Entries(h)' = Entries(h)
  BY DEF Listed, Entries, IInv, DecayTypeOK
<1>6. ASSUME NEW h \in Items PROVE Counted(h)'
  <2>1. Entries(h) \in Nat /\ releases[h] \in Nat /\ refs[h] \in Nat
    BY EntriesCount DEF IInv
  <2>2. Held(h)' = Held(h) /\ Held(h) \in {0, 1} /\ releases'[h] = releases[h]
    BY DEF Held
  <2>3. Counted(h)
    BY RefsCounted DEF IInv
  <2>4. CASE h = i
    <3>1. refs'[h] = refs[h] + 1
      BY <2>4 DEF Listed, IInv, DecayTypeOK
    <3>2. kind'[h] # NoKind
      BY <2>4
    <3> QED  BY <2>1, <2>2, <2>3, <2>4, <3>1, <3>2, <1>4 DEF Counted
  <2>5. CASE h # i
    <3>1. refs'[h] = refs[h]
      BY <2>5 DEF Listed, IInv, DecayTypeOK
    <3> QED  BY <2>2, <2>3, <2>5, <3>1, <1>5 DEF Counted
  <2> QED  BY <2>4, <2>5
<1>7. RefsAreExact'
  BY <1>6, RefsCountedNext
<1>8. /\ Entries(i)' > 0
      /\ \A h \in Items : Entries(h) > 0 => Entries(h)' > 0
  <2>1. Entries(i) \in Nat
    BY EntriesCount DEF IInv
  <2> QED  BY <2>1, <1>4, <1>5
<1> QED  BY <1>1, <1>2, <1>3, <1>7, <1>8

LEMMA StartDecayKeeps ==
  ASSUME IInv, NEW i \in Items, StartDecay(i)
  PROVE  IInv'
<1>0. /\ due = NoItem /\ ~checking /\ placed[i] /\ MayDecay(kind[i])
      /\ UNCHANGED <<kind, duration, placed, origin, releases, bucket, last, checking, todo,
                     spent>>
  BY DEF StartDecay, AtRest, CanDecay
<1>1. kind[i] # NoKind
  BY <1>0, PlacedHasKind
<1>2. LoopIsEmpty'
  BY <1>0 DEF IInv, LoopIsEmpty, Zero
<1>3. CASE duration[i] > 0
  <2>2. duration[i] \in Int
    BY DEF IInv, DecayTypeOK
  <2>1. decaying' = [decaying EXCEPT ![i] = TRUE] /\ Listed(i, duration[i]) /\ due' = due
    BY <1>3, <2>2 DEF StartDecay
  <2>3. /\ fresh' \in [Items -> Nat] /\ refs' \in [Items -> Nat]
        /\ timed' \in [Items -> BOOLEAN] /\ left' \in [Items -> Int]
        /\ RefsAreExact'
        /\ Entries(i)' > 0
        /\ \A h \in Items : Entries(h) > 0 => Entries(h)' > 0
    <3> UNCHANGED <<placed, releases, bucket, todo>>
      BY <1>0
    <3> \A h \in Items : kind'[h] = NoKind <=> kind[h] = NoKind
      BY <1>0
    <3> QED  BY <2>1, <2>2, <1>1, ListedCounts
  <2>4. decaying' \in [Items -> BOOLEAN] /\ \A h \in Items : h # i => decaying'[h] = decaying[h]
    BY <2>1 DEF IInv, DecayTypeOK
  <2>5. DecayTypeOK'
    BY <1>0, <2>1, <2>3, <2>4 DEF IInv, DecayTypeOK
  <2>6. DecayingIsListed'
    BY <1>0, <2>1, <2>3, <2>4 DEF IInv, DecayingIsListed
  <2>7. DueDecays' /\ FreeAreUnmarked'
    BY <1>0, <1>1, <2>1, <2>4 DEF IInv, DueDecays, FreeAreUnmarked
  <2> QED  BY <1>2, <2>3, <2>5, <2>6, <2>7 DEF IInv
<1>4. CASE ~(duration[i] > 0)
  <2>1. due' = i /\ UNCHANGED <<decaying, refs, fresh, timed, left>>
    BY <1>4 DEF StartDecay
  <2>2. \A h \in Items : Entries(h)' = Entries(h)
    BY <1>0, <2>1 DEF Entries
  <2>3. DecayTypeOK'
    BY <1>0, <2>1 DEF IInv, DecayTypeOK
  <2>4. RefsAreExact'
    BY <1>0, <2>1, <2>2 DEF IInv, RefsAreExact
  <2>5. NoItem \notin Items
    BY KindsAssumption
  <2>6. DecayingIsListed'
    BY <1>0, <2>1, <2>2, <2>5 DEF IInv, DecayingIsListed
  <2>7. DueDecays' /\ FreeAreUnmarked'
    BY <1>0, <2>1 DEF IInv, DueDecays, FreeAreUnmarked, MayDecay
  <2> QED  BY <1>2, <2>3, <2>4, <2>6, <2>7 DEF IInv
<1> QED  BY <1>3, <1>4

-----------------------------------------------------------------------------
(* internalDecayItem *)

LEMMA VanishesKeeps ==
  ASSUME IInv, Vanishes
  PROVE  IInv'
<1>1. due \in Items /\ placed[due]
  BY DEF IInv, DecayTypeOK, DueDecays, Vanishes
<1>2. Removed(due) /\ due' = NoItem
      /\ UNCHANGED <<kind, duration, decaying, origin, refs, lists, left, timed, spent>>
  BY DEF Vanishes
<1> QED  BY <1>1, <1>2, RemoveKeeps

\* An item that could not be removed keeps its mark, and is remembered.
LEMMA StaysPutKeeps ==
  ASSUME IInv, StaysPut
  PROVE  IInv'
<1>1. /\ due \in Items /\ due' = NoItem /\ Spends(due)
      /\ timed' = [timed EXCEPT ![due] = FALSE] /\ left' = [left EXCEPT ![due] = 0]
      /\ UNCHANGED <<kind, duration, decaying, placed, origin, refs, releases, fresh, bucket,
                     last, checking, todo>>
  BY DEF StaysPut, Unlisted, lists, IInv, DecayTypeOK
<1>2. \A j \in Items : Entries(j)' = Entries(j)
  BY <1>1 DEF Entries
<1>3. Entries(due) \in Nat
  BY <1>1, EntriesCount DEF IInv
<1>4. /\ spent' \subseteq Items /\ spent \subseteq spent'
      /\ decaying[due] => Entries(due) > 0 \/ due \in spent'
  BY <1>1, <1>3 DEF Spends, IInv, DecayTypeOK
<1>5. timed' \in [Items -> BOOLEAN] /\ left' \in [Items -> Int]
  BY <1>1 DEF IInv, DecayTypeOK
<1>6. DecayTypeOK'
  BY <1>1, <1>4, <1>5 DEF IInv, DecayTypeOK
<1>7. RefsAreExact'
  BY <1>1, <1>2 DEF IInv, RefsAreExact
<1>8. DecayingIsListed'
  BY <1>1, <1>2, <1>4 DEF IInv, DecayingIsListed
<1>9. LoopIsEmpty' /\ DueDecays' /\ FreeAreUnmarked'
  BY <1>1 DEF IInv, DueDecays, LoopIsEmpty, FreeAreUnmarked, Zero
<1> QED  BY <1>6, <1>7, <1>8, <1>9 DEF IInv

LEMMA BecomesKeeps ==
  ASSUME IInv, NEW i \in Items, Becomes(i)
  PROVE  IInv'
<1> DEFINE d == DurationAs(i, NextKind)
           starts == MayDecay(NextKind) /\ origin[i] # "named" /\ ~DecayingAs(i, NextKind)
           counts == starts /\ d > 0
<1>0. /\ due = i /\ NextKind \in Kinds
      /\ kind' = [kind EXCEPT ![i] = NextKind]
      /\ duration' = [duration EXCEPT ![i] = d]
      /\ decaying' = [decaying EXCEPT ![i] = DecayingAs(i, NextKind) \/ counts]
      /\ due' = IF starts /\ d <= 0 THEN i ELSE NoItem
      /\ \/ counts /\ Listed(i, d)
         \/ /\ ~counts
            /\ timed' = [timed EXCEPT ![i] = FALSE]
            /\ left' = [left EXCEPT ![i] = 0]
            /\ UNCHANGED <<refs, fresh>>
      /\ spent' = IF KeepsTime(i, NextKind) /\ decaying[i] /\ Entries(i) = 0
                  THEN spent \cup {i} ELSE spent
      /\ UNCHANGED <<placed, origin, releases, bucket, last, checking, todo>>
  BY DEF Becomes, Unlisted, Spends
<1>1. i # NoItem /\ placed[i]
  BY <1>0, KindsAssumption DEF IInv, DueDecays
<1>2. kind[i] # NoKind /\ NextKind # NoKind
  <2>1. NoKind \notin Kinds
    BY KindsAssumption
  <2>2. NextKind \in Kinds
    BY <1>0
  <2>3. kind[i] \in Kinds
    BY <1>1, PlacedHasKind
  <2> HIDE DEF d, starts, counts
  <2> QED  BY <2>1, <2>2, <2>3
<1>3. d \in Int
  <2>1. DecayTime[NextKind] \in Nat
    BY <1>0, KindsTyped
  <2> QED  BY <2>1 DEF DurationAs, IInv, DecayTypeOK
<1>4. Entries(i) \in Nat /\ spent \subseteq Items
  BY EntriesCount DEF IInv, DecayTypeOK
<1>15. /\ spent' \subseteq Items /\ spent \subseteq spent'
       /\ DecayingAs(i, NextKind) => Entries(i) > 0 \/ i \in spent'
  BY <1>0, <1>4 DEF DecayingAs
<1> HIDE DEF d
<1>5. kind' \in [Items -> Kinds \cup {NoKind}] /\ duration' \in [Items -> Int]
      /\ due' \in Items \cup {NoItem}
  BY <1>0, <1>3 DEF IInv, DecayTypeOK
<1>6. kind'[i] = NextKind /\ \A h \in Items : kind'[h] = NoKind <=> kind[h] = NoKind
  BY <1>0, <1>2 DEF IInv, DecayTypeOK
<1>8. decaying' \in [Items -> BOOLEAN]
  <2>1. (DecayingAs(i, NextKind) \/ counts) \in BOOLEAN
    BY DEF DecayingAs
  <2>2. decaying \in [Items -> BOOLEAN]
    BY DEF IInv, DecayTypeOK
  <2> QED  BY <1>0, <2>1, <2>2
<1>9. \A h \in Items : decaying'[h] =>
          (h = i /\ (counts \/ DecayingAs(i, NextKind))) \/ (h # i /\ decaying[h])
  BY <1>0 DEF IInv, DecayTypeOK
<1>10. LoopIsEmpty'
  BY <1>0 DEF IInv, LoopIsEmpty, Zero
<1>11. DueDecays'
  BY <1>0, <1>1, <1>6 DEF DueDecays
<1>12. FreeAreUnmarked'
  BY <1>6, <1>9, <1>2 DEF IInv, FreeAreUnmarked
<1>13. CASE counts
  <2>1. Listed(i, d)
    BY <1>0, <1>13
  <2>2. UNCHANGED <<placed, releases, bucket, todo>>
    BY <1>0
  <2>3. /\ fresh' \in [Items -> Nat] /\ refs' \in [Items -> Nat]
        /\ timed' \in [Items -> BOOLEAN] /\ left' \in [Items -> Int]
        /\ RefsAreExact'
        /\ Entries(i)' > 0
        /\ \A h \in Items : Entries(h) > 0 => Entries(h)' > 0
    BY <2>1, <2>2, <1>2, <1>3, <1>6, ListedCounts
  <2>4. DecayTypeOK'
    BY <1>0, <1>5, <1>8, <1>15, <2>3 DEF IInv, DecayTypeOK
  <2>5. DecayingIsListed'
    BY <1>0, <1>9, <1>15, <2>3 DEF IInv, DecayingIsListed
  <2> QED  BY <1>10, <1>11, <1>12, <2>3, <2>4, <2>5 DEF IInv
<1>14. CASE ~counts
  <2>1. /\ timed' = [timed EXCEPT ![i] = FALSE] /\ left' = [left EXCEPT ![i] = 0]
        /\ UNCHANGED <<refs, fresh>>
    BY <1>0, <1>14
  <2>2. timed' \in [Items -> BOOLEAN] /\ left' \in [Items -> Int]
    BY <2>1 DEF IInv, DecayTypeOK
  <2>3. DecayTypeOK'
    BY <1>0, <1>5, <1>8, <1>15, <2>1, <2>2 DEF IInv, DecayTypeOK
  <2>4. \A h \in Items : Entries(h)' = Entries(h)
    BY <1>0, <2>1 DEF Entries
  <2>5. RefsAreExact'
    BY <1>0, <1>6, <2>1, <2>4 DEF IInv, RefsAreExact
  <2>6. DecayingIsListed'
    BY <1>0, <1>9, <1>14, <1>15, <2>4 DEF IInv, DecayingIsListed
  <2> QED  BY <1>10, <1>11, <1>12, <2>3, <2>5, <2>6 DEF IInv
<1> QED  BY <1>13, <1>14

LEMMA IsReplacedKeeps ==
  ASSUME IInv, NEW j \in Items, IsReplaced(j)
  PROVE  IInv'
<1>0. /\ due \in Items /\ placed[due] /\ NextKind \in Kinds
      /\ Replace(due, j, NextKind) /\ UNCHANGED <<decaying, lists, left, timed, spent>>
      /\ due' = IF MayDecay(NextKind) THEN j ELSE NoItem
  BY DEF IsReplaced, IInv, DecayTypeOK, DueDecays
<1>1. due' \in Items \cup {NoItem}
  BY <1>0
<1>2. /\ DecayTypeOK' /\ RefsAreExact' /\ FreeAreUnmarked'
      /\ placed'[j] /\ kind'[j] = NextKind
      /\ \A h \in Items : placed'[h] => ~decaying[h] \/ (h # due /\ placed[h])
  BY <1>0, <1>1, ReplaceCounts
<1>3. \A h \in Items : Entries(h)' = Entries(h)
  BY <1>0 DEF lists, Entries
<1>4. DecayingIsListed'
  BY <1>0, <1>2, <1>3 DEF IInv, DecayingIsListed
<1>5. LoopIsEmpty'
  BY <1>0 DEF IInv, LoopIsEmpty, lists, Zero
<1>6. DueDecays'
  BY <1>0, <1>2 DEF DueDecays
<1> QED  BY <1>2, <1>4, <1>5, <1>6 DEF IInv


-----------------------------------------------------------------------------
(* checkDecay and cleanup *)

\* The loop takes a bucket over: no entry is lost.
LEMMA BeginCheckKeeps ==
  ASSUME IInv, BeginCheck
  PROVE  IInv'
<1> DEFINE a == After(last)
<1>0. /\ due = NoItem /\ ~checking
      /\ checking' = TRUE
      /\ todo' = bucket[a]
      /\ bucket' = [bucket EXCEPT ![a] = Zero]
      /\ left' = [i \in Items |-> IF timed[i] THEN left[i] - Interval ELSE 0]
      /\ UNCHANGED <<kind, duration, decaying, placed, origin, refs, releases, fresh, last,
                     due, timed, spent>>
  BY DEF BeginCheck, AtRest
<1>1. a \in {0, 1, 2, 3} /\ a \in 0 .. Buckets - 1
  <2>1. last \in 0 .. Buckets - 1 /\ 0 \in Int
    BY DEF IInv, DecayTypeOK
  <2> QED  BY <2>1, BucketsAgree, FourBuckets
<1> HIDE DEF a
<1>2. /\ bucket \in [0 .. Buckets - 1 -> [Items -> Nat]]
      /\ bucket \in [{0, 1, 2, 3} -> [Items -> Nat]]
      /\ Zero \in [Items -> Nat]
      /\ \A i \in Items : Zero[i] = 0
  BY FourBuckets DEF IInv, DecayTypeOK, Zero
<1>3. DecayTypeOK'
  <2>1. left' \in [Items -> Int]
    BY <1>0 DEF Interval, IInv, DecayTypeOK
  <2>2. bucket' \in [0 .. Buckets - 1 -> [Items -> Nat]] /\ todo' \in [Items -> Nat]
    BY <1>0, <1>1, <1>2
  <2> QED  BY <1>0, <2>1, <2>2 DEF IInv, DecayTypeOK
<1>4. ASSUME NEW i \in Items PROVE Entries(i)' = Entries(i)
  <2>1. todo[i] = 0
    BY <1>0, <1>2 DEF IInv, LoopIsEmpty
  <2>2. /\ todo'[i] = bucket[a][i] /\ fresh'[i] = fresh[i]
        /\ bucket'[a][i] = 0
        /\ \A c \in {0, 1, 2, 3} : c # a => bucket'[c] = bucket[c]
    BY <1>0, <1>1, <1>2
  <2>3. /\ fresh[i] \in Nat
        /\ bucket[0][i] \in Nat /\ bucket[1][i] \in Nat
        /\ bucket[2][i] \in Nat /\ bucket[3][i] \in Nat
    BY EntriesCount DEF IInv
  <2>4. CASE a = 0
    BY <2>1, <2>2, <2>3, <2>4 DEF Entries
  <2>5. CASE a = 1
    BY <2>1, <2>2, <2>3, <2>5 DEF Entries
  <2>6. CASE a = 2
    BY <2>1, <2>2, <2>3, <2>6 DEF Entries
  <2>7. CASE a = 3
    BY <2>1, <2>2, <2>3, <2>7 DEF Entries
  <2> QED  BY <1>1, <2>4, <2>5, <2>6, <2>7
<1>5. RefsAreExact'
  BY <1>0, <1>4 DEF IInv, RefsAreExact
<1>6. DecayingIsListed'
  BY <1>0, <1>4 DEF IInv, DecayingIsListed
<1>7. LoopIsEmpty' /\ DueDecays' /\ FreeAreUnmarked'
  BY <1>0 DEF LoopIsEmpty, DueDecays, FreeAreUnmarked, IInv
<1> QED  BY <1>3, <1>5, <1>6, <1>7 DEF IInv

\* A visit that ends with freeThing: the reference of the entry becomes one of
\* releaseThings.
LEMMA FreeThingCounts ==
  ASSUME IInv, NEW i \in Items, Visits(i), Releases(i), UNCHANGED bucket
  PROVE  /\ todo' \in [Items -> Nat] /\ releases' \in [Items -> Nat]
         /\ RefsAreExact'
         /\ \A h \in Items : h # i => Entries(h)' = Entries(h)
<1>0. /\ todo[i] > 0 /\ todo' = [todo EXCEPT ![i] = todo[i] - 1]
      /\ releases' = [releases EXCEPT ![i] = releases[i] + 1]
      /\ UNCHANGED <<kind, placed, refs, fresh, bucket>>
  BY DEF Visits, Releases
<1>1. todo \in [Items -> Nat] /\ releases \in [Items -> Nat]
  BY DEF IInv, DecayTypeOK
<1>2. todo' \in [Items -> Nat] /\ releases' \in [Items -> Nat]
  BY <1>0, <1>1
<1>3. \A h \in Items : h # i => Entries(h)' = Entries(h) /\ releases'[h] = releases[h]
  BY <1>0, <1>1 DEF Entries
<1>4. ASSUME NEW h \in Items PROVE Counted(h)'
  <2>1. Counted(h) /\ Held(h)' = Held(h) /\ refs'[h] = refs[h] /\ kind'[h] = kind[h]
    BY <1>0, RefsCounted DEF IInv, Held
  <2>2. CASE h = i
    <3>1. todo'[h] = todo[h] - 1 /\ releases'[h] = releases[h] + 1
      BY <1>0, <1>1, <2>2
    <3>2. Entries(h)' = Entries(h) - 1
      BY <1>0, <3>1, EntriesCount DEF Entries, IInv
    <3>3. Entries(h) \in Nat /\ releases[h] \in Nat /\ Held(h) \in {0, 1}
      BY EntriesCount, HeldCounts DEF IInv
    <3> QED  BY <2>1, <3>1, <3>2, <3>3 DEF Counted
  <2>3. CASE h # i
    BY <2>1, <2>3, <1>3 DEF Counted
  <2> QED  BY <2>2, <2>3
<1> QED  BY <1>2, <1>3, <1>4, RefsCountedNext

LEMMA DropKeeps ==
  ASSUME IInv, NEW i \in Items, Drop(i)
  PROVE  IInv'
<1>0. /\ Visits(i) /\ Releases(i) /\ UNCHANGED <<duration, bucket, due>>
      /\ checking /\ due = NoItem
      /\ decaying' = [decaying EXCEPT ![i] = FALSE]
      /\ timed' = [timed EXCEPT ![i] = FALSE]
      /\ left' = [left EXCEPT ![i] = 0]
      /\ UNCHANGED <<kind, placed, origin, refs, fresh, last, checking, spent>>
  BY DEF Drop, Unlisted, Visits, Releases
<1>1. /\ todo' \in [Items -> Nat] /\ releases' \in [Items -> Nat]
      /\ RefsAreExact'
      /\ \A h \in Items : h # i => Entries(h)' = Entries(h)
  BY <1>0, FreeThingCounts
<1>2. decaying' \in [Items -> BOOLEAN] /\ \A h \in Items : decaying'[h] => h # i /\ decaying[h]
  BY <1>0 DEF IInv, DecayTypeOK
<1>3. timed' \in [Items -> BOOLEAN] /\ left' \in [Items -> Int]
  BY <1>0 DEF IInv, DecayTypeOK
<1>4. DecayTypeOK'
  BY <1>0, <1>1, <1>2, <1>3 DEF IInv, DecayTypeOK
<1>5. DecayingIsListed'
  BY <1>0, <1>1, <1>2 DEF IInv, DecayingIsListed
<1>6. LoopIsEmpty' /\ DueDecays'
  BY <1>0 DEF LoopIsEmpty, DueDecays
<1>7. FreeAreUnmarked'
  BY <1>0, <1>2 DEF IInv, FreeAreUnmarked
<1> QED  BY <1>1, <1>4, <1>5, <1>6, <1>7 DEF IInv

\* An item with time left gets its next bucket.
LEMMA PassKeeps ==
  ASSUME IInv, NEW i \in Items, Pass(i)
  PROVE  IInv'
<1> DEFINE now == After(last)
           rest == duration[i] - (IF duration[i] < Round THEN duration[i] ELSE Round)
           next == IF rest < Round THEN ShortBucket(now, rest) ELSE now
<1>0. /\ Visits(i) /\ CanDecay(i) /\ checking /\ due = NoItem
      /\ duration' = [duration EXCEPT ![i] = rest]
      /\ \/ /\ due' = i /\ Releases(i) /\ UNCHANGED bucket
         \/ /\ bucket' = [bucket EXCEPT ![next][i] = bucket[next][i] + 1]
            /\ UNCHANGED <<due, releases>>
      /\ UNCHANGED <<decaying, timed, left, kind, placed, origin, refs, fresh, last, checking,
                     spent>>
  BY DEF Pass, Visits
<1>1. duration[i] \in Int /\ rest \in Int
  BY DEF IInv, DecayTypeOK, Round, Interval, Buckets
<1>2. now \in {0, 1, 2, 3} /\ next \in {0, 1, 2, 3}
  <2>1. last \in 0 .. Buckets - 1
    BY DEF IInv, DecayTypeOK
  <2>2. now \in {0, 1, 2, 3}
    BY <2>1, <1>1, BucketsAgree
  <2>3. ShortBucket(now, rest) \in {0, 1, 2, 3}
    BY <2>2, <1>1, BucketsAgree, FourBuckets
  <2> QED  BY <2>2, <2>3
<1>3. duration' \in [Items -> Int]
  BY <1>0, <1>1 DEF IInv, DecayTypeOK
<1>4. i # NoItem /\ placed[i] /\ MayDecay(kind[i])
  BY <1>0, KindsAssumption DEF CanDecay
<1> HIDE DEF rest, now, next
<1>5. LoopIsEmpty' /\ FreeAreUnmarked'
  BY <1>0 DEF LoopIsEmpty, FreeAreUnmarked, IInv
<1>6. DueDecays'
  BY <1>0, <1>4 DEF DueDecays, MayDecay
<1>7. CASE due' = i /\ Releases(i) /\ UNCHANGED bucket
  <2>1. /\ todo' \in [Items -> Nat] /\ releases' \in [Items -> Nat]
        /\ RefsAreExact'
        /\ \A h \in Items : h # i => Entries(h)' = Entries(h)
    BY <1>0, <1>7, FreeThingCounts
  <2>2. DecayTypeOK'
    BY <1>0, <1>3, <1>7, <2>1 DEF IInv, DecayTypeOK
  <2>3. NoItem \notin Items
    BY KindsAssumption
  <2>4. DecayingIsListed'
    BY <1>0, <1>7, <2>1, <2>3 DEF IInv, DecayingIsListed
  <2> QED  BY <1>5, <1>6, <2>1, <2>2, <2>4 DEF IInv
<1>8. CASE bucket' = [bucket EXCEPT ![next][i] = bucket[next][i] + 1] /\ UNCHANGED <<due, releases>>
  <2>0. /\ todo \in [Items -> Nat] /\ todo[i] > 0
        /\ todo' = [todo EXCEPT ![i] = todo[i] - 1]
        /\ bucket \in [{0, 1, 2, 3} -> [Items -> Nat]]
    BY <1>0, FourBuckets DEF Visits, IInv, DecayTypeOK
  <2>1. todo' \in [Items -> Nat] /\ todo'[i] = todo[i] - 1
        /\ \A h \in Items : h # i => todo'[h] = todo[h]
    BY <2>0
  <2>2. bucket[next] \in [Items -> Nat]
    BY <2>0, <1>2
  <2>3. bucket' = [bucket EXCEPT ![next] = [bucket[next] EXCEPT ![i] = bucket[next][i] + 1]]
    BY <1>8
  <2>4. /\ bucket' \in [{0, 1, 2, 3} -> [Items -> Nat]]
        /\ bucket'[next][i] = bucket[next][i] + 1
        /\ \A c \in {0, 1, 2, 3} : c # next => bucket'[c] = bucket[c]
        /\ \A c \in {0, 1, 2, 3} : \A h \in Items : h # i => bucket'[c][h] = bucket[c][h]
    BY <2>0, <2>2, <2>3, <1>2
  <2>5. DecayTypeOK'
    BY <1>0, <1>3, <1>8, <2>1, <2>4, FourBuckets DEF IInv, DecayTypeOK
  <2>6. ASSUME NEW h \in Items PROVE Entries(h)' = Entries(h)
    <3>1. CASE h # i
      BY <3>1, <2>1, <2>4, <1>0 DEF Entries
    <3>2. CASE h = i
      <4>1. /\ todo'[i] = todo[i] - 1 /\ fresh'[i] = fresh[i]
            /\ fresh[i] \in Nat /\ todo[i] \in Nat
            /\ bucket[0][i] \in Nat /\ bucket[1][i] \in Nat
            /\ bucket[2][i] \in Nat /\ bucket[3][i] \in Nat
        BY <2>1, <1>0, EntriesCount DEF IInv
      <4>2. CASE next = 0
        BY <3>2, <4>1, <4>2, <2>4 DEF Entries
      <4>3. CASE next = 1
        BY <3>2, <4>1, <4>3, <2>4 DEF Entries
      <4>4. CASE next = 2
        BY <3>2, <4>1, <4>4, <2>4 DEF Entries
      <4>5. CASE next = 3
        BY <3>2, <4>1, <4>5, <2>4 DEF Entries
      <4> QED  BY <1>2, <4>2, <4>3, <4>4, <4>5
    <3> QED  BY <3>1, <3>2
  <2>7. RefsAreExact'
    BY <1>0, <1>8, <2>6 DEF IInv, RefsAreExact
  <2>8. DecayingIsListed'
    BY <1>0, <1>8, <2>6 DEF IInv, DecayingIsListed
  <2> QED  BY <1>5, <1>6, <2>5, <2>7, <2>8 DEF IInv
<1> QED  BY <1>0, <1>7, <1>8


\* cleanup moves every new entry to exactly one bucket, and what it frees is
\* nowhere.
LEMMA CleanCounts ==
  ASSUME IInv, NEW b \in 0 .. Buckets - 1, Clean(b), UNCHANGED <<placed, todo, due>>,
         due = NoItem
  PROVE  /\ kind' \in [Items -> Kinds \cup {NoKind}]
         /\ duration' \in [Items -> Int] /\ decaying' \in [Items -> BOOLEAN]
         /\ refs' \in [Items -> Nat] /\ releases' \in [Items -> Nat]
         /\ fresh' \in [Items -> Nat] /\ bucket' \in [0 .. Buckets - 1 -> [Items -> Nat]]
         /\ left' \in [Items -> Int] /\ timed' \in [Items -> BOOLEAN]
         /\ origin' \in [Items -> Origins] /\ spent' \subseteq Items
         /\ RefsAreExact' /\ DecayingIsListed' /\ DueDecays' /\ FreeAreUnmarked'
<1> DEFINE B(i) == FreshBucket(b, duration[i])
<1>0. /\ refs' = [i \in Items |-> refs[i] - releases[i]]
      /\ releases' = Zero /\ fresh' = Zero
      /\ kind' = [i \in Items |-> IF Freed(i) THEN NoKind ELSE kind[i]]
      /\ duration' = [i \in Items |-> IF Freed(i) THEN 0 ELSE duration[i]]
      /\ decaying' = [i \in Items |-> decaying[i] /\ ~Freed(i)]
      /\ timed' = [i \in Items |-> timed[i] /\ ~Freed(i)]
      /\ left' = [i \in Items |-> IF Freed(i) THEN 0 ELSE left[i]]
      /\ bucket' = [c \in {0, 1, 2, 3} |-> [i \in Items |->
                       bucket[c][i] + (IF c = B(i) THEN fresh[i] ELSE 0)]]
      /\ origin' = [i \in Items |-> IF Freed(i) THEN "created" ELSE origin[i]]
      /\ spent' = {i \in spent : ~Freed(i)}
      /\ UNCHANGED <<placed, todo, due>>
  BY FourBuckets DEF Clean
<1>1. Zero \in [Items -> Nat] /\ \A i \in Items : Zero[i] = 0
  BY DEF Zero
<1>2. \A i \in Items : B(i) \in {0, 1, 2, 3}
  BY BucketsAgree DEF IInv, DecayTypeOK
<1> HIDE DEF B
<1>3. bucket \in [{0, 1, 2, 3} -> [Items -> Nat]] /\ fresh \in [Items -> Nat]
  BY FourBuckets DEF IInv, DecayTypeOK
<1>4. bucket' \in [0 .. Buckets - 1 -> [Items -> Nat]]
  <2>1. bucket' \in [{0, 1, 2, 3} -> [Items -> Nat]]
    BY <1>0, <1>3
  <2> QED  BY <2>1, FourBuckets
<1>5. ASSUME NEW i \in Items PROVE Entries(i)' = Entries(i)
  <2>1. /\ fresh'[i] = 0 /\ todo'[i] = todo[i]
        /\ fresh[i] \in Nat /\ todo[i] \in Nat
        /\ bucket[0][i] \in Nat /\ bucket[1][i] \in Nat
        /\ bucket[2][i] \in Nat /\ bucket[3][i] \in Nat
    BY <1>0, <1>1, EntriesCount DEF IInv
  <2>2. \A c \in {0, 1, 2, 3} : bucket'[c][i] = bucket[c][i] + (IF c = B(i) THEN fresh[i] ELSE 0)
    BY <1>0
  <2>3. CASE B(i) = 0
    BY <2>1, <2>2, <2>3 DEF Entries
  <2>4. CASE B(i) = 1
    BY <2>1, <2>2, <2>4 DEF Entries
  <2>5. CASE B(i) = 2
    BY <2>1, <2>2, <2>5 DEF Entries
  <2>6. CASE B(i) = 3
    BY <2>1, <2>2, <2>6 DEF Entries
  <2> QED  BY <1>2, <2>3, <2>4, <2>5, <2>6
<1>6. ASSUME NEW i \in Items
      PROVE  /\ refs[i] \in Nat /\ releases[i] \in Nat /\ Entries(i) \in Nat
             /\ Held(i) \in {0, 1} /\ Held(i)' = Held(i)
             /\ refs[i] = Held(i) + Entries(i) + releases[i]
             /\ kind[i] = NoKind <=> refs[i] = 0
             /\ refs'[i] = Held(i) + Entries(i) /\ releases'[i] = 0
             /\ Freed(i) <=> refs[i] > 0 /\ refs'[i] = 0
  <2>1. /\ refs[i] \in Nat /\ releases[i] \in Nat /\ Entries(i) \in Nat
        /\ Held(i) \in {0, 1}
    BY EntriesCount, HeldCounts DEF IInv
  <2>2. Held(i)' = Held(i)
    BY <1>0 DEF Held
  <2>3. Counted(i)
    BY RefsCounted DEF IInv
  <2>4. refs'[i] = refs[i] - releases[i] /\ releases'[i] = 0
    BY <1>0, <1>1
  <2>5. Freed(i) <=> refs[i] > 0 /\ refs'[i] = 0
    BY <2>1, <2>3, <2>4 DEF Freed, Counted
  <2> QED  BY <2>1, <2>2, <2>3, <2>4, <2>5 DEF Counted
<1>7. /\ kind' \in [Items -> Kinds \cup {NoKind}]
      /\ duration' \in [Items -> Int] /\ left' \in [Items -> Int]
  BY <1>0 DEF IInv, DecayTypeOK
<1>8. decaying' \in [Items -> BOOLEAN] /\ timed' \in [Items -> BOOLEAN]
  BY <1>0
<1>15. origin' \in [Items -> Origins] /\ spent' \subseteq Items
  BY <1>0 DEF IInv, DecayTypeOK, Origins
<1>9. refs' \in [Items -> Nat]
  BY <1>0, <1>6
<1>10. RefsAreExact'
  <2> SUFFICES ASSUME NEW i \in Items PROVE Counted(i)'
    BY RefsCountedNext
  <2>1. refs'[i] = Held(i)' + Entries(i)' + releases'[i]
    BY <1>5, <1>6
  <2>2. kind'[i] = NoKind <=> Freed(i) \/ refs[i] = 0
    BY <1>0, <1>6
  <2>3. refs'[i] = 0 <=> Freed(i) \/ refs[i] = 0
    BY <1>6
  <2> QED  BY <2>1, <2>2, <2>3 DEF Counted
<1>11. \A i \in Items : decaying'[i] => decaying[i] /\ ~Freed(i)
  BY <1>0
<1>12. DecayingIsListed'
  BY <1>0, <1>5, <1>11 DEF IInv, DecayingIsListed
<1>13. DueDecays'
  BY <1>0 DEF DueDecays
<1>14. FreeAreUnmarked'
  BY <1>0, <1>11 DEF IInv, FreeAreUnmarked
<1> QED  BY <1>0, <1>1, <1>4, <1>7, <1>8, <1>9, <1>10, <1>12, <1>13, <1>14, <1>15

LEMMA EndCheckKeeps ==
  ASSUME IInv, EndCheck
  PROVE  IInv'
<1>1. After(last) \in 0 .. Buckets - 1
  <2>1. last \in 0 .. Buckets - 1 /\ 0 \in Int
    BY DEF IInv, DecayTypeOK
  <2> QED  BY <2>1, BucketsAgree, FourBuckets
<1>2. /\ due = NoItem /\ todo = Zero /\ last' = After(last) /\ checking' = FALSE
      /\ Clean(After(last)) /\ UNCHANGED <<placed, todo, due>>
  BY DEF EndCheck
<1>3. LoopIsEmpty'
  BY <1>2 DEF LoopIsEmpty, Zero
<1> HIDE DEF LoopIsEmpty
<1> QED  BY <1>1, <1>2, <1>3, CleanCounts DEF IInv, DecayTypeOK

LEMMA CleanupKeeps ==
  ASSUME IInv, Cleanup
  PROVE  IInv'
<1>1. /\ due = NoItem /\ last \in 0 .. Buckets - 1
      /\ Clean(last) /\ UNCHANGED <<placed, last, checking, todo, due>>
  BY DEF Cleanup, AtRest, IInv, DecayTypeOK
<1>2. LoopIsEmpty'
  BY <1>1 DEF IInv, LoopIsEmpty, Zero
<1> QED  BY <1>1, <1>2, CleanCounts DEF IInv, DecayTypeOK

-----------------------------------------------------------------------------
(* The theorems *)

LEMMA NextKeeps ==
  ASSUME IInv, DecayNext
  PROVE  IInv'
<1>1. ASSUME NEW i \in Items, NEW k \in Kinds, NEW o \in Sources,
             NEW d \in Imported \cup {1000 * DecayTime[k]}, Create(i, k, d, o)
      PROVE  IInv'
  <2>1. Imported \subseteq Nat /\ 1000 * DecayTime[k] \in Int
    BY KindsAssumption, KindsTyped
  <2>2. d \in Int
    BY <2>1
  <2>3. o \in Origins
    BY KindsAssumption
  <2> QED  BY <1>1, <2>2, <2>3, CreateKeeps
<1>2. ASSUME NEW i \in Items, RemoveItem(i) PROVE IInv'
  <2>1. /\ placed[i] /\ Removed(i) /\ due = NoItem /\ due' = NoItem
        /\ UNCHANGED <<kind, duration, decaying, origin, refs, lists, left, timed, spent>>
    BY <1>2 DEF RemoveItem, AtRest
  <2> QED  BY <2>1, RemoveKeeps
<1>3. ASSUME NEW i \in Items, SetDuration(i, 1) PROVE IInv'
  BY <1>3, SetDurationKeeps
<1>4. ASSUME NEW i \in Items, NEW j \in Items, NEW k \in Kinds, Transform(i, j, k) PROVE IInv'
  BY <1>4, TransformKeeps
<1>5. ASSUME NEW i \in Items, StartDecay(i) PROVE IInv'
  BY <1>5, StartDecayKeeps
<1>6. ASSUME NEW i \in Items, Becomes(i) PROVE IInv'
  BY <1>6, BecomesKeeps
<1>7. ASSUME NEW j \in Items, IsReplaced(j) PROVE IInv'
  BY <1>7, IsReplacedKeeps
<1>8. ASSUME NEW i \in Items, Drop(i) PROVE IInv'
  BY <1>8, DropKeeps
<1>9. ASSUME NEW i \in Items, Pass(i) PROVE IInv'
  BY <1>9, PassKeeps
<1>10. ASSUME NEW i \in Items, SetId(i) PROVE IInv'
  BY <1>10, SetIdKeeps
<1> QED  BY <1>1, <1>2, <1>3, <1>4, <1>5, <1>6, <1>7, <1>8, <1>9, <1>10, VanishesKeeps, StaysPutKeeps,
            BeginCheckKeeps, EndCheckKeeps, CleanupKeeps DEF DecayNext

LEMMA StutterKeeps ==
  ASSUME IInv, UNCHANGED decayVars
  PROVE  IInv'
<1>1. \A i \in Items : Entries(i)' = Entries(i)
  BY DEF decayVars, Entries
<1>2. UNCHANGED <<kind, duration, decaying, placed, origin, refs, releases, fresh, bucket,
                  last, checking, todo, due, left, timed, spent>>
  BY DEF decayVars
<1>3. DecayTypeOK'
  BY <1>2 DEF IInv, DecayTypeOK
<1>4. RefsAreExact' /\ DecayingIsListed'
  BY <1>1, <1>2 DEF IInv, RefsAreExact, DecayingIsListed
<1>5. DueDecays' /\ LoopIsEmpty' /\ FreeAreUnmarked'
  BY <1>2 DEF IInv, DueDecays, LoopIsEmpty, FreeAreUnmarked, MayDecay, Zero
<1> QED  BY <1>3, <1>4, <1>5 DEF IInv

LEMMA Inductive == DecaySpec => []IInv
<1>1. IInv /\ [DecayNext]_decayVars => IInv'
  BY NextKeeps, StutterKeeps
<1> QED  BY InitKeeps, <1>1, PTL DEF DecaySpec

\* The references of every item are those that are held, so no list of the decay
\* ever keeps a pointer to a freed item, for any items, types and durations.
THEOREM ReferencesAreExact == DecaySpec => []RefsAreExact
<1>1. IInv => RefsAreExact
  BY DEF IInv
<1> QED  BY Inductive, <1>1, PTL

\* An item with the mark of a decay is in a list or is being decayed, unless its
\* decay ended before and neither removed nor unmarked it, for any items, types,
\* durations and ids.
THEOREM MarkedIsListed == DecaySpec => []DecayingIsListed
<1>1. IInv => DecayingIsListed
  BY DEF IInv
<1> QED  BY Inductive, <1>1, PTL

\* The variables keep their types.
THEOREM TypeCorrect == DecaySpec => []DecayTypeOK
<1>1. IInv => DecayTypeOK
  BY DEF IInv
<1> QED  BY Inductive, <1>1, PTL

-----------------------------------------------------------------------------
(* Decay on time.  Of an item that is listed once and left alone, the duration *)
(* and the time that is left run apart, but by no more than the bucket of its  *)
(* entry allows.                                                               *)

\* The bucket that was visited last, and how many checks there are until that of
\* bucket c.
Now == IF checking THEN After(last) ELSE last

ChecksTill(c) == IF c > Now THEN c - Now ELSE c - Now + 4

\* What is left, l, of an item with duration d when its entry is visited.
Punctual(d, l) ==
  /\ d >= 1000 => l \in {d - 1000, d - 1250}
  /\ d < 1000 => -500 < l /\ l < 1000

Countdown(i) ==
  /\ kind[i] # NoKind /\ decaying[i]
  /\ Entries(i) <= 1
  /\ due = i => Entries(i) = 0
  /\ fresh[i] > 0 =>
       /\ duration[i] > 0
       /\ left[i] = duration[i] \/ (checking /\ left[i] = duration[i] - 250)
  /\ \A c \in {0, 1, 2, 3} :
       bucket[c][i] > 0 => Punctual(duration[i], left[i] - 250 * ChecksTill(c))
  /\ todo[i] > 0 => Punctual(duration[i], left[i])
  /\ Entries(i) = 0 =>
       /\ checking /\ (due = i \/ ~placed[i])
       /\ -500 < left[i] /\ left[i] < 1000

CInv == \A i \in Items : timed[i] => Countdown(i)

\* The ring of buckets: the next one is one check away, the one just visited four.
LEMMA Ring ==
  ASSUME DecayTypeOK
  PROVE  /\ last \in {0, 1, 2, 3}
         /\ After(last) = IF last = 3 THEN 0 ELSE last + 1
         /\ Now \in {0, 1, 2, 3}
         /\ \A c \in {0, 1, 2, 3} : ChecksTill(c) \in {1, 2, 3, 4}
<1>1. last \in {0, 1, 2, 3}
  BY FourBuckets DEF DecayTypeOK
<1>2. After(last) = IF last = 3 THEN 0 ELSE last + 1
  BY <1>1 DEF After, Buckets
<1>3. Now \in {0, 1, 2, 3}
  BY <1>1, <1>2 DEF Now
<1>4. \A c \in {0, 1, 2, 3} : ChecksTill(c) \in {1, 2, 3, 4}
  BY <1>3 DEF ChecksTill
<1> QED  BY <1>1, <1>2, <1>3, <1>4

\* What does not change of an item keeps its countdown; it may leave its place.
LEMMA Untouched ==
  ASSUME NEW h \in Items, Countdown(h), UNCHANGED <<checking, last>>,
         kind'[h] # NoKind, decaying'[h], duration'[h] = duration[h],
         left'[h] = left[h], fresh'[h] = fresh[h], todo'[h] = todo[h],
         \A c \in {0, 1, 2, 3} : bucket'[c][h] = bucket[c][h],
         due' = h => due = h, due = h => due' = h \/ ~placed'[h],
         placed'[h] => placed[h]
  PROVE  Countdown(h)'
<1>1. Entries(h)' = Entries(h)
  BY DEF Entries
<1>2. \A c \in {0, 1, 2, 3} : ChecksTill(c)' = ChecksTill(c)
  BY DEF ChecksTill, Now, After
<1> HIDE DEF Entries, ChecksTill, Punctual
<1> QED  BY <1>1, <1>2 DEF Countdown, Punctual

\* Who has no entry is in none of the lists; who has one is in one of them.
LEMMA FewEntries ==
  ASSUME DecayTypeOK, NEW i \in Items, Entries(i) <= 1
  PROVE  /\ Entries(i) = 0 =>
              /\ fresh[i] = 0 /\ todo[i] = 0
              /\ \A c \in {0, 1, 2, 3} : bucket[c][i] = 0
         /\ fresh[i] > 0 => todo[i] = 0 /\ \A c \in {0, 1, 2, 3} : bucket[c][i] = 0
         /\ todo[i] > 0 => fresh[i] = 0 /\ \A c \in {0, 1, 2, 3} : bucket[c][i] = 0
         /\ Entries(i) = 1 =>
              \/ fresh[i] > 0 \/ todo[i] > 0
              \/ \E c \in {0, 1, 2, 3} : bucket[c][i] > 0
<1>1. /\ fresh[i] \in Nat /\ todo[i] \in Nat
      /\ bucket[0][i] \in Nat /\ bucket[1][i] \in Nat
      /\ bucket[2][i] \in Nat /\ bucket[3][i] \in Nat
  BY EntriesCount
<1> DEFINE a == fresh[i]
           b == todo[i]
           c0 == bucket[0][i]
           c1 == bucket[1][i]
           c2 == bucket[2][i]
           c3 == bucket[3][i]
<1>2. a + b + c0 + c1 + c2 + c3 = Entries(i)
  BY DEF Entries
<1>3. a \in Nat /\ b \in Nat /\ c0 \in Nat /\ c1 \in Nat /\ c2 \in Nat /\ c3 \in Nat
  BY <1>1
<1>4. \A c \in {0, 1, 2, 3} : bucket[c][i] = c0 \/ bucket[c][i] = c1
                              \/ bucket[c][i] = c2 \/ bucket[c][i] = c3
  OBVIOUS
<1>5. /\ c0 > 0 => bucket[0][i] > 0
      /\ c1 > 0 => bucket[1][i] > 0
      /\ c2 > 0 => bucket[2][i] > 0
      /\ c3 > 0 => bucket[3][i] > 0
  OBVIOUS
<1>6. /\ a > 0 => fresh[i] > 0
      /\ fresh[i] > 0 => a > 0
      /\ fresh[i] = a /\ todo[i] = b
  OBVIOUS
<1> HIDE DEF a, b, c0, c1, c2, c3
<1>7. /\ a + b + c0 + c1 + c2 + c3 = 0 =>
           a = 0 /\ b = 0 /\ c0 = 0 /\ c1 = 0 /\ c2 = 0 /\ c3 = 0
      /\ a > 0 => b = 0 /\ c0 = 0 /\ c1 = 0 /\ c2 = 0 /\ c3 = 0
      /\ b > 0 => a = 0 /\ c0 = 0 /\ c1 = 0 /\ c2 = 0 /\ c3 = 0
      /\ a + b + c0 + c1 + c2 + c3 = 1 =>
           a > 0 \/ b > 0 \/ c0 > 0 \/ c1 > 0 \/ c2 > 0 \/ c3 > 0
  BY <1>2, <1>3
<1> QED  BY <1>2, <1>4, <1>5, <1>6, <1>7

\* An item that is listed for the first time.
LEMMA Starts ==
  ASSUME IInv, IInv', NEW i \in Items, NEW d \in Int, Listed(i, d), d > 0, timed'[i],
         kind'[i] # NoKind, decaying'[i], duration'[i] = d, due' # i,
         UNCHANGED <<bucket, todo>>
  PROVE  Countdown(i)'
<1>1. Entries(i) = 0 /\ fresh'[i] = fresh[i] + 1 /\ left'[i] = d
  <2>1. timed' = [timed EXCEPT ![i] = Entries(i) = 0]
        /\ left' = [left EXCEPT ![i] = IF Entries(i) = 0 THEN d ELSE 0]
        /\ fresh' = [fresh EXCEPT ![i] = fresh[i] + 1]
    BY DEF Listed
  <2>2. timed'[i] = (Entries(i) = 0)
    BY <2>1 DEF IInv, DecayTypeOK
  <2>3. Entries(i) = 0
    BY <2>2
  <2> QED  BY <2>1, <2>3 DEF IInv, DecayTypeOK
<1>2. /\ fresh[i] = 0 /\ todo[i] = 0
      /\ bucket[0][i] = 0 /\ bucket[1][i] = 0 /\ bucket[2][i] = 0 /\ bucket[3][i] = 0
  BY <1>1, FewEntries DEF IInv
<1>3. /\ fresh'[i] = 1 /\ todo'[i] = 0
      /\ bucket'[0][i] = 0 /\ bucket'[1][i] = 0 /\ bucket'[2][i] = 0 /\ bucket'[3][i] = 0
  BY <1>1, <1>2
<1>4. Entries(i)' = 1
  BY <1>3 DEF Entries
<1> HIDE DEF Entries, ChecksTill, Punctual
<1> QED  BY <1>1, <1>3, <1>4 DEF Countdown

LEMMA StartDecayCounts ==
  ASSUME IInv, IInv', CInv, NEW i \in Items, StartDecay(i)
  PROVE  CInv'
<1>0. /\ placed[i] /\ ~decaying[i] /\ due = NoItem /\ ~checking
      /\ UNCHANGED <<kind, duration, placed, releases, bucket, last, checking, todo>>
  BY DEF StartDecay, AtRest, CanDecay
<1>1. ~timed[i] /\ i # NoItem /\ kind[i] # NoKind
  BY <1>0, KindsAssumption, PlacedHasKind DEF CInv, Countdown
<1>2. ASSUME NEW h \in Items, h # i, timed'[h] PROVE Countdown(h)'
  <2>1. /\ timed'[h] = timed[h] /\ left'[h] = left[h] /\ fresh'[h] = fresh[h]
        /\ decaying'[h] = decaying[h] /\ due' # h
    <3>1. CASE duration[i] > 0
      <4>1. /\ decaying' = [decaying EXCEPT ![i] = TRUE] /\ due' = due
            /\ fresh' = [fresh EXCEPT ![i] = fresh[i] + 1]
            /\ timed' = [timed EXCEPT ![i] = Entries(i) = 0]
            /\ left' = [left EXCEPT ![i] = IF Entries(i) = 0 THEN duration[i] ELSE 0]
        <5>1. duration[i] \in Int
          BY DEF IInv, DecayTypeOK
        <5>2. decaying' = [decaying EXCEPT ![i] = TRUE] /\ Listed(i, duration[i]) /\ due' = due
          BY <3>1, <5>1 DEF StartDecay
        <5> QED  BY <5>2 DEF Listed
      <4> QED  BY <4>1, <1>0, <1>2, KindsAssumption DEF IInv, DecayTypeOK
    <3>2. CASE ~(duration[i] > 0)
      BY <3>2, <1>2 DEF StartDecay
    <3> QED  BY <3>1, <3>2
  <2>2. Countdown(h)
    BY <1>2, <2>1 DEF CInv
  <2>3. due # h /\ kind'[h] # NoKind /\ decaying'[h]
    BY <1>0, <2>1, <2>2, KindsAssumption DEF Countdown
  <2> QED  BY <1>0, <2>1, <2>2, <2>3, Untouched
<1>3. ASSUME timed'[i] PROVE Countdown(i)'
  <2>1. duration[i] > 0
    BY <1>1, <1>3 DEF StartDecay
  <2>2. decaying' = [decaying EXCEPT ![i] = TRUE] /\ Listed(i, duration[i]) /\ due' = due
    BY <2>1 DEF StartDecay, IInv, DecayTypeOK
  <2>3. decaying'[i] /\ due' # i /\ duration[i] \in Int
    BY <2>2, <1>0, <1>1 DEF IInv, DecayTypeOK
  <2> QED  BY <1>0, <1>1, <1>3, <2>1, <2>2, <2>3, Starts
<1> QED  BY <1>2, <1>3 DEF CInv

LEMMA BecomesCounts ==
  ASSUME IInv, IInv', CInv, NEW i \in Items, Becomes(i)
  PROVE  CInv'
<1> DEFINE d == DurationAs(i, NextKind)
           starts == MayDecay(NextKind) /\ origin[i] # "named" /\ ~DecayingAs(i, NextKind)
           counts == starts /\ d > 0
<1>0. /\ due = i /\ NextKind \in Kinds
      /\ kind' = [kind EXCEPT ![i] = NextKind]
      /\ duration' = [duration EXCEPT ![i] = d]
      /\ decaying' = [decaying EXCEPT ![i] = DecayingAs(i, NextKind) \/ counts]
      /\ due' = IF starts /\ d <= 0 THEN i ELSE NoItem
      /\ \/ counts /\ Listed(i, d)
         \/ /\ ~counts
            /\ timed' = [timed EXCEPT ![i] = FALSE]
            /\ left' = [left EXCEPT ![i] = 0]
            /\ UNCHANGED <<refs, fresh>>
      /\ UNCHANGED <<placed, origin, releases, bucket, last, checking, todo>>
  BY DEF Becomes, Unlisted
<1>1. i # NoItem /\ NextKind # NoKind /\ d \in Int
  <2>1. DecayTime[NextKind] \in Nat /\ NextKind # NoKind
    BY <1>0, KindsTyped
  <2>2. d \in Int
    BY <2>1, SMTT(30) DEF DurationAs, IInv, DecayTypeOK
  <2> QED  BY <2>1, <2>2, KindsAssumption
<1> HIDE DEF d, starts
<1>2. ASSUME NEW h \in Items, h # i, timed'[h] PROVE Countdown(h)'
  <2>1. /\ timed'[h] = timed[h] /\ left'[h] = left[h] /\ fresh'[h] = fresh[h]
        /\ decaying'[h] = decaying[h] /\ kind'[h] = kind[h] /\ duration'[h] = duration[h]
    <3>1. /\ decaying'[h] = decaying[h] /\ kind'[h] = kind[h]
          /\ duration'[h] = duration[h]
      BY <1>0, <1>2 DEF IInv, DecayTypeOK
    <3>2. timed'[h] = timed[h] /\ left'[h] = left[h] /\ fresh'[h] = fresh[h]
      <4>1. CASE Listed(i, d)
        BY <4>1, <1>2 DEF Listed, IInv, DecayTypeOK
      <4>2. CASE ~Listed(i, d)
        <5>1. /\ timed' = [timed EXCEPT ![i] = FALSE]
              /\ left' = [left EXCEPT ![i] = 0]
              /\ fresh' = fresh
          BY <4>2, <1>0
        <5> QED  BY <5>1, <1>2 DEF IInv, DecayTypeOK
      <4> QED  BY <4>1, <4>2
    <3> QED  BY <3>1, <3>2
  <2>2. Countdown(h)
    BY <1>2, <2>1 DEF CInv
  <2>3. due # h /\ due' # h
    BY <1>0, <1>2, KindsAssumption
  <2>4. kind'[h] # NoKind /\ decaying'[h]
    BY <2>1, <2>2 DEF Countdown
  <2> QED  BY <1>0, <2>1, <2>2, <2>3, <2>4, Untouched
<1>3. ASSUME timed'[i] PROVE Countdown(i)'
  <2>1. counts /\ Listed(i, d)
    BY <1>0, <1>3 DEF IInv, DecayTypeOK
  <2>2. d > 0 /\ kind'[i] # NoKind /\ duration'[i] = d /\ due' # i
    BY <1>0, <1>1, <2>1 DEF IInv, DecayTypeOK
  <2>3. decaying'[i]
    BY <1>0, <2>1 DEF IInv, DecayTypeOK
  <2> QED  BY <1>0, <1>1, <1>3, <2>1, <2>2, <2>3, Starts
<1> QED  BY <1>2, <1>3 DEF CInv

\* Whatever happens to items that are not timed, or are no more.
LEMMA OthersCount ==
  ASSUME CInv, UNCHANGED <<lists, due>>,
         \A h \in Items : timed'[h] =>
            /\ timed[h] /\ left'[h] = left[h]
            /\ kind'[h] # NoKind /\ decaying'[h] = decaying[h]
            /\ duration'[h] = duration[h]
            /\ placed'[h] => placed[h]
  PROVE  CInv'
<1> SUFFICES ASSUME NEW h \in Items, timed'[h] PROVE Countdown(h)'
  BY DEF CInv
<1>1. Countdown(h) /\ decaying[h]
  BY DEF CInv, Countdown
<1> QED  BY <1>1, Untouched DEF lists

LEMMA CreateCounts ==
  ASSUME IInv, CInv, NEW i \in Items, NEW k \in Kinds, NEW d \in Int, NEW o \in Origins,
         Create(i, k, d, o)
  PROVE  CInv'
<1>1. kind[i] = NoKind /\ UNCHANGED <<decaying, lists, due, left, timed>>
      /\ kind' = [kind EXCEPT ![i] = k] /\ duration' = [duration EXCEPT ![i] = d]
      /\ placed' = [placed EXCEPT ![i] = TRUE]
  BY DEF Create
<1>2. ~timed[i]
  BY <1>1 DEF CInv, Countdown
<1>3. ASSUME NEW h \in Items, timed'[h]
      PROVE  /\ timed[h] /\ left'[h] = left[h]
             /\ kind'[h] # NoKind /\ decaying'[h] = decaying[h]
             /\ duration'[h] = duration[h]
             /\ placed'[h] => placed[h]
  <2>1. timed[h] /\ h # i
    BY <1>1, <1>2, <1>3
  <2>2. kind[h] # NoKind
    BY <2>1 DEF CInv, Countdown
  <2> QED  BY <1>1, <2>1, <2>2 DEF IInv, DecayTypeOK
<1> QED  BY <1>1, <1>3, OthersCount

LEMMA RemoveItemCounts ==
  ASSUME IInv, CInv, NEW i \in Items, RemoveItem(i)
  PROVE  CInv'
<1>1. /\ placed' = [placed EXCEPT ![i] = FALSE]
      /\ UNCHANGED <<kind, duration, decaying, lists, due, left, timed>>
  BY DEF RemoveItem, Removed
<1>2. \A h \in Items : placed'[h] => placed[h]
  BY <1>1 DEF IInv, DecayTypeOK
<1>3. \A h \in Items : timed[h] => kind[h] # NoKind
  BY DEF CInv, Countdown
<1> QED  BY <1>1, <1>2, <1>3, OthersCount

LEMMA SetIdCounts ==
  ASSUME CInv, NEW i \in Items, SetId(i)
  PROVE  CInv'
<1>1. UNCHANGED <<kind, duration, decaying, placed, lists, due, left, timed>>
  BY DEF SetId
<1>2. \A h \in Items : timed[h] => kind[h] # NoKind
  BY DEF CInv, Countdown
<1> QED  BY <1>1, <1>2, OthersCount

LEMMA SetDurationCounts ==
  ASSUME IInv, CInv, NEW i \in Items, SetDuration(i, 1)
  PROVE  CInv'
<1>1. /\ duration' = [duration EXCEPT ![i] = 1000 * 1]
      /\ timed' = [timed EXCEPT ![i] = FALSE] /\ left' = [left EXCEPT ![i] = 0]
      /\ UNCHANGED <<kind, decaying, placed, lists, due>>
  BY DEF SetDuration
<1>2. \A h \in Items : timed'[h] =>
        timed[h] /\ h # i /\ left'[h] = left[h] /\ duration'[h] = duration[h]
  BY <1>1 DEF IInv, DecayTypeOK
<1>3. \A h \in Items : timed[h] => kind[h] # NoKind
  BY DEF CInv, Countdown
<1> QED  BY <1>1, <1>2, <1>3, OthersCount

\* A new object takes the place of another; it is not timed.
LEMMA ReplaceOthers ==
  ASSUME IInv, CInv, NEW i \in Items, NEW j \in Items, NEW k \in Kinds, placed[i],
         Replace(i, j, k), UNCHANGED <<decaying, left, timed>>
  PROVE  \A h \in Items : timed'[h] =>
            /\ timed[h] /\ left'[h] = left[h] /\ h # j
            /\ kind'[h] # NoKind /\ decaying'[h] = decaying[h]
            /\ duration'[h] = duration[h]
            /\ placed'[h] => placed[h] /\ h # i
<1>1. kind[j] = NoKind /\ kind' = [kind EXCEPT ![j] = k]
      /\ duration' = [duration EXCEPT ![j] = 0]
      /\ placed' = [placed EXCEPT ![i] = FALSE, ![j] = TRUE]
  BY DEF Replace
<1>2. ~timed[j]
  BY <1>1 DEF CInv, Countdown
<1> SUFFICES ASSUME NEW h \in Items, timed[h]
             PROVE  /\ h # j
                    /\ kind'[h] # NoKind
                    /\ duration'[h] = duration[h]
                    /\ placed'[h] => placed[h] /\ h # i
  OBVIOUS
<1>3. h # j
  BY <1>2
<1>4. kind'[h] = kind[h] /\ duration'[h] = duration[h] /\ (placed'[h] => placed[h] /\ h # i)
  BY <1>1, <1>3 DEF IInv, DecayTypeOK
<1>5. kind[h] # NoKind
  BY DEF CInv, Countdown
<1> QED  BY <1>3, <1>4, <1>5

LEMMA TransformCounts ==
  ASSUME IInv, IInv', CInv, NEW i \in Items, NEW j \in Items, NEW k \in Kinds,
         Transform(i, j, k)
  PROVE  CInv'
<1>0. placed[i] /\ UNCHANGED <<lists, due>>
  BY DEF Transform
<1>1. CASE Group[kind[i]] = Group[k]
  <2>1. /\ kind' = [kind EXCEPT ![i] = k]
        /\ duration' = [duration EXCEPT ![i] = DurationAs(i, k)]
        /\ decaying' = [decaying EXCEPT ![i] = DecayingAs(i, k)]
        /\ timed' = [timed EXCEPT ![i] = timed[i] /\ KeepsTime(i, k)]
        /\ left' = [left EXCEPT ![i] = IF timed'[i] THEN left[i] ELSE 0]
        /\ placed' = placed
    BY <1>1 DEF Transform
  <2>2. ASSUME NEW h \in Items, timed'[h]
        PROVE  /\ timed[h] /\ left'[h] = left[h]
               /\ kind'[h] # NoKind /\ decaying'[h] = decaying[h]
               /\ duration'[h] = duration[h]
    <3>1. CASE h = i
      <4>1. timed'[i] = (timed[i] /\ KeepsTime(i, k))
        BY <2>1 DEF IInv, DecayTypeOK
      <4>2. timed[i] /\ KeepsTime(i, k)
        BY <2>2, <3>1, <4>1
      <4>3. DurationAs(i, k) = duration[i] /\ DecayingAs(i, k) = decaying[i]
        <5>1. decaying[i] \in BOOLEAN
          BY DEF IInv, DecayTypeOK
        <5> QED  BY <4>2, <5>1 DEF DurationAs, DecayingAs, KeepsTime
      <4>4. left'[i] = left[i] /\ kind'[i] = k
            /\ duration'[i] = DurationAs(i, k) /\ decaying'[i] = DecayingAs(i, k)
        BY <2>1, <2>2, <3>1 DEF IInv, DecayTypeOK
      <4> QED  BY <3>1, <4>2, <4>3, <4>4, KindsTyped
    <3>2. CASE h # i
      <4>1. timed[h] /\ left'[h] = left[h] /\ kind'[h] = kind[h]
            /\ decaying'[h] = decaying[h] /\ duration'[h] = duration[h]
        BY <2>1, <2>2, <3>2 DEF IInv, DecayTypeOK
      <4> QED  BY <4>1 DEF CInv, Countdown
    <3> QED  BY <3>1, <3>2
  <2> QED  BY <1>0, <2>1, <2>2, OthersCount
<1>2. CASE Group[kind[i]] # Group[k]
  <2>1. Replace(i, j, k) /\ UNCHANGED <<decaying, left, timed, spent>>
    BY <1>2 DEF Transform
  <2>2. \A h \in Items : timed'[h] =>
            /\ timed[h] /\ left'[h] = left[h]
            /\ kind'[h] # NoKind /\ decaying'[h] = decaying[h]
            /\ duration'[h] = duration[h]
            /\ placed'[h] => placed[h]
    BY <1>0, <2>1, ReplaceOthers
  <2> QED  BY <1>0, <2>2, OthersCount
<1> QED  BY <1>1, <1>2

LEMMA VanishesCounts ==
  ASSUME IInv, CInv, Vanishes
  PROVE  CInv'
<1>1. /\ due \in Items /\ due' = NoItem
      /\ placed' = [placed EXCEPT ![due] = FALSE]
      /\ UNCHANGED <<kind, duration, decaying, lists, left, timed>>
  BY DEF Vanishes, Removed, IInv, DecayTypeOK
<1> SUFFICES ASSUME NEW h \in Items, timed[h] PROVE Countdown(h)'
  BY <1>1 DEF CInv
<1>2. Countdown(h) /\ kind[h] # NoKind /\ decaying[h]
  BY DEF CInv, Countdown
<1>3. due' # h /\ (placed'[h] => placed[h]) /\ (due = h => ~placed'[h])
  BY <1>1, KindsAssumption DEF IInv, DecayTypeOK
<1> QED  BY <1>1, <1>2, <1>3, Untouched DEF lists

LEMMA StaysPutCounts ==
  ASSUME IInv, CInv, StaysPut
  PROVE  CInv'
<1>1. /\ due \in Items /\ due' = NoItem
      /\ timed' = [timed EXCEPT ![due] = FALSE] /\ left' = [left EXCEPT ![due] = 0]
      /\ UNCHANGED <<kind, duration, decaying, placed, lists>>
  BY DEF StaysPut, Unlisted, IInv, DecayTypeOK
<1> SUFFICES ASSUME NEW h \in Items, timed'[h] PROVE Countdown(h)'
  BY DEF CInv
<1>2. h # due /\ timed[h] /\ left'[h] = left[h]
  BY <1>1 DEF IInv, DecayTypeOK
<1>3. Countdown(h) /\ kind[h] # NoKind /\ decaying[h]
  BY <1>2 DEF CInv, Countdown
<1>4. due' # h
  BY <1>1, KindsAssumption
<1> QED  BY <1>1, <1>2, <1>3, <1>4, Untouched DEF lists

LEMMA IsReplacedCounts ==
  ASSUME IInv, CInv, NEW j \in Items, IsReplaced(j)
  PROVE  CInv'
<1>0. /\ due \in Items /\ placed[due] /\ NextKind \in Kinds
      /\ Replace(due, j, NextKind) /\ UNCHANGED <<decaying, lists, left, timed, spent>>
      /\ due' = IF MayDecay(NextKind) THEN j ELSE NoItem
  BY DEF IsReplaced, IInv, DecayTypeOK, DueDecays
<1> SUFFICES ASSUME NEW h \in Items, timed[h] PROVE Countdown(h)'
  BY <1>0 DEF CInv
<1>1. /\ left'[h] = left[h] /\ h # j
      /\ kind'[h] # NoKind /\ decaying'[h] = decaying[h]
      /\ duration'[h] = duration[h]
      /\ placed'[h] => placed[h] /\ h # due
  BY <1>0, ReplaceOthers
<1>2. Countdown(h) /\ decaying[h]
  BY DEF CInv, Countdown
<1>3. due' # h
  BY <1>0, <1>1, KindsAssumption
<1> QED  BY <1>0, <1>1, <1>2, <1>3, Untouched DEF lists

\* A check begins: a quarter of a round is over for everybody.
LEMMA BeginCheckCounts ==
  ASSUME IInv, IInv', CInv, BeginCheck
  PROVE  CInv'
<1> DEFINE a == After(last)
<1>0. /\ due = NoItem /\ ~checking /\ checking' = TRUE
      /\ todo' = bucket[a]
      /\ bucket' = [bucket EXCEPT ![a] = Zero]
      /\ left' = [i \in Items |-> IF timed[i] THEN left[i] - 250 ELSE 0]
      /\ UNCHANGED <<kind, duration, decaying, placed, fresh, last, due, timed>>
  BY DEF BeginCheck, AtRest, Interval
<1>1. /\ last \in {0, 1, 2, 3} /\ a \in {0, 1, 2, 3}
      /\ a = IF last = 3 THEN 0 ELSE last + 1
      /\ Now = last /\ Now' = a
  <2>1. /\ last \in {0, 1, 2, 3} /\ a = IF last = 3 THEN 0 ELSE last + 1
        /\ a \in {0, 1, 2, 3}
    BY Ring DEF IInv
  <2>2. Now = last /\ Now' = a
    BY <1>0 DEF Now, After
  <2> QED  BY <2>1, <2>2
<1> HIDE DEF a
<1>2. ChecksTill(a) = 1
      /\ \A c \in {0, 1, 2, 3} : c # a => ChecksTill(c)' = ChecksTill(c) - 1
                                          /\ ChecksTill(c) \in Int
  BY <1>1 DEF ChecksTill
<1>3. bucket \in [{0, 1, 2, 3} -> [Items -> Nat]] /\ \A h \in Items : Zero[h] = 0
  BY FourBuckets DEF IInv, DecayTypeOK, Zero
<1> SUFFICES ASSUME NEW h \in Items, timed[h] PROVE Countdown(h)'
  BY <1>0 DEF CInv
<1>4. Countdown(h)
  BY DEF CInv
<1>5. /\ todo[h] = 0 /\ todo'[h] = bucket[a][h] /\ bucket'[a][h] = 0
      /\ \A c \in {0, 1, 2, 3} : c # a => bucket'[c][h] = bucket[c][h]
      /\ bucket[a][h] \in Nat
  <2>1. todo[h] = 0
    BY <1>0, <1>3 DEF IInv, LoopIsEmpty
  <2> QED  BY <2>1, <1>0, <1>1, <1>3
<1>6. left'[h] = left[h] - 250 /\ left[h] \in Int /\ duration[h] \in Int
  BY <1>0 DEF IInv, DecayTypeOK
<1>7. Entries(h)' = Entries(h) /\ Entries(h) \in Nat
  <2>1. /\ fresh[h] \in Nat
        /\ bucket[0][h] \in Nat /\ bucket[1][h] \in Nat
        /\ bucket[2][h] \in Nat /\ bucket[3][h] \in Nat
        /\ Entries(h) \in Nat
    BY EntriesCount DEF IInv
  <2>2. fresh'[h] = fresh[h]
    BY <1>0
  <2>3. CASE a = 0
    BY <1>5, <2>1, <2>2, <2>3 DEF Entries
  <2>4. CASE a = 1
    BY <1>5, <2>1, <2>2, <2>4 DEF Entries
  <2>5. CASE a = 2
    BY <1>5, <2>1, <2>2, <2>5 DEF Entries
  <2>6. CASE a = 3
    BY <1>5, <2>1, <2>2, <2>6 DEF Entries
  <2> QED  BY <1>1, <2>3, <2>4, <2>5, <2>6
<1>8. Entries(h) = 1 /\ due # h
  BY <1>0, <1>4, <1>7, KindsAssumption DEF Countdown
<1>9. fresh'[h] > 0 =>
        duration'[h] > 0 /\ left'[h] = duration'[h] - 250
  BY <1>0, <1>4, <1>6 DEF Countdown
<1>10. ASSUME NEW c \in {0, 1, 2, 3}, bucket'[c][h] > 0
       PROVE  Punctual(duration'[h], left'[h] - 250 * ChecksTill(c)')
  <2>1. c # a /\ bucket[c][h] > 0
    BY <1>5, <1>10
  <2>2. Punctual(duration[h], left[h] - 250 * ChecksTill(c))
    BY <1>4, <2>1 DEF Countdown
  <2>3. left'[h] - 250 * ChecksTill(c)' = left[h] - 250 * ChecksTill(c)
    BY <1>2, <1>6, <2>1
  <2>4. duration'[h] = duration[h]
    BY <1>0
  <2> QED  BY <2>2, <2>3, <2>4
<1>11. ASSUME todo'[h] > 0 PROVE Punctual(duration'[h], left'[h])
  <2>1. Punctual(duration[h], left[h] - 250 * ChecksTill(a))
    BY <1>1, <1>4, <1>5, <1>11 DEF Countdown
  <2>2. left'[h] = left[h] - 250 * ChecksTill(a)
    BY <1>2, <1>6
  <2> QED  BY <1>0, <2>1, <2>2
<1>12. kind'[h] # NoKind /\ decaying'[h] /\ due' # h /\ Entries(h)' = 1
  BY <1>0, <1>4, <1>7, <1>8 DEF Countdown
<1> QED  BY <1>0, <1>9, <1>10, <1>11, <1>12 DEF Countdown

LEMMA DropCounts ==
  ASSUME IInv, CInv, NEW i \in Items, Drop(i)
  PROVE  CInv'
<1>1. /\ todo' = [todo EXCEPT ![i] = todo[i] - 1]
      /\ decaying' = [decaying EXCEPT ![i] = FALSE]
      /\ timed' = [timed EXCEPT ![i] = FALSE]
      /\ left' = [left EXCEPT ![i] = 0]
      /\ UNCHANGED <<kind, placed, fresh, last, checking, duration, bucket, due>>
  BY DEF Drop, Unlisted, Visits
<1> SUFFICES ASSUME NEW h \in Items, timed'[h] PROVE Countdown(h)'
  BY DEF CInv
<1>2. /\ timed[h] /\ h # i /\ left'[h] = left[h] /\ todo'[h] = todo[h]
      /\ decaying'[h] = decaying[h]
  BY <1>1 DEF IInv, DecayTypeOK
<1>3. Countdown(h) /\ kind[h] # NoKind /\ decaying[h]
  BY <1>2 DEF CInv, Countdown
<1> QED  BY <1>1, <1>2, <1>3, Untouched

\* What is left at the visit of an entry, after a round was taken away.
LEMMA RestIsPunctual ==
  ASSUME NEW d \in Int, NEW l \in Int, Punctual(d, l), NEW b \in {0, 1, 2, 3},
         NEW rest, rest = d - (IF d < 1000 THEN d ELSE 1000)
  PROVE  /\ rest >= 0
         /\ IsDue(rest) => -500 < l /\ l < 1000
         /\ ~IsDue(rest) /\ rest >= 1000 => Punctual(rest, l - 1000)
         /\ ~IsDue(rest) /\ rest < 1000 =>
              /\ Punctual(rest, l - 250)
              /\ ShortBucket(b, rest) = IF b = 3 THEN 0 ELSE b + 1
<1>1. rest \in Int /\ rest >= 0 /\ (d < 1000 => rest = 0) /\ (d >= 1000 => rest = d - 1000)
  OBVIOUS
<1>2. IsDue(rest) <=> rest < 875
  <2>1. CASE rest < 875
    BY <1>1, <2>1 DEF IsDue, ShortBucket, Round, Interval, Buckets
  <2>2. CASE 875 <= rest /\ rest < 1000
    <3>1. (rest + 125) \div 1000 = 1
      BY <1>1, <2>2
    <3> QED  BY <1>1, <2>2, <3>1 DEF IsDue, ShortBucket, Round, Interval, Buckets
  <2>3. CASE rest >= 1000
    BY <1>1, <2>3 DEF IsDue, Round, Interval, Buckets
  <2> QED  BY <1>1, <2>1, <2>2, <2>3
<1>3. ASSUME 875 <= rest, rest < 1000
      PROVE  ShortBucket(b, rest) = IF b = 3 THEN 0 ELSE b + 1
  <2>1. (rest + 125) \div 1000 = 1
    BY <1>1, <1>3
  <2> QED  BY <2>1 DEF ShortBucket, Interval, Buckets
<1>4. rest < 875 => -500 < l /\ l < 1000
  BY <1>1 DEF Punctual
<1>5. rest >= 1000 => Punctual(rest, l - 1000)
  BY <1>1 DEF Punctual
<1>6. 875 <= rest /\ rest < 1000 => Punctual(rest, l - 250)
  BY <1>1 DEF Punctual
<1> QED  BY <1>1, <1>2, <1>3, <1>4, <1>5, <1>6

LEMMA PassCounts ==
  ASSUME IInv, CInv, NEW i \in Items, Pass(i)
  PROVE  CInv'
<1> DEFINE now == After(last)
           rest == duration[i] - (IF duration[i] < 1000 THEN duration[i] ELSE 1000)
           next == IF rest < 1000 THEN ShortBucket(now, rest) ELSE now
<1>0. /\ checking /\ due = NoItem /\ todo[i] > 0
      /\ todo' = [todo EXCEPT ![i] = todo[i] - 1]
      /\ duration' = [duration EXCEPT ![i] = rest]
      /\ \/ IsDue(rest) /\ due' = i /\ UNCHANGED bucket
         \/ /\ ~IsDue(rest)
            /\ bucket' = [bucket EXCEPT ![next][i] = bucket[next][i] + 1]
            /\ UNCHANGED due
      /\ UNCHANGED <<decaying, timed, left, kind, placed, fresh, last, checking>>
  BY DEF Pass, Visits, Round, Interval, Buckets
<1>1. duration[i] \in Int /\ left[i] \in Int /\ rest \in Int /\ i # NoItem
  BY KindsAssumption, SMTT(30) DEF IInv, DecayTypeOK
<1>2. now \in {0, 1, 2, 3} /\ next \in {0, 1, 2, 3} /\ Now = now /\ Now' = now
  <2>1. now \in {0, 1, 2, 3}
    BY Ring DEF IInv
  <2>2. ShortBucket(now, rest) \in {0, 1, 2, 3}
    BY <1>1, <2>1, BucketsAgree, FourBuckets
  <2>3. Now = now /\ Now' = now
    BY <1>0 DEF Now, After
  <2> QED  BY <2>1, <2>2, <2>3
<1>3. /\ todo \in [Items -> Nat]
      /\ bucket \in [{0, 1, 2, 3} -> [Items -> Nat]]
  BY FourBuckets DEF IInv, DecayTypeOK
<1>4. ASSUME NEW h \in Items, h # i, timed[h] PROVE Countdown(h)'
  <2> HIDE DEF rest, now, next
  <2>1. Countdown(h) /\ kind[h] # NoKind /\ decaying[h]
    BY <1>4 DEF CInv, Countdown
  <2>2. todo'[h] = todo[h] /\ duration'[h] = duration[h]
    BY <1>0, <1>3, <1>4 DEF IInv, DecayTypeOK
  <2>3. \A c \in {0, 1, 2, 3} : bucket'[c][h] = bucket[c][h]
    BY <1>0, <1>2, <1>3, <1>4
  <2>4. due # h /\ due' # h
    BY <1>0, <1>4, KindsAssumption
  <2> QED  BY <1>0, <2>1, <2>2, <2>3, <2>4, Untouched
<1>5. ASSUME timed[i] PROVE Countdown(i)'
  <2>1. Countdown(i) /\ kind[i] # NoKind /\ decaying[i]
    BY <1>5 DEF CInv, Countdown
  <2>2. Punctual(duration[i], left[i])
    BY <1>0, <2>1 DEF Countdown
  <2>3. /\ fresh[i] = 0 /\ todo[i] = 1
        /\ \A c \in {0, 1, 2, 3} : bucket[c][i] = 0
        /\ Entries(i) = 1
    <3>1. /\ fresh[i] = 0 /\ \A c \in {0, 1, 2, 3} : bucket[c][i] = 0
      BY <1>0, <2>1, FewEntries DEF IInv, Countdown
    <3>2. todo[i] \in Nat /\ Entries(i) <= 1
      BY <1>3, <2>1 DEF Countdown
    <3>3. Entries(i) = todo[i]
      BY <3>1, <3>2 DEF Entries
    <3> QED  BY <1>0, <3>1, <3>2, <3>3
  <2>4. todo'[i] = 0 /\ duration'[i] = rest /\ fresh'[i] = 0 /\ left'[i] = left[i]
    BY <1>0, <1>1, <1>3, <2>3 DEF IInv, DecayTypeOK
  <2>5. kind'[i] # NoKind /\ decaying'[i] /\ checking'
    BY <1>0, <2>1
  <2>6. /\ rest >= 0
        /\ IsDue(rest) => -500 < left[i] /\ left[i] < 1000
        /\ ~IsDue(rest) /\ rest >= 1000 => Punctual(rest, left[i] - 1000)
        /\ ~IsDue(rest) /\ rest < 1000 =>
              /\ Punctual(rest, left[i] - 250)
              /\ ShortBucket(now, rest) = IF now = 3 THEN 0 ELSE now + 1
    BY <1>1, <1>2, <2>2, RestIsPunctual
  <2> HIDE DEF rest, now
  <2>7. CASE IsDue(rest) /\ due' = i /\ UNCHANGED bucket
    <3>1. \A c \in {0, 1, 2, 3} : bucket'[c][i] = 0
      BY <2>3, <2>7
    <3>2. Entries(i)' = 0
      BY <2>4, <3>1 DEF Entries
    <3> QED  BY <2>4, <2>5, <2>6, <2>7, <3>1, <3>2 DEF Countdown
  <2>8. CASE /\ ~IsDue(rest)
             /\ bucket' = [bucket EXCEPT ![next][i] = bucket[next][i] + 1]
             /\ UNCHANGED due
    <3>1. PICK n \in {0, 1, 2, 3} : n = next
      BY <1>2
    <3>2. ChecksTill(n)' = IF rest >= 1000 THEN 4 ELSE 1
      <4>1. CASE rest >= 1000
        BY <1>1, <1>2, <3>1, <4>1 DEF ChecksTill
      <4>2. CASE rest < 1000
        BY <1>1, <1>2, <2>6, <2>8, <3>1, <4>2 DEF ChecksTill
      <4> QED  BY <1>1, <4>1, <4>2
    <3>3. Punctual(rest, left[i] - 250 * ChecksTill(n)')
      <4>1. CASE rest >= 1000
        BY <1>1, <2>6, <2>8, <3>2, <4>1
      <4>2. CASE rest < 1000
        BY <1>1, <2>6, <2>8, <3>2, <4>2
      <4> QED  BY <1>1, <4>1, <4>2
    <3>4. /\ bucket'[n][i] = 1
          /\ \A c \in {0, 1, 2, 3} : c # n => bucket'[c][i] = 0
      BY <1>2, <1>3, <2>3, <2>8, <3>1
    <3>5. Entries(i)' = 1
      <4>1. CASE n = 0
        BY <2>4, <3>4, <4>1 DEF Entries
      <4>2. CASE n = 1
        BY <2>4, <3>4, <4>2 DEF Entries
      <4>3. CASE n = 2
        BY <2>4, <3>4, <4>3 DEF Entries
      <4>4. CASE n = 3
        BY <2>4, <3>4, <4>4 DEF Entries
      <4> QED  BY <4>1, <4>2, <4>3, <4>4
    <3>6. due' # i
      BY <1>0, <1>1, <2>8
    <3>7. \A c \in {0, 1, 2, 3} : bucket'[c][i] > 0 =>
              Punctual(duration'[i], left'[i] - 250 * ChecksTill(c)')
      BY <2>4, <3>3, <3>4
    <3> QED  BY <2>4, <2>5, <3>5, <3>6, <3>7 DEF Countdown
  <2> QED  BY <1>0, <2>7, <2>8
<1> QED  BY <1>0, <1>4, <1>5 DEF CInv

\* A new entry gets its first bucket: a round away when there is that much time,
\* else the next one.
LEMMA FirstIsPunctual ==
  ASSUME NEW d \in Int, d > 0, NEW l \in {d, d - 250},
         NEW b \in {0, 1, 2, 3}
  PROVE  /\ d >= 1000 => FreshBucket(b, d) = b /\ Punctual(d, l - 1000)
         /\ d < 1000 => /\ FreshBucket(b, d) = IF b = 3 THEN 0 ELSE b + 1
                        /\ Punctual(d, l - 250)
<1>1. CASE d >= 1000
  BY <1>1 DEF FreshBucket, Round, Interval, Buckets, Punctual
<1>2. CASE d < 1000
  <2>1. d \div 1000 = 0
    BY <1>2
  <2>2. FreshBucket(b, d) = IF b = 3 THEN 0 ELSE b + 1
    BY <1>2, <2>1 DEF FreshBucket, Round, Interval, Buckets
  <2>3. Punctual(d, l - 250)
    BY <1>2 DEF Punctual
  <2> QED  BY <1>2, <2>2, <2>3
<1> QED  BY <1>1, <1>2

LEMMA CleanPunctual ==
  ASSUME IInv, CInv, Clean(Now), todo = Zero, due = NoItem, ~checking',
         Now' = Now, UNCHANGED <<placed, todo, due>>
  PROVE  CInv'
<1> DEFINE B(i) == FreshBucket(Now, duration[i])
<1>0. /\ fresh' = Zero
      /\ kind' = [i \in Items |-> IF Freed(i) THEN NoKind ELSE kind[i]]
      /\ duration' = [i \in Items |-> IF Freed(i) THEN 0 ELSE duration[i]]
      /\ decaying' = [i \in Items |-> decaying[i] /\ ~Freed(i)]
      /\ timed' = [i \in Items |-> timed[i] /\ ~Freed(i)]
      /\ left' = [i \in Items |-> IF Freed(i) THEN 0 ELSE left[i]]
      /\ bucket' = [c \in {0, 1, 2, 3} |-> [i \in Items |->
                       bucket[c][i] + (IF c = B(i) THEN fresh[i] ELSE 0)]]
  BY FourBuckets DEF Clean
<1>1. \A h \in Items : Zero[h] = 0
  BY DEF Zero
<1>2. Now \in {0, 1, 2, 3} /\ \A c \in {0, 1, 2, 3} : ChecksTill(c)' = ChecksTill(c)
  <2>1. Now \in {0, 1, 2, 3}
    BY Ring DEF IInv
  <2>2. \A c \in {0, 1, 2, 3} : ChecksTill(c)' = ChecksTill(c)
    BY DEF ChecksTill
  <2> QED  BY <2>1, <2>2
<1> SUFFICES ASSUME NEW h \in Items, timed'[h] PROVE Countdown(h)'
  BY DEF CInv
<1>3. timed[h] /\ ~Freed(h)
  BY <1>0
<1>4. /\ kind'[h] = kind[h] /\ duration'[h] = duration[h]
      /\ decaying'[h] = decaying[h] /\ left'[h] = left[h]
      /\ fresh'[h] = 0 /\ todo'[h] = 0 /\ todo[h] = 0
      /\ \A c \in {0, 1, 2, 3} :
           bucket'[c][h] = bucket[c][h] + (IF c = B(h) THEN fresh[h] ELSE 0)
  <2>1. decaying[h] \in BOOLEAN
    BY DEF IInv, DecayTypeOK
  <2> HIDE DEF B
  <2> QED  BY <1>0, <1>1, <1>3, <2>1
<1>5. Countdown(h) /\ kind[h] # NoKind /\ decaying[h] /\ Entries(h) <= 1
  BY <1>3 DEF CInv, Countdown
<1>6. duration[h] \in Int /\ left[h] \in Int /\ due # h
  BY KindsAssumption DEF IInv, DecayTypeOK
<1>7. /\ fresh[h] \in Nat /\ Entries(h) \in Nat
      /\ bucket[0][h] \in Nat /\ bucket[1][h] \in Nat
      /\ bucket[2][h] \in Nat /\ bucket[3][h] \in Nat
  BY EntriesCount DEF IInv
\* An item that is over has no reference but those to be released.
<1>8. Entries(h) = 1
  <2> SUFFICES ASSUME Entries(h) = 0 PROVE FALSE
    BY <1>5, <1>7
  <2>1. ~placed[h]
    BY <1>5, <1>6 DEF Countdown
  <2>2. Counted(h) /\ Held(h) = 0
    BY <2>1, RefsCounted, HeldCounts DEF IInv
  <2>3. refs[h] \in Nat /\ releases[h] \in Nat
    BY EntriesCount DEF IInv
  <2>4. refs[h] = releases[h] /\ refs[h] # 0
    BY <1>5, <2>2, <2>3 DEF Counted
  <2> QED  BY <1>3, <2>3, <2>4 DEF Freed
<1>9. B(h) \in {0, 1, 2, 3}
  BY <1>2, <1>6, BucketsAgree, FourBuckets
<1>10. kind'[h] # NoKind /\ decaying'[h] /\ due' # h
  BY <1>4, <1>5, <1>6
<1>11. CASE fresh[h] > 0
  <2>1. \A c \in {0, 1, 2, 3} : bucket[c][h] = 0
    BY <1>5, <1>11, FewEntries DEF IInv
  <2>2. fresh[h] = 1
    BY <1>4, <1>7, <1>8, <2>1 DEF Entries
  <2>3. duration[h] > 0 /\ (left[h] = duration[h] \/ left[h] = duration[h] - 250)
    BY <1>5, <1>11 DEF Countdown
  <2>4. /\ duration[h] >= 1000 => B(h) = Now /\ Punctual(duration[h], left[h] - 1000)
        /\ duration[h] < 1000 => /\ B(h) = IF Now = 3 THEN 0 ELSE Now + 1
                                 /\ Punctual(duration[h], left[h] - 250)
    <3>1. left[h] \in {duration[h], duration[h] - 250}
      BY <2>3
    <3> QED  BY <1>2, <1>6, <2>3, <3>1, FirstIsPunctual
  <2>5. PICK n \in {0, 1, 2, 3} : n = B(h)
    BY <1>9
  <2> HIDE DEF B
  <2>6. Punctual(duration[h], left[h] - 250 * ChecksTill(n))
    <3>1. CASE duration[h] >= 1000
      <4>1. ChecksTill(n) = 4
        BY <1>2, <2>4, <2>5, <3>1 DEF ChecksTill
      <4> QED  BY <1>6, <2>4, <3>1, <4>1
    <3>2. CASE duration[h] < 1000
      <4>1. ChecksTill(n) = 1
        BY <1>2, <2>4, <2>5, <3>2 DEF ChecksTill
      <4> QED  BY <1>6, <2>4, <3>2, <4>1
    <3> QED  BY <1>6, <3>1, <3>2
  <2>7. /\ bucket'[n][h] = 1
        /\ \A c \in {0, 1, 2, 3} : c # n => bucket'[c][h] = 0
    BY <1>4, <2>1, <2>2, <2>5
  <2>8. Entries(h)' = 1
    <3>1. CASE n = 0
      BY <1>4, <2>7, <3>1 DEF Entries
    <3>2. CASE n = 1
      BY <1>4, <2>7, <3>2 DEF Entries
    <3>3. CASE n = 2
      BY <1>4, <2>7, <3>3 DEF Entries
    <3>4. CASE n = 3
      BY <1>4, <2>7, <3>4 DEF Entries
    <3> QED  BY <3>1, <3>2, <3>3, <3>4
  <2>9. \A c \in {0, 1, 2, 3} : bucket'[c][h] > 0 =>
            Punctual(duration'[h], left'[h] - 250 * ChecksTill(c)')
    BY <1>2, <1>4, <2>6, <2>7
  <2> QED  BY <1>4, <1>10, <2>8, <2>9 DEF Countdown
<1>12. CASE fresh[h] = 0
  <2>1. \A c \in {0, 1, 2, 3} : bucket'[c][h] = bucket[c][h]
    <3>1. \A c \in {0, 1, 2, 3} : bucket[c][h] \in Nat
      BY <1>7
    <3> HIDE DEF B
    <3> QED  BY <1>4, <1>12, <3>1
  <2>2. Entries(h)' = Entries(h)
    BY <1>4, <1>12, <2>1 DEF Entries
  <2>3. \A c \in {0, 1, 2, 3} : bucket'[c][h] > 0 =>
            Punctual(duration'[h], left'[h] - 250 * ChecksTill(c)')
    BY <1>2, <1>4, <1>5, <2>1 DEF Countdown
  <2> QED  BY <1>4, <1>8, <1>10, <2>2, <2>3 DEF Countdown
<1> QED  BY <1>7, <1>11, <1>12

LEMMA EndCheckCounts ==
  ASSUME IInv, CInv, EndCheck
  PROVE  CInv'
<1>1. /\ checking /\ due = NoItem /\ todo = Zero /\ ~checking'
      /\ last' = After(last) /\ Clean(After(last)) /\ UNCHANGED <<placed, todo, due>>
  BY DEF EndCheck
<1>2. Now = After(last) /\ Now' = Now
  BY <1>1 DEF Now
<1> QED  BY <1>1, <1>2, CleanPunctual

LEMMA CleanupCounts ==
  ASSUME IInv, CInv, Cleanup
  PROVE  CInv'
<1>1. /\ ~checking /\ due = NoItem /\ ~checking' /\ Clean(last)
      /\ UNCHANGED <<placed, last, todo, due>>
  BY DEF Cleanup, AtRest
<1>2. Now = last /\ Now' = Now /\ todo = Zero
  BY <1>1 DEF Now, IInv, LoopIsEmpty
<1> QED  BY <1>1, <1>2, CleanPunctual

LEMMA NextCounts ==
  ASSUME IInv, IInv', CInv, DecayNext
  PROVE  CInv'
<1>1. ASSUME NEW i \in Items, NEW k \in Kinds, NEW o \in Sources,
             NEW d \in Imported \cup {1000 * DecayTime[k]}, Create(i, k, d, o)
      PROVE  CInv'
  <2>1. Imported \subseteq Nat /\ 1000 * DecayTime[k] \in Int
    BY KindsAssumption, KindsTyped
  <2>2. d \in Int
    BY <2>1
  <2>3. o \in Origins
    BY KindsAssumption
  <2> QED  BY <1>1, <2>2, <2>3, CreateCounts
<1>2. ASSUME NEW i \in Items, RemoveItem(i) PROVE CInv'
  BY <1>2, RemoveItemCounts
<1>3. ASSUME NEW i \in Items, SetDuration(i, 1) PROVE CInv'
  BY <1>3, SetDurationCounts
<1>4. ASSUME NEW i \in Items, NEW j \in Items, NEW k \in Kinds, Transform(i, j, k) PROVE CInv'
  BY <1>4, TransformCounts
<1>5. ASSUME NEW i \in Items, StartDecay(i) PROVE CInv'
  BY <1>5, StartDecayCounts
<1>6. ASSUME NEW i \in Items, Becomes(i) PROVE CInv'
  BY <1>6, BecomesCounts
<1>7. ASSUME NEW j \in Items, IsReplaced(j) PROVE CInv'
  BY <1>7, IsReplacedCounts
<1>8. ASSUME NEW i \in Items, Drop(i) PROVE CInv'
  BY <1>8, DropCounts
<1>9. ASSUME NEW i \in Items, Pass(i) PROVE CInv'
  BY <1>9, PassCounts
<1>10. ASSUME NEW i \in Items, SetId(i) PROVE CInv'
  BY <1>10, SetIdCounts
<1> QED  BY <1>1, <1>2, <1>3, <1>4, <1>5, <1>6, <1>7, <1>8, <1>9, <1>10, VanishesCounts, StaysPutCounts,
            BeginCheckCounts, EndCheckCounts, CleanupCounts DEF DecayNext

LEMMA StutterCounts ==
  ASSUME CInv, UNCHANGED decayVars
  PROVE  CInv'
<1> SUFFICES ASSUME NEW h \in Items, timed'[h] PROVE Countdown(h)'
  BY DEF CInv
<1>1. UNCHANGED <<kind, duration, decaying, placed, fresh, bucket, last, checking,
                  todo, due, left, timed>>
  BY DEF decayVars
<1>2. Countdown(h) /\ kind[h] # NoKind /\ decaying[h]
  BY <1>1 DEF CInv, Countdown
<1> QED  BY <1>1, <1>2, Untouched

\* The countdown says when the item is visited, and so what is left at the end.
LEMMA CountdownIsOnTime ==
  ASSUME IInv, CInv
  PROVE  OnTime
<1> SUFFICES ASSUME NEW i \in Items, timed[i]
             PROVE  left[i] > -500 /\ (due = i => left[i] < 1000)
  BY DEF OnTime, Interval
<1>1. Countdown(i) /\ Entries(i) <= 1
  BY DEF CInv, Countdown
<1>2. Entries(i) \in Nat /\ duration[i] \in Int /\ left[i] \in Int
  BY EntriesCount DEF IInv, DecayTypeOK
<1>3. \A l \in Int : Punctual(duration[i], l) => l > -500
  BY <1>2 DEF Punctual
<1>4. CASE Entries(i) = 0
  BY <1>1, <1>4 DEF Countdown
<1>5. CASE Entries(i) = 1
  <2>1. due # i
    BY <1>1, <1>5 DEF Countdown
  <2>2. left[i] > -500
    <3>1. CASE fresh[i] > 0
      BY <1>1, <1>2, <3>1 DEF Countdown
    <3>2. CASE todo[i] > 0
      BY <1>1, <1>2, <1>3, <3>2 DEF Countdown
    <3>3. ASSUME NEW c \in {0, 1, 2, 3}, bucket[c][i] > 0 PROVE left[i] > -500
      <4>1. ChecksTill(c) \in {1, 2, 3, 4}
        BY Ring DEF IInv
      <4>2. Punctual(duration[i], left[i] - 250 * ChecksTill(c))
        BY <1>1, <3>3 DEF Countdown
      <4>3. left[i] - 250 * ChecksTill(c) > -500
        BY <1>2, <1>3, <4>1, <4>2
      <4> QED  BY <1>2, <4>1, <4>3
    <3> QED  BY <1>1, <1>5, <3>1, <3>2, <3>3, FewEntries DEF IInv
  <2> QED  BY <2>1, <2>2
<1> QED  BY <1>1, <1>2, <1>4, <1>5

\* An item that is listed once and left alone decays less than two intervals
\* after its time is over and less than a second before, for any duration and any
\* types.
THEOREM DecaysOnTime == DecaySpec => []OnTime
<1>1. DecayInit => CInv
  BY DEF DecayInit, CInv
<1>2. IInv /\ IInv' /\ CInv /\ [DecayNext]_decayVars => CInv'
  BY NextCounts, StutterCounts
<1> QED  BY Inductive, <1>1, <1>2, CountdownIsOnTime, PTL DEF DecaySpec

=============================================================================
