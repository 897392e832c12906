-------------------------- MODULE AlarmClockProofs --------------------------
(***************************************************************************)
(* The project1 kernel implements AlarmClock: whatever the scheduler does, *)
(* a thread sleeps exactly until the first tick at or after the one it     *)
(* computed on entry to timer_sleep().                                     *)
(***************************************************************************)
EXTENDS AlarmProofs

\* Every step but these four leaves the sleepers, their deadlines and the
\* clock alone.
LEMMA QuietStep ==
  ASSUME Next,
         ~ (\E t \in Thread : SleepStart(t) \/ SleepBlock(t)),
         ~ TimerInterrupt, ~ (\E i \in DOMAIN sleeping_list : Awake(i)), ~ IntrReturn
  PROVE  /\ UNCHANGED <<sleeping_list, deadline, ticks, in_intr>>
         /\ \/ UNCHANGED sleeping_ticks
            \/ \E c \in Thread : /\ status[c] = "FREE"
                                 /\ sleeping_ticks' = [sleeping_ticks EXCEPT ![c] = 0]
<1>1. PICK t \in Thread : InCall(t) \/ Call(t)
  BY DEF Next, Interrupt
<1>2. CASE CreateInit(t)
  BY <1>2 DEF CreateInit, intrVars
<1>3. CASE ~ CreateInit(t)
  BY <1>1, <1>3 DEF InCall, Call, BootCreate, BootDown, IdleStart, IdleUp, IdleBlock,
     TidDown, TidRead, TidWrite, TidUp, CreateUnblock, Yield, thread_exit, sema_down,
     intrVars, sleepVars
<1> QED
  BY <1>2, <1>3

LEMMA SleepInvStep ==
  ASSUME IInv, SleepInv, [Next]_vars
  PROVE  SleepInv'
<1>1. /\ sleeping_list \in Seq(Thread) /\ IsInjective(sleeping_list)
      /\ \A t \in ToSet(sleeping_list) : t \in Thread
      /\ sleeping_ticks \in [Thread -> Int] /\ deadline \in [Thread -> Int]
  BY DEF IInv, TypeOK, ListInv, ToSet
<1>2. ASSUME NEW t \in Thread, SleepStart(t)
      PROVE  SleepInv'
  <2>1. /\ \A u \in Thread \ {t} : deadline'[u] = deadline[u]
        /\ UNCHANGED <<sleeping_list, sleeping_ticks>>
        /\ t = current
    BY <1>1, <1>2 DEF SleepStart, Running
  <2>2. t \notin ToSet(sleeping_list)
    BY <2>1, OffCpu DEF Waits
  <2> QED
    BY <1>1, <2>1, <2>2 DEF SleepInv
<1>3. ASSUME NEW t \in Thread, SleepBlock(t)
      PROVE  SleepInv'
  <2>1. /\ sleeping_list' = Append(sleeping_list, t)
        /\ sleeping_ticks' = [sleeping_ticks EXCEPT ![t] = deadline[t]]
        /\ deadline' = deadline
    BY <1>3 DEF SleepBlock
  <2>2. ToSet(sleeping_list') = ToSet(sleeping_list) \union {t}
    BY <1>1, <2>1, AppendElems
  <2> QED
    BY <1>1, <2>1, <2>2 DEF SleepInv
<1>4. ASSUME NEW i \in DOMAIN sleeping_list, Awake(i)
      PROVE  SleepInv'
  <2>1. /\ sleeping_list' = RemoveAt(sleeping_list, i)
        /\ deadline' = [deadline EXCEPT ![sleeping_list[i]] = 0]
        /\ sleeping_ticks' = sleeping_ticks
    BY <1>4 DEF Awake
  <2>2. ToSet(sleeping_list') = ToSet(sleeping_list) \ {sleeping_list[i]}
    BY <1>1, <2>1, UnlinkElems
  <2> QED
    BY <1>1, <2>1, <2>2 DEF SleepInv
<1>5. CASE TimerInterrupt \/ IntrReturn \/ UNCHANGED vars
  <2>1. UNCHANGED sleepVars
    BY <1>5 DEF TimerInterrupt, IntrReturn, vars
  <2> QED
    BY <2>1 DEF SleepInv, sleepVars
<1>6. ASSUME NEW c \in Thread, status[c] = "FREE", UNCHANGED <<sleeping_list, deadline>>,
             sleeping_ticks' = [sleeping_ticks EXCEPT ![c] = 0]
      PROVE  SleepInv'
  <2>1. c \notin ToSet(sleeping_list)
    BY <1>6, OffCpu DEF Waits
  <2> QED
    BY <1>1, <1>6, <2>1 DEF SleepInv
<1>7. UNCHANGED <<sleeping_list, deadline, sleeping_ticks>> => SleepInv'
  BY DEF SleepInv
<1> QED
  BY <1>2, <1>3, <1>4, <1>5, <1>6, <1>7, QuietStep

\* Every step of the kernel is a step of the alarm clock, or none.
LEMMA ClockStep ==
  ASSUME IInv, SleepInv, [Next]_vars
  PROVE  [AC!Next]_(AC!vars)
<1>1. /\ sleeping_list \in Seq(Thread) /\ IsInjective(sleeping_list)
      /\ \A t \in ToSet(sleeping_list) : t \in Thread
      /\ sleeping_ticks \in [Thread -> Int] /\ deadline \in [Thread -> Int]
      /\ ticks \in Nat
  BY DEF IInv, TypeOK, ListInv, ToSet
<1>2. ASSUME NEW t \in Thread, SleepStart(t)
      PROVE  UNCHANGED AC!vars
  <2>1. /\ \A u \in Thread \ {t} : deadline'[u] = deadline[u]
        /\ UNCHANGED <<sleeping_list, ticks, in_intr>>
        /\ t = current
    BY <1>1, <1>2 DEF SleepStart, Running, intrVars
  <2>2. t \notin ToSet(sleeping_list)
    BY <2>1, OffCpu DEF Waits
  <2> QED
    BY <1>1, <2>1, <2>2 DEF AC!vars, Asleep
<1>3. ASSUME NEW t \in Thread, SleepBlock(t)
      PROVE  AC!Sleep(t)
  <2>1. /\ sleeping_list' = Append(sleeping_list, t)
        /\ UNCHANGED <<deadline, ticks, in_intr>>
        /\ ~ in_intr /\ current = t
    BY <1>3 DEF SleepBlock, Running, intrVars
  <2>2. ToSet(sleeping_list') = ToSet(sleeping_list) \union {t}
    BY <1>1, <2>1, AppendElems
  <2>3. t \notin ToSet(sleeping_list)
    BY <2>1, OffCpu DEF Waits
  <2>4. /\ Asleep = {<<u, deadline[u]>> : u \in ToSet(sleeping_list)}
        /\ Asleep' = {<<u, deadline[u]>> : u \in ToSet(sleeping_list) \union {t}}
    BY <2>1, <2>2 DEF Asleep
  <2>5. /\ \A x \in Asleep : x[1] # t
        /\ <<t, deadline[t]>> \in Asleep'
        /\ Asleep' = Asleep \union {<<t, deadline[t]>>}
    BY <2>3, <2>4
  <2> QED
    BY <1>1, <2>1, <2>5 DEF AC!Sleep
<1>4. ASSUME TimerInterrupt
      PROVE  AC!Tick
  <2>1. /\ UNCHANGED <<sleeping_list, deadline>> /\ ~ in_intr /\ in_intr'
        /\ ticks' = IF ticks < MaxTick THEN ticks + 1 ELSE ticks
    BY <1>4 DEF TimerInterrupt, sleepVars
  <2>2. /\ Asleep = {<<u, deadline[u]>> : u \in ToSet(sleeping_list)}
        /\ Asleep' = {<<u, deadline[u]>> : u \in {v \in ToSet(sleeping_list) : deadline[v] > ticks'}}
    BY <2>1 DEF Asleep
  <2>3. Asleep' = {x \in Asleep : x[2] > ticks'}
    BY <2>2
  <2> QED
    BY <2>1, <2>3 DEF AC!Tick
<1>5. ASSUME NEW i \in DOMAIN sleeping_list, Awake(i)
      PROVE  UNCHANGED AC!vars
  <2> DEFINE u == sleeping_list[i]
  <2>1. /\ sleeping_list' = RemoveAt(sleeping_list, i)
        /\ deadline' = [deadline EXCEPT ![u] = 0]
        /\ UNCHANGED <<ticks, in_intr>>
        /\ in_intr /\ sleeping_ticks[u] <= ticks
    BY <1>5 DEF Awake, Expired, intrVars
  <2>2. /\ u \in ToSet(sleeping_list)
        /\ ToSet(sleeping_list') = ToSet(sleeping_list) \ {u}
    BY <1>1, <2>1, UnlinkElems
  <2> HIDE DEF u
  <2>3. deadline[u] <= ticks /\ \A v \in Thread \ {u} : deadline'[v] = deadline[v]
    BY <1>1, <2>1, <2>2 DEF SleepInv
  <2>a. ToSet(sleeping_list) \subseteq Thread /\ ~ (deadline[u] > ticks)
    <3>1. deadline[u] \in Int /\ ticks \in Int
      BY <1>1, <2>2
    <3> QED
      BY <1>1, <2>3, <3>1, ElemsInSet
  <2>4. {v \in ToSet(sleeping_list') : deadline'[v] > ticks'} =
          {v \in ToSet(sleeping_list) : deadline[v] > ticks}
    <3>1. \A v \in ToSet(sleeping_list') : v \in ToSet(sleeping_list) /\ deadline'[v] = deadline[v]
      BY <2>2, <2>3, <2>a
    <3>2. \A v \in ToSet(sleeping_list) : deadline[v] > ticks => v \in ToSet(sleeping_list')
      BY <2>2, <2>a
    <3> QED
      BY <2>1, <3>1, <3>2
  <2>5. /\ Asleep = {<<v, deadline[v]>> : v \in {w \in ToSet(sleeping_list) : deadline[w] > ticks}}
        /\ Asleep' = {<<v, deadline'[v]>> :
             v \in {w \in ToSet(sleeping_list') : deadline'[w] > ticks'}}
    BY <2>1 DEF Asleep
  <2>6. \A v \in {w \in ToSet(sleeping_list) : deadline[w] > ticks} :
          deadline'[v] = deadline[v]
    BY <2>3, <2>a
  <2>7. Asleep' = Asleep
    BY <2>4, <2>5, <2>6
  <2> QED
    BY <2>1, <2>7 DEF AC!vars
<1>6. ASSUME IntrReturn
      PROVE  UNCHANGED AC!vars
  <2>1. /\ UNCHANGED <<ticks, sleeping_list, sleeping_ticks, deadline>> /\ in_intr'= FALSE
        /\ \A i \in DOMAIN sleeping_list : ~ (sleeping_ticks[sleeping_list[i]] <= ticks)
    BY <1>6 DEF IntrReturn, Expired, sleepVars
  <2>2. \A u \in ToSet(sleeping_list) : deadline[u] > ticks
    <3> SUFFICES ASSUME NEW u \in ToSet(sleeping_list) PROVE deadline[u] > ticks
      OBVIOUS
    <3>1. PICK i \in DOMAIN sleeping_list : sleeping_list[i] = u
      BY DEF ToSet
    <3>2. u \in Thread /\ sleeping_ticks[u] = deadline[u] /\ ~ (sleeping_ticks[u] <= ticks)
      BY <1>1, <2>1, <3>1 DEF SleepInv
    <3> QED
      BY <1>1, <3>2
  <2>3. {u \in ToSet(sleeping_list) : in_intr => deadline[u] > ticks} = ToSet(sleeping_list)
    BY <2>2
  <2>4. {u \in ToSet(sleeping_list) : in_intr' => deadline[u] > ticks} = ToSet(sleeping_list)
    BY <2>1
  <2>5. Asleep' = Asleep
    BY <2>1, <2>3, <2>4 DEF Asleep
  <2> QED
    BY <2>1, <2>5 DEF AC!vars
<1>7. UNCHANGED <<sleeping_list, deadline, ticks, in_intr>> => UNCHANGED AC!vars
  BY DEF AC!vars, Asleep
<1>8. UNCHANGED vars => UNCHANGED AC!vars
  BY <1>7 DEF vars, sleepVars, intrVars
<1>9. CASE Next
  BY <1>2, <1>3, <1>4, <1>5, <1>6, <1>7, <1>9, QuietStep DEF AC!Next
<1> QED
  BY <1>8, <1>9

\* timer_sleep() keeps its promise in every execution of the kernel.
THEOREM AlarmClockImplemented == SafeSpec => AlarmClockSpec
<1>1. Init => SleepInv /\ AC!Init
  BY DEF Init, SleepInv, AC!Init, Asleep, ToSet
<1>2. SleepInv /\ IInv /\ [Next]_vars => SleepInv'
  BY SleepInvStep
<1>3. IInv /\ SleepInv /\ [Next]_vars => [AC!Next]_(AC!vars)
  BY ClockStep
<1> QED
  BY <1>1, <1>2, <1>3, Invariance, PTL DEF SafeSpec, AlarmClockSpec
=============================================================================
