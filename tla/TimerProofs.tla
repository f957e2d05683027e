----------------------------- MODULE TimerProofs -----------------------------
(***************************************************************************)
(* Theorems about Timer, for any number of timers and any delays and       *)
(* counts.                                                                 *)
(***************************************************************************)
EXTENDS Timer, TLAPS

\* In a callback whose timer counts: the struct timer has been counted down for
\* the call that runs, the repeat_data has not.
Counting(t) == frame # NoFrame /\ frame.timer = t /\ frame.calls = "counted"

\* What both halves of a timer say of the calls it owes, in callbacks too.
Halves ==
    /\ active = alive
    /\ rd = alive \ native
    /\ \A t \in Timers : owed[t] # 0 => t \in alive
    /\ \A t \in alive : /\ repeat[t] > 0
                        /\ repeat_count[t] = owed[t]
                        /\ owed[t] = 0 => Counting(t)
    /\ \A t \in rd : /\ owed[t] >= -1
                     /\ owed[t] = 0 => frame.client = "lua"
                     /\ rd_count[t] = owed[t] + IF Counting(t) /\ frame.client = "lua" THEN 1 ELSE 0

\* The timer of a script cannot be cancelled, so it is there when its callback
\* returns.
LuaFrame ==
    frame # NoFrame /\ frame.client = "lua" =>
        /\ frame.timer \in rd
        /\ frame.calls = "counted" <=> owed[frame.timer] >= 0

IInv == TypeOK /\ Halves /\ LuaFrame /\ PassEnds

LEMMA InitIInv == Init => IInv
  BY TimerAssumption DEF Init, IInv, TypeOK, Halves, LuaFrame, PassEnds, Counting, Frames

LEMMA ScheduleIInv ==
    ASSUME NEW t \in Timers, NEW after \in Delays, NEW count \in Counts, NEW every \in Repeats,
           IInv, LuaSchedule(t, after, count, every) \/ NativeSchedule(t, after, count, every)
    PROVE  IInv'
  <1>1. ASSUME NEW n \in Int, NEW e \in Nat, n # 0, e > 0, ScheduleRepeat(t, after, n, e),
               \/ /\ n >= -1
                  /\ native' = native \ {t} /\ rd' = rd \cup {t}
                  /\ rd_count' = [rd_count EXCEPT ![t] = n]
               \/ native' = native \cup {t} /\ UNCHANGED lua
        PROVE  IInv'
    <2>1. TypeOK'
      BY <1>1, TimerAssumption DEF IInv, TypeOK, ScheduleRepeat, StartTimer, lua
    <2>2. Halves'
      BY <1>1, TimerAssumption
      DEF IInv, TypeOK, Halves, LuaFrame, ScheduleRepeat, StartTimer, Counting, lua, Frames
    <2>3. LuaFrame'
      BY <1>1 DEF IInv, TypeOK, Halves, LuaFrame, ScheduleRepeat, lua, Frames
    <2>4. PassEnds'
      BY <1>1 DEF IInv, TypeOK, PassEnds, ScheduleRepeat, StartTimer
    <2>5. QED BY <2>1, <2>2, <2>3, <2>4 DEF IInv
  <1>2. CASE LuaSchedule(t, after, count, every)
    <2>1. /\ Forever(count) \in Int /\ Forever(count) # 0 /\ Forever(count) >= -1
          /\ Every(after, every) \in Nat /\ Every(after, every) > 0
      BY <1>2, TimerAssumption DEF LuaSchedule, Forever, Every
    <2>2. QED BY <1>1, <1>2, <2>1 DEF LuaSchedule
  <1>3. CASE NativeSchedule(t, after, count, every)
    <2>1. count \in Int /\ count # 0 /\ every \in Nat /\ every > 0
      BY <1>3, TimerAssumption DEF NativeSchedule
    <2>2. QED BY <1>1, <1>3, <2>1 DEF NativeSchedule
  <1>4. QED BY <1>2, <1>3

LEMMA CancelIInv == ASSUME NEW t \in Timers, IInv, Cancel(t) PROVE IInv'
  <1>1. TypeOK'
    BY DEF IInv, TypeOK, Cancel, StopTimer, lua
  <1>2. Halves'
    BY DEF IInv, TypeOK, Halves, Cancel, StopTimer, Counting, lua
  <1>3. LuaFrame'
    BY DEF IInv, TypeOK, Halves, LuaFrame, Cancel, lua, Frames
  <1>4. PassEnds'
    BY DEF IInv, TypeOK, PassEnds, Cancel, StopTimer
  <1>5. QED BY <1>1, <1>2, <1>3, <1>4 DEF IInv

LEMMA UpdateTimeIInv == ASSUME NEW d \in 0 .. MaxJump, IInv, UpdateTime(d) PROVE IInv'
  BY TimerAssumption
  DEF IInv, TypeOK, Halves, LuaFrame, PassEnds, UpdateTime, Counting, memory, lua

LEMMA FireTimerIInv == ASSUME NEW t \in Timers, IInv, FireTimer(t) PROVE IInv'
  <1>1. t \in alive /\ repeat[t] > 0 /\ repeat_count[t] = owed[t] /\ owed[t] # 0
    BY DEF IInv, Halves, FireTimer, HeapMin, Counting
  <1>2. StartTimer(t, repeat[t])
    BY <1>1 DEF IInv, TypeOK, FireTimer, Again
  <1>3. frame' = [timer |-> t, client |-> IF t \in native THEN "native" ELSE "lua",
                       calls |-> IF owed[t] < 0 THEN "endless" ELSE "counted"]
    BY <1>1 DEF FireTimer
  <1>4. frame' \in Frames /\ frame' # NoFrame
    BY <1>3, TimerAssumption DEF Frames
  <1>5. TypeOK'
    BY <1>2, <1>4 DEF IInv, TypeOK, FireTimer, StartTimer, lua
  <1>6. Halves'
    BY <1>1, <1>2, <1>3, <1>4 DEF IInv, TypeOK, Halves, FireTimer, StartTimer, Counting, lua
  <1>7. LuaFrame'
    BY <1>1, <1>3, <1>4 DEF IInv, TypeOK, Halves, LuaFrame, FireTimer, lua
  <1>8. PassEnds'
    BY <1>1, <1>2 DEF IInv, TypeOK, PassEnds, FireTimer, StartTimer
  <1>9. QED BY <1>5, <1>6, <1>7, <1>8 DEF IInv

LEMMA ReturnIInv == ASSUME IInv, Return PROVE IInv'
  <1> DEFINE t == frame.timer
  <1>1. frame \in Frames /\ t \in Timers /\ frame' = NoFrame
    BY DEF IInv, TypeOK, Return, Frames
  <1>2. ~ Counting(t)' /\ (~ \E u \in Timers : Counting(u)')
    BY <1>1 DEF Counting
  <1>3. TypeOK'
    <2>1. up' \in BOOLEAN
      BY DEF IInv, TypeOK, Return
    <2>2. rd' \subseteq Timers /\ rd_count' \in [Timers -> Int]
      BY DEF IInv, TypeOK, Return, LuaReturn, lua
    <2>3. /\ alive' \subseteq Timers /\ active' \subseteq Timers
          /\ left' = left /\ older' \in [Timers -> SUBSET Timers]
      <3>1. CASE UNCHANGED <<alive, active, left, older>>
        BY <3>1 DEF IInv, TypeOK
      <3>2. CASE alive' = alive \ {t} /\ StopTimer(t)
        BY <3>2 DEF IInv, TypeOK, StopTimer
      <3>3. QED BY <3>1, <3>2 DEF Return, LastCall
    <2>4. QED BY <1>1, <2>1, <2>2, <2>3 DEF IInv, TypeOK, Return
  <1>4. LuaFrame'
    BY <1>1 DEF LuaFrame
  <1>5. PassEnds'
    BY <1>1 DEF IInv, TypeOK, PassEnds, Return, LastCall, StopTimer
  <1>6. Halves'
    <2>1. CASE frame.calls = "counted" /\ t \in alive /\ repeat_count[t] = 0
      <3>1. /\ alive' = alive \ {t} /\ active' = active \ {t}
            /\ UNCHANGED <<native, owed, repeat, repeat_count>>
        BY <2>1 DEF Return, LastCall, StopTimer
      <3>2. owed[t] = 0 /\ \A u \in alive \ {t} : owed[u] # 0 /\ ~ Counting(u)
        BY <2>1 DEF IInv, Halves, Counting
      <3>3. rd' = rd \ {t} /\ \A u \in rd \ {t} : rd_count'[u] = rd_count[u]
        <4>1. CASE frame.client = "lua"
          <5>1. t \in rd /\ rd_count[t] = 1
            BY <1>1, <2>1, <3>2, <4>1, TimerAssumption DEF IInv, Halves, LuaFrame, Counting, Return
          <5>2. QED BY <4>1, <5>1 DEF IInv, TypeOK, Return, LuaReturn
        <4>2. CASE frame.client # "lua"
          <5>1. t \notin rd
            BY <1>1, <2>1, <3>2, <4>2 DEF IInv, Halves, Counting, Return
          <5>2. QED BY <4>2, <5>1 DEF Return, lua
        <4>3. QED BY <4>1, <4>2
      <3>4. QED BY <1>2, <3>1, <3>2, <3>3 DEF IInv, TypeOK, Halves
    <2>2. CASE ~ (frame.calls = "counted" /\ t \in alive /\ repeat_count[t] = 0)
      <3>1. UNCHANGED <<alive, active, native, owed, repeat, repeat_count>>
        BY <1>1, <2>2 DEF Return, LastCall
      <3>2. \A u \in alive : owed[u] # 0
        BY <2>2 DEF IInv, Halves, Counting
      <3>3. \A u \in rd : u \in rd' /\ rd_count'[u] = owed[u]
        BY <1>1, <2>2, <3>2 DEF IInv, TypeOK, Halves, LuaFrame, Return, LuaReturn, Counting, lua
      <3>4. rd' \subseteq rd
        BY DEF Return, LuaReturn, lua
      <3>5. QED BY <1>2, <3>1, <3>2, <3>3, <3>4 DEF IInv, TypeOK, Halves
    <2>3. QED BY <2>1, <2>2
  <1>7. QED BY <1>3, <1>4, <1>5, <1>6 DEF IInv

LEMMA StutterIInv == ASSUME IInv, UNCHANGED vars PROVE IInv'
  BY DEF IInv, TypeOK, Halves, LuaFrame, PassEnds, Counting, vars, memory, lua, uv

LEMMA NextIInv == ASSUME IInv, [Next]_vars PROVE IInv'
  <1>1. CASE \E t \in Timers : Client(t)
    <2>1. PICK t \in Timers : Client(t) BY <1>1
    <2>2. QED BY <2>1, ScheduleIInv, CancelIInv, StutterIInv DEF Client, LuaCancel
  <1>2. CASE \E d \in 0 .. MaxJump : UpdateTime(d)
    BY <1>2, UpdateTimeIInv
  <1>3. CASE RunTimers
    <2>1. CASE PassDone
      BY <2>1 DEF IInv, TypeOK, Halves, LuaFrame, PassEnds, Counting, PassDone, memory, lua, uv
    <2>2. QED BY <1>3, <2>1, FireTimerIInv, ReturnIInv DEF RunTimers
  <1>4. CASE Gone \/ UNCHANGED vars
    BY <1>4, StutterIInv DEF Gone
  <1>5. QED BY <1>1, <1>2, <1>3, <1>4 DEF Next

LEMMA AlwaysIInv == Spec => []IInv
  BY InitIInv, NextIInv, PTL DEF Spec

\* The timers keep their types: time_list.c, timer.c.
THEOREM TimerTypes == Spec => []TypeOK
  BY AlwaysIInv, PTL DEF IInv

\* Both halves of a timer are freed together, when no call is owed any more.
THEOREM TimerLockstep == Spec => []Lockstep
  <1>1. IInv => Lockstep
    BY DEF IInv, TypeOK, Halves, Lockstep, Counting
  <1>2. QED BY <1>1, AlwaysIInv, PTL

\* No timer fires twice in one pass.
THEOREM TimerPassEnds == Spec => []PassEnds
  BY AlwaysIInv, PTL DEF IInv

\* A timer is an alarm: every call is owed, and none follows the last.
THEOREM TimerImplementsAlarm == Spec => ImplementsAlarm
  <1>1. Init => AlarmSpec!Init
    BY DEF Init, AlarmSpec!Init
  <1>2. IInv /\ [Next]_vars => [AlarmSpec!Next]_owed
    <2> SUFFICES ASSUME IInv, [Next]_vars, owed' # owed PROVE AlarmSpec!Next
      OBVIOUS
    <2>1. ASSUME NEW t \in Timers, Client(t) PROVE AlarmSpec!Next
      <3>1. ASSUME NEW n \in Int, NEW e, NEW a, ScheduleRepeat(t, a, n, e) PROVE AlarmSpec!Next
        <4>1. owed[t] = 0
          BY <3>1 DEF IInv, Halves, ScheduleRepeat
        <4>2. owed'[t] = n /\ owed' = [owed EXCEPT ![t] = owed'[t]]
          BY <3>1 DEF IInv, TypeOK, ScheduleRepeat
        <4>3. n # 0
          BY <4>1, <4>2 DEF IInv, TypeOK
        <4>4. QED BY <4>1, <4>2, <4>3 DEF AlarmSpec!Next, AlarmSpec!Ask
      <3>2. CASE Cancel(t)
        <4>1. owed[t] # 0 /\ owed' = [owed EXCEPT ![t] = 0]
          BY <3>2 DEF IInv, Halves, Cancel
        <4>2. QED BY <4>1 DEF AlarmSpec!Next, AlarmSpec!Cancel
      <3>3. ASSUME NEW after \in Delays, NEW count \in Counts, NEW every \in Repeats,
                   LuaSchedule(t, after, count, every) \/ NativeSchedule(t, after, count, every)
            PROVE  AlarmSpec!Next
        <4>1. count \in Int /\ Forever(count) \in Int
          BY TimerAssumption DEF Forever
        <4>2. QED BY <3>1, <3>3, <4>1 DEF LuaSchedule, NativeSchedule
      <3>4. CASE LuaCancel(t)
        BY <3>4 DEF LuaCancel, vars
      <3>5. QED BY <2>1, <3>2, <3>3, <3>4 DEF Client
    <2>2. ASSUME NEW t \in Timers, FireTimer(t) PROVE AlarmSpec!Next
      <3>1. t \in alive /\ owed[t] # 0
        BY <2>2 DEF IInv, Halves, FireTimer, HeapMin, Counting
      <3>2. owed[t] > 0
        <4>1. ASSUME owed[t] < 0 PROVE owed' = owed
          BY <2>2, <4>1 DEF IInv, TypeOK, FireTimer
        <4>2. QED BY <3>1, <4>1 DEF IInv, TypeOK
      <3>3. owed' = [owed EXCEPT ![t] = @ - 1]
        BY <2>2, <3>2 DEF IInv, TypeOK, FireTimer
      <3>4. QED BY <3>2, <3>3 DEF AlarmSpec!Next, AlarmSpec!Call
    <2>3. QED
      BY <2>1, <2>2 DEF Next, RunTimers, UpdateTime, Return, PassDone, Gone, vars
  <1>3. QED BY <1>1, <1>2, AlwaysIInv, PTL DEF Spec, ImplementsAlarm, AlarmSpec!Spec
=============================================================================
