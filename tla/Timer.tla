------------------------------- MODULE Timer -------------------------------
(***************************************************************************)
(* utils/time_list.c over libuv's timers, and the Lua scheduler on top of  *)
(* it (scheduler_export_to_lua.cpp).  A timer is two blocks of memory with *)
(* a counter each: the struct timer, which counts in on_uv_timer, and the  *)
(* repeat_data of a Lua timer, which counts in on_lua_repeat_timer.  Both  *)
(* free themselves when their own counter says so.                         *)
(*                                                                         *)
(* Times are relative to loop->time, in milliseconds.                      *)
(***************************************************************************)
EXTENDS Integers

CONSTANTS Timers,    \* the addresses malloc may give a struct timer
          Delays,    \* what scripts ask for as after_msec
          Repeats,   \* what scripts ask for as repeat_mesc
          Counts,    \* what scripts ask for as repeat_count
          MaxJump,   \* bounds how far the clock moves from one pass to the next
          NoFrame    \* no callback is running

\* Scripts cannot ask for a delay of 0 (lua_schedule_repeat refuses it); that
\* native code does not is an assumption.
ASSUME TimerAssumption ==
    /\ Delays \subseteq Nat \ {0}
    /\ Repeats \subseteq Int
    /\ Counts \subseteq Int
    /\ MaxJump \in Nat
    /\ NoFrame \notin [timer : Timers, client : {"lua", "native"}, calls : {"counted", "endless"}]

VARIABLES
    up,            \* the process runs
    alive,         \* struct timer: allocated and not freed
    native,        \* those that C++ code asked for, not a script
    repeat_count,  \* struct timer: calls to make, below 0: for ever
    rd,            \* repeat_data: allocated and not freed
    rd_count,      \* repeat_data::repeat_count
    active,        \* uv_timer_t: in the heap of the loop
    left,          \* uv_timer_t: timeout - loop->time
    older,         \* the active timers with a smaller start_id
    repeat,        \* uv_timer_t: repeat
    pc,            \* "poll", or "timers": the loop is in uv__run_timers
    frame,         \* the callback that runs: its timer, and the branch it took
    fired,         \* the timers that have fired in this pass (ghost)
    owed           \* the calls each timer still owes its client (ghost)

memory == <<alive, native, repeat_count>>
lua == <<rd, rd_count>>
uv == <<active, left, older, repeat>>
vars == <<up, memory, lua, uv, pc, frame, fired, owed>>

Frames == [timer : Timers, client : {"lua", "native"}, calls : {"counted", "endless"}]

Init ==
    /\ up = TRUE
    /\ alive = {} /\ native = {} /\ rd = {} /\ active = {}
    /\ repeat_count = [t \in Timers |-> 0]
    /\ rd_count = [t \in Timers |-> 0]
    /\ left = [t \in Timers |-> 0]
    /\ older = [t \in Timers |-> {}]
    /\ repeat = [t \in Timers |-> 0]
    /\ pc = "poll"
    /\ frame = NoFrame
    /\ fired = {}
    /\ owed = [t \in Timers |-> 0]
-----------------------------------------------------------------------------
(* libuv's timers                                                           *)

\* uv_timer_start on a timer that is not active: the newest start_id.
StartTimer(t, timeout) ==
    /\ active' = active \cup {t}
    /\ left' = [left EXCEPT ![t] = timeout]
    /\ older' = [u \in Timers |-> IF u = t THEN active \ {t} ELSE older[u] \ {t}]

\* uv_timer_stop
StopTimer(t) ==
    /\ active' = active \ {t}
    /\ older' = [u \in Timers |-> IF u = t THEN {} ELSE older[u] \ {t}]
    /\ UNCHANGED left

\* A bug to look for: the next timeout is counted from the last one.
AgainFromTimeout(t) ==
    IF repeat[t] = 0 THEN StopTimer(t) ELSE StartTimer(t, left[t] + repeat[t])

\* A bug to look for: the timer is not started again.
AgainNever(t) == StopTimer(t)

\* uv_timer_stop, then uv_timer_again: counted from loop->time, and only if the
\* timer repeats.
Again(t) ==
    IF repeat[t] = 0 THEN StopTimer(t) ELSE StartTimer(t, repeat[t])

\* timer_less_than
Before(t, u) == left[t] < left[u] \/ (left[t] = left[u] /\ t \in older[u])

HeapMin(t) == t \in active /\ \A u \in active \ {t} : Before(t, u)
-----------------------------------------------------------------------------
(* Asking for a timer and cancelling one, from any code the loop runs: an   *)
(* event's callback or a timer's.                                           *)

Running == up /\ (frame # NoFrame \/ pc = "poll")

\* schedule_repeat
ScheduleRepeat(t, after, count, every) ==
    /\ Running /\ t \notin alive
    /\ alive' = alive \cup {t}
    /\ repeat_count' = [repeat_count EXCEPT ![t] = count]
    /\ repeat' = [repeat EXCEPT ![t] = every]
    /\ StartTimer(t, after)
    /\ fired' = fired \ {t}
    /\ owed' = [owed EXCEPT ![t] = count]
    /\ UNCHANGED <<up, pc, frame>>

\* A bug to look for: a script's negative count is passed on as it is.
ForeverAsGiven(count) == count

\* Any negative count means for ever, and -1 from here on.
Forever(count) == IF count < 0 THEN -1 ELSE count

\* A bug to look for: a negative repeat time is passed on as it is.
EveryNegative(after, every) == IF every = 0 THEN after ELSE every

Every(after, every) == IF every <= 0 THEN after ELSE every

\* lua_schedule_repeat and lua_schedule_once; a count of 0 is refused.
LuaSchedule(t, after, count, every) ==
    /\ count # 0
    /\ ScheduleRepeat(t, after, Forever(count), Every(after, every))
    /\ native' = native \ {t}
    /\ rd' = rd \cup {t}
    /\ rd_count' = [rd_count EXCEPT ![t] = Forever(count)]

\* C++ code calls schedule_repeat or schedule_once.  schedule_repeat checks nothing:
\* that its callers ask for some calls (a count of 0 would be counted on below 0)
\* and for a period (without one the timer fires once, whatever its count) is an
\* assumption.
NativeSchedule(t, after, count, every) ==
    /\ count # 0 /\ every > 0
    /\ ScheduleRepeat(t, after, count, every)
    /\ native' = native \cup {t}
    /\ UNCHANGED lua

\* lua_cancel_timer wants a table and schedule returned a userdata: it returns
\* at once, and the timer goes on.
LuaCancel(t) ==
    /\ Running /\ t \in alive \ native
    /\ UNCHANGED vars

\* cancel_timer, on a timer that has not been freed.  One in its last call is
\* left to on_uv_timer.
Cancel(t) ==
    /\ Running /\ t \in alive \cap native /\ repeat_count[t] # 0
    /\ StopTimer(t)
    /\ alive' = alive \ {t}
    /\ owed' = [owed EXCEPT ![t] = 0]
    /\ UNCHANGED <<up, native, repeat_count, lua, repeat, pc, frame, fired>>
-----------------------------------------------------------------------------
(* uv__run_timers, once in every turn of uv_run.                            *)

\* uv__update_time
UpdateTime(d) ==
    /\ up /\ pc = "poll"
    /\ left' = [t \in Timers |-> IF t \in active THEN left[t] - d ELSE left[t]]
    /\ pc' = "timers"
    /\ fired' = {}
    /\ UNCHANGED <<up, memory, lua, active, older, repeat, frame, owed>>

\* The first timer that is due: stopped, started again, and on_uv_timer called,
\* which counts the call before it makes it.
FireTimer(t) ==
    /\ up /\ pc = "timers" /\ frame = NoFrame
    /\ HeapMin(t) /\ left[t] <= 0
    /\ Again(t)
    /\ repeat_count' = [repeat_count EXCEPT ![t] = IF @ < 0 THEN @ ELSE @ - 1]
    /\ frame' = [timer |-> t, client |-> IF t \in native THEN "native" ELSE "lua",
                  calls |-> IF repeat_count[t] < 0 THEN "endless" ELSE "counted"]
    /\ fired' = fired \cup {t}
    /\ owed' = [owed EXCEPT ![t] = IF @ < 0 THEN @ ELSE @ - 1]
    /\ UNCHANGED <<up, alive, native, lua, repeat, pc>>

\* The end of on_lua_repeat_timer.
LuaReturn(t) ==
    IF rd_count[t] = -1
    THEN UNCHANGED lua
    ELSE /\ rd_count' = [rd_count EXCEPT ![t] = @ - 1]
         /\ rd' = IF rd_count[t] <= 1 THEN rd \ {t} ELSE rd

\* A bug to look for: the timer is freed and not stopped.
LastCallKeepsHandle(t) ==
    /\ alive' = IF repeat_count[t] = 0 THEN alive \ {t} ELSE alive
    /\ UNCHANGED <<active, left, older>>

\* After the last call the timer is stopped and freed.
LastCall(t) ==
    IF repeat_count[t] = 0
    THEN alive' = alive \ {t} /\ StopTimer(t)
    ELSE UNCHANGED <<alive, active, left, older>>

\* The end of on_uv_timer.  If the callback cancelled its own timer, a finite one
\* reads repeat_count in freed memory: it finds a 0 there and frees the block
\* again, which may end the process, or it does not.
Return ==
    LET t == frame.timer IN
    /\ up /\ frame # NoFrame
    /\ IF frame.client = "lua" THEN LuaReturn(t) ELSE UNCHANGED lua
    /\ IF frame.calls = "counted" /\ t \in alive
       THEN LastCall(t) /\ UNCHANGED up
       ELSE /\ up' \in IF frame.calls = "counted" THEN BOOLEAN ELSE {TRUE}
            /\ UNCHANGED <<alive, active, left, older>>
    /\ frame' = NoFrame
    /\ UNCHANGED <<native, repeat_count, repeat, pc, fired, owed>>

\* No timer is due any more: the loop goes on to poll.
PassDone ==
    /\ up /\ pc = "timers" /\ frame = NoFrame
    /\ \A t \in active : left[t] > 0
    /\ pc' = "poll"
    /\ UNCHANGED <<up, memory, lua, uv, frame, fired, owed>>

\* There is no process.
Gone == ~up /\ UNCHANGED vars

Client(t) ==
    \/ \E after \in Delays, count \in Counts, every \in Repeats :
          LuaSchedule(t, after, count, every) \/ NativeSchedule(t, after, count, every)
    \/ LuaCancel(t) \/ Cancel(t)

RunTimers == (\E t \in Timers : FireTimer(t)) \/ Return \/ PassDone

Next ==
    \/ \E t \in Timers : Client(t)
    \/ \E d \in 0 .. MaxJump : UpdateTime(d)
    \/ RunTimers \/ Gone

\* Callbacks return and the loop takes its turns; uv_run sleeps until the next
\* timer is due, so the clock moves again and again.
Fairness ==
    /\ WF_vars(RunTimers) /\ WF_vars(Return)
    /\ SF_vars(\E d \in 1 .. MaxJump : UpdateTime(d))

Spec == Init /\ [][Next]_vars
FairSpec == Spec /\ Fairness
-----------------------------------------------------------------------------
TypeOK ==
    /\ up \in BOOLEAN /\ pc \in {"poll", "timers"}
    /\ alive \subseteq Timers /\ native \subseteq Timers
    /\ rd \subseteq Timers /\ active \subseteq Timers /\ fired \subseteq Timers
    /\ repeat_count \in [Timers -> Int]
    /\ rd_count \in [Timers -> Int]
    /\ left \in [Timers -> Int]
    /\ older \in [Timers -> SUBSET Timers]
    /\ repeat \in [Timers -> Nat]
    /\ frame \in Frames \cup {NoFrame}
    /\ owed \in [Timers -> Int]

\* Both halves of a timer live as long as calls are owed, and no longer, although
\* each is freed by a counter of its own: between callbacks a timer has its memory
\* and is in libuv's heap iff it owes calls, and its repeat_data is there with the
\* same count iff a script asked for it (time_list.c:35-50,
\* scheduler_export_to_lua.cpp:34-45).
Lockstep ==
    frame = NoFrame =>
        /\ active = alive
        /\ alive = {t \in Timers : owed[t] # 0}
        /\ rd = alive \ native
        /\ \A t \in rd : rd_count[t] = owed[t]

\* A pass over the timers ends: no timer fires twice in it, however late the loop
\* is, so a short period cannot keep the loop from polling (timer.c:150-167).
PassEnds == \A t \in fired \cap active : left[t] > 0

AlarmSpec == INSTANCE Alarm

\* A client is called as often as it asked, and never after the last call or a
\* cancel, by whatever order timers are made, fire and are cancelled in, from
\* each other's callbacks or their own, and though their memory is used again.
ImplementsAlarm == AlarmSpec!Spec

\* A client that asked for a number of calls gets them or cancels, unless the
\* process ended.
AllCalled == \A t \in Timers : owed[t] > 0 ~> owed[t] = 0 \/ ~up
=============================================================================
