---------------------------- MODULE SessionProofs ----------------------------
(***************************************************************************)
(* The life of sessions, for any connections, memory and scripts.  A stale *)
(* pointer closes nothing as long as the memory, which is not a session    *)
(* any more, still says is_shutdown.  An element of the pool does; memory  *)
(* that went to free does until it is overwritten, and what a stale        *)
(* pointer then does concerns a connection that is gone.                   *)
(***************************************************************************)
EXTENDS Session, TLAPS

\* Sessions in use belong to connections that were made, each to one.
Owned ==
    /\ \A s \in used : owner[s] \in arrived
    /\ \A s, t \in used : owner[s] = owner[t] => s = t

\* Memory that is not in use was no session, or one of a connection that is gone.
Past ==
    \A s \in Slots \ used : owner[s] # NoClient =>
        owner[s] \in arrived /\ \A t \in used : owner[t] # owner[s]

\* A session that is closing, or is no more, is marked; only memory of the heap
\* can have lost its mark.
Marked ==
    /\ \A s \in Slots :
          /\ handle[s] \in {"shutting", "closing"} => is_shutdown[s]
          /\ s \notin used /\ owner[s] # NoClient => is_shutdown[s] \/ owner[s] \in spoiled
    /\ spoiled # {} => HeapSlots # {}

\* What a script has kept was a session.
HeldKnown == \A s \in held : owner[s] # NoClient

Inv == TypeOK /\ HandlesAlive /\ Owned /\ Past /\ Marked /\ HeldKnown /\ BroadcastOnce

StageMap == [c \in Clients |-> Stage(c)]

LEMMA InitInv == Init => Inv /\ Lifecycle!Init
<1> SUFFICES ASSUME Init PROVE Inv /\ Lifecycle!Init
  OBVIOUS
<1>1. TypeOK /\ HandlesAlive /\ Owned /\ Past /\ HeldKnown
  BY SessionAssumption DEF Init, TypeOK, HandlesAlive, Owned, Past, HeldKnown
<1>2. Marked
  BY DEF Init, Marked
<1>3. \A c \in Clients : Stage(c) = "away"
  BY DEF Init, Stage
<1>4. BroadcastOnce
  BY <1>3 DEF Init, BroadcastOnce
<1> QED
  BY <1>1, <1>2, <1>3, <1>4 DEF Inv, Lifecycle!Init
-----------------------------------------------------------------------------
(* Where a connection stands.                                               *)

\* Stage, as a function of what it depends on.
StageOf(c, u, o, sh, arr) ==
    IF c \notin arr THEN "away"
    ELSE IF \E s \in u : o[s] = c
         THEN IF \E s \in u : o[s] = c /\ sh[s] THEN "left" ELSE "present"
         ELSE "gone"

LEMMA StageIs ==
    ASSUME NEW c
    PROVE  /\ Stage(c) = StageOf(c, used, owner, is_shutdown, arrived)
           /\ Stage(c)' = StageOf(c, used', owner', is_shutdown', arrived')
BY DEF Stage, StageOf

\* A connection stands where its session says.
LEMMA StageOfSession ==
    ASSUME NEW u, NEW o, NEW sh, NEW arr, NEW s \in u, o[s] \in arr,
           \A t \in u : o[t] = o[s] => t = s
    PROVE  /\ sh[s] => StageOf(o[s], u, o, sh, arr) = "left"
           /\ ~sh[s] => StageOf(o[s], u, o, sh, arr) = "present"
BY DEF StageOf

\* The sessions of other connections do not matter.
LEMMA StageSame ==
    ASSUME NEW c, NEW u, NEW o, NEW sh, NEW arr, NEW u2, NEW o2, NEW sh2, NEW arr2,
           c \in arr <=> c \in arr2,
           \A s : s \in u /\ o[s] = c <=> s \in u2 /\ o2[s] = c,
           \A s \in u : o[s] = c => (sh[s] <=> sh2[s])
    PROVE  StageOf(c, u, o, sh, arr) = StageOf(c, u2, o2, sh2, arr2)
BY DEF StageOf

\* A step that makes, closes and destroys no session.
LEMMA QuietStage ==
    ASSUME Inv, UNCHANGED <<used, owner, is_shutdown, arrived, heard, spoiled>>
    PROVE  BroadcastOnce' /\ UNCHANGED StageMap
<1>1. \A c \in Clients : Stage(c)' = Stage(c)
  BY DEF Stage
<1> QED
  BY <1>1 DEF Inv, BroadcastOnce, StageMap

\* One connection moves, and its end is broadcast when it leaves.
LEMMA OneMoves ==
    ASSUME Inv, NEW c \in Clients, NEW to \in {"present", "left", "gone"},
           to = "present" => Stage(c) = "away",
           to = "left" => Stage(c) = "present",
           to = "gone" => Stage(c) = "left",
           Stage(c)' = to,
           \A d \in Clients \ {c} : Stage(d)' = Stage(d),
           to = "left" => heard' = [heard EXCEPT ![c] = @ + 1],
           to # "left" => heard' = heard,
           spoiled' = spoiled
    PROVE  BroadcastOnce' /\ Lifecycle!Next
<1>1. heard \in [Clients -> Nat] /\ BroadcastOnce
  BY DEF Inv, TypeOK
<1>0. c \notin spoiled
  BY <1>1 DEF BroadcastOnce
<1>2. StageMap' = [StageMap EXCEPT ![c] = to] /\ StageMap[c] = Stage(c)
  BY DEF StageMap
<1>3. CASE to = "present"
  <2>1. BroadcastOnce'
    BY <1>0, <1>1, <1>3 DEF BroadcastOnce
  <2>2. Lifecycle!Arrive(c)
    BY <1>2, <1>3 DEF Lifecycle!Arrive, Lifecycle!Move, StageMap
  <2> QED
    BY <2>1, <2>2 DEF Lifecycle!Next
<1>4. CASE to = "left"
  <2>1. BroadcastOnce'
    BY <1>0, <1>1, <1>4 DEF BroadcastOnce
  <2>2. Lifecycle!Leave(c)
    BY <1>2, <1>4 DEF Lifecycle!Leave, Lifecycle!Move, StageMap
  <2> QED
    BY <2>1, <2>2 DEF Lifecycle!Next
<1>5. CASE to = "gone"
  <2>1. BroadcastOnce'
    BY <1>0, <1>1, <1>5 DEF BroadcastOnce
  <2>2. Lifecycle!Vanish(c)
    BY <1>2, <1>5 DEF Lifecycle!Vanish, Lifecycle!Move, StageMap
  <2> QED
    BY <2>1, <2>2 DEF Lifecycle!Next
<1> QED
  BY <1>3, <1>4, <1>5
-----------------------------------------------------------------------------
(* The steps.                                                               *)

\* A session in use is a connection's, and a handle is of a session in use.
LEMMA UsedOwner ==
    ASSUME Inv, NEW s \in Slots, s \in used \/ s \in held \/ handle[s] # "none"
    PROVE  owner[s] \in Clients /\ owner[s] # NoClient
<1>1. s \in used => owner[s] \in Clients
  BY DEF Inv, TypeOK, Owned
<1>2. handle[s] # "none" => s \in used
  BY DEF Inv, HandlesAlive
<1>3. s \in held => owner[s] \in Clients
  BY DEF Inv, TypeOK, HeldKnown
<1> QED
  BY <1>1, <1>2, <1>3, SessionAssumption

LEMMA QuietInv ==
    ASSUME Inv, UNCHANGED <<used, owner, is_shutdown, arrived, heard, spoiled>>,
           TypeOK', HandlesAlive', Marked', HeldKnown'
    PROVE  Inv' /\ UNCHANGED StageMap
<1>1. Owned' /\ Past'
  BY DEF Inv, Owned, Past
<1> QED
  BY <1>1, QuietStage DEF Inv

LEMMA CreateInv ==
    ASSUME Inv, NEW s \in Slots, NEW c \in Clients, NEW asClient \in BOOLEAN,
           NEW h \in {"none", "socket", "connecting", "open"}, NEW r \in BOOLEAN,
           Create(s, c, asClient, h), reading' = [reading EXCEPT ![s] = r]
    PROVE  Inv' /\ Lifecycle!Next
<1> USE DEF Inv
<1>1. /\ c \notin arrived /\ s \notin used /\ used' = used \cup {s}
      /\ arrived' = arrived \cup {c} /\ owner' = [owner EXCEPT ![s] = c]
      /\ is_shutdown' = [is_shutdown EXCEPT ![s] = FALSE]
      /\ handle' = [handle EXCEPT ![s] = h] /\ queue' = [queue EXCEPT ![s] = 0]
      /\ UNCHANGED <<up, lost, services, held, heard, spoiled>>
  BY DEF Create, Pool!Acquire
<1>2. uid' \in [Slots -> Uids \cup {0}] /\ as_client' \in [Slots -> {0, 1}]
  BY DEF Create, TypeOK
<1>3. TypeOK'
  <2>1. /\ used' \subseteq Slots /\ arrived' \subseteq Clients
        /\ owner' \in [Slots -> Clients \cup {NoClient}]
    BY <1>1 DEF TypeOK
  <2>2. is_shutdown' \in [Slots -> BOOLEAN] /\ reading' \in [Slots -> BOOLEAN]
    BY <1>1 DEF TypeOK
  <2>3. handle' \in [Slots -> {"none", "socket", "connecting", "open", "shutting", "closing"}]
    BY <1>1 DEF TypeOK
  <2>4. queue' \in [Slots -> 0 .. MaxQueue]
    BY <1>1, SessionAssumption DEF TypeOK
  <2> QED
    BY <1>1, <1>2, <2>1, <2>2, <2>3, <2>4 DEF TypeOK
<1>4. \A x \in Slots :
          /\ owner'[x] = IF x = s THEN c ELSE owner[x]
          /\ is_shutdown'[x] <=> x # s /\ is_shutdown[x]
          /\ handle'[x] = IF x = s THEN h ELSE handle[x]
          /\ queue'[x] = IF x = s THEN 0 ELSE queue[x]
  BY <1>1 DEF TypeOK
<1>5. HandlesAlive'
  BY <1>1, <1>4 DEF HandlesAlive, TypeOK
<1>6. Owned'
  <2>1. \A x \in used : x \in Slots /\ x # s /\ owner[x] # c
    BY <1>1 DEF Owned, TypeOK
  <2> QED
    BY <1>1, <1>4, <2>1 DEF Owned
<1>12. Past'
  <2> SUFFICES ASSUME NEW x \in Slots \ used', owner'[x] # NoClient
               PROVE  owner'[x] \in arrived' /\ \A y \in used' : owner'[y] # owner'[x]
    BY DEF Past
  <2>1. x \in Slots \ used /\ x # s /\ owner'[x] = owner[x]
    BY <1>1, <1>4
  <2>2. owner[x] \in arrived /\ \A y \in used : owner[y] # owner[x]
    BY <2>1 DEF Past
  <2>3. ASSUME NEW y \in used' PROVE owner'[y] # owner[x]
    <3>1. CASE y = s
      BY <1>1, <1>4, <2>2, <3>1
    <3>2. CASE y # s
      <4>1. y \in used /\ owner'[y] = owner[y]
        BY <1>1, <1>4, <3>2 DEF TypeOK
      <4> QED
        BY <2>2, <4>1
    <3> QED
      BY <3>1, <3>2
  <2> QED
    BY <1>1, <2>1, <2>2, <2>3
<1>7. Marked'
  BY <1>1, <1>4 DEF Marked
<1>8. HeldKnown'
  BY <1>1, <1>4, SessionAssumption DEF HeldKnown, TypeOK
<1>9. Stage(c) = "away" /\ Stage(c)' = "present"
  <2>1. Stage(c) = "away"
    BY <1>1 DEF Stage
  <2>2. \A t \in used' : owner'[t] = owner'[s] => t = s
    BY <1>1, <1>6 DEF Owned
  <2>3. ~is_shutdown'[s] /\ s \in used' /\ owner'[s] = c /\ c \in arrived'
    BY <1>1, <1>4
  <2>4. StageOf(owner'[s], used', owner', is_shutdown', arrived') = "present"
    BY <2>2, <2>3, StageOfSession
  <2> QED
    BY <2>1, <2>3, <2>4, StageIs
<1>10. ASSUME NEW d \in Clients \ {c} PROVE Stage(d)' = Stage(d)
  <2>1. d \in arrived <=> d \in arrived'
    BY <1>1
  <2>2. \A x : x \in used /\ owner[x] = d <=> x \in used' /\ owner'[x] = d
    BY <1>1, <1>4 DEF TypeOK
  <2>3. \A x \in used : owner[x] = d => (is_shutdown[x] <=> is_shutdown'[x])
    BY <1>1, <1>4 DEF TypeOK
  <2>4. StageOf(d, used, owner, is_shutdown, arrived)
            = StageOf(d, used', owner', is_shutdown', arrived')
    BY <2>1, <2>2, <2>3, StageSame
  <2> QED
    BY <2>4, StageIs
<1>11. BroadcastOnce' /\ Lifecycle!Next
  BY <1>1, <1>9, <1>10, OneMoves
<1> QED
  BY <1>3, <1>5, <1>6, <1>7, <1>8, <1>11, <1>12

\* session_uv::close marks the session, and the handle goes on to its shutdown.
LEMMA CloseFields ==
    ASSUME TypeOK, NEW s \in Slots, owner[s] \in Clients, Close(s)
    PROVE  /\ is_shutdown' \in [Slots -> BOOLEAN] /\ heard' \in [Clients -> Nat]
           /\ handle' \in [Slots -> {"none", "socket", "connecting", "open", "shutting", "closing"}]
           /\ \A x \in Slots : is_shutdown'[x] <=> x = s \/ is_shutdown[x]
           /\ \A x \in Slots :
                 \/ handle'[x] = handle[x]
                 \/ /\ x = s /\ handle[x] \in Shuttable
                    /\ handle'[x] = "shutting"
<1>1. CASE is_shutdown[s]
  BY <1>1 DEF Close, TypeOK
<1>2. CASE ~is_shutdown[s]
  <2>1. /\ heard' = [heard EXCEPT ![owner[s]] = @ + 1]
        /\ is_shutdown' = [is_shutdown EXCEPT ![s] = TRUE]
        /\ handle' = [handle EXCEPT ![s] =
                         IF @ \in Shuttable THEN "shutting" ELSE @]
    BY <1>2 DEF Close
  <2>2. is_shutdown' \in [Slots -> BOOLEAN]
    BY <2>1 DEF TypeOK
  <2>3. heard' \in [Clients -> Nat]
    BY <2>1 DEF TypeOK
  <2>4. handle' \in [Slots -> {"none", "socket", "connecting", "open", "shutting", "closing"}]
    BY <2>1 DEF TypeOK
  <2>5. \A x \in Slots : is_shutdown'[x] <=> x = s \/ is_shutdown[x]
    BY <2>1 DEF TypeOK
  <2>6. \A x \in Slots : \/ handle'[x] = handle[x]
                        \/ /\ x = s /\ handle[x] \in Shuttable
                           /\ handle'[x] = "shutting"
    BY <2>1 DEF TypeOK
  <2> QED
    BY <2>2, <2>3, <2>4, <2>5, <2>6
<1> QED
  BY <1>1, <1>2

\* A close, by whoever holds a pointer to what is or was a session.
LEMMA CloseInv ==
    ASSUME Inv, NEW s \in Slots, owner[s] \in Clients, owner[s] # NoClient, Close(s),
           UNCHANGED <<up, used, owner, as_client, uid, queue, lost, services, arrived,
                       spoiled>>,
           reading' \in [Slots -> BOOLEAN], held' \subseteq Slots, HeldKnown'
    PROVE  Inv' /\ [Lifecycle!Next]_StageMap
<1> USE DEF Inv
<1>1. /\ is_shutdown' \in [Slots -> BOOLEAN] /\ heard' \in [Clients -> Nat]
      /\ handle' \in [Slots -> {"none", "socket", "connecting", "open", "shutting", "closing"}]
      /\ \A x \in Slots : is_shutdown'[x] <=> x = s \/ is_shutdown[x]
      /\ \A x \in Slots :
            \/ handle'[x] = handle[x]
            \/ /\ x = s /\ handle[x] \in Shuttable
               /\ handle'[x] = "shutting"
  BY CloseFields
<1>2. TypeOK'
  BY <1>1 DEF TypeOK
<1>3. HandlesAlive'
  BY <1>1 DEF HandlesAlive, Shuttable, Writable
<1>4. Owned' /\ Past'
  BY DEF Owned, Past
<1>5. Marked'
  BY <1>1 DEF Marked
<1>6. BroadcastOnce' /\ [Lifecycle!Next]_StageMap
  <2>1. CASE is_shutdown[s]
    <3>1. UNCHANGED <<is_shutdown, heard, handle>>
      BY <2>1 DEF Close
    <3> QED
      BY <3>1, QuietStage
  <2>2. CASE ~is_shutdown[s] /\ s \in used
    <3>0. PICK c \in Clients : c = owner[s]
      OBVIOUS
    <3>1. s \in used /\ heard' = [heard EXCEPT ![c] = @ + 1]
      BY <2>2, <3>0 DEF Close
    <3>2. Stage(c) = "present" /\ Stage(c)' = "left"
      <4>1. \A t \in used : owner[t] = owner[s] => t = s
        BY <3>1 DEF Owned
      <4>2. owner[s] \in arrived
        BY <3>1 DEF Owned
      <4>3. StageOf(owner[s], used, owner, is_shutdown, arrived) = "present"
        BY <2>2, <3>1, <4>1, <4>2, StageOfSession
      <4>4. is_shutdown'[s]
        BY <1>1
      <4>5. StageOf(owner[s], used, owner, is_shutdown', arrived) = "left"
        BY <3>1, <4>1, <4>2, <4>4, StageOfSession
      <4> QED
        BY <3>0, <4>3, <4>5, StageIs
    <3>3. ASSUME NEW d \in Clients \ {c} PROVE Stage(d)' = Stage(d)
      <4>0. used \subseteq Slots /\ \A x \in used : owner[x] = d => x # s
        BY <3>0 DEF TypeOK
      <4>1. \A x \in used : owner[x] = d => (is_shutdown[x] <=> is_shutdown'[x])
        BY <1>1, <4>0, Zenon
      <4>2. StageOf(d, used, owner, is_shutdown, arrived)
                = StageOf(d, used, owner, is_shutdown', arrived)
        BY <4>1, StageSame
      <4> QED
        BY <4>2, StageIs
    <3> QED
      BY <3>1, <3>2, <3>3, OneMoves
  <2>3. CASE ~is_shutdown[s] /\ s \notin used
    <3>0. PICK c \in Clients : c = owner[s]
      OBVIOUS
    <3>1. c \in spoiled /\ heard' = [heard EXCEPT ![c] = @ + 1]
      BY <2>3, <3>0 DEF Close, Marked
    <3>2. ASSUME NEW d \in Clients PROVE Stage(d)' = Stage(d)
      <4>1. \A x \in used : is_shutdown[x] <=> is_shutdown'[x]
        BY <1>1, <2>3 DEF TypeOK
      <4>2. StageOf(d, used, owner, is_shutdown, arrived)
                = StageOf(d, used, owner, is_shutdown', arrived)
        BY <4>1, StageSame
      <4> QED
        BY <4>2, StageIs
    <3>3. heard \in [Clients -> Nat]
      BY DEF TypeOK
    <3>4. BroadcastOnce'
      BY <3>1, <3>2, <3>3 DEF BroadcastOnce
    <3> QED
      BY <3>2, <3>4 DEF StageMap
  <2> QED
    BY <2>1, <2>2, <2>3
<1> QED
  BY <1>2, <1>3, <1>4, <1>5, <1>6

\* The session of a closed handle is destroyed.
LEMMA CloseCbInv ==
    ASSUME Inv, NEW s \in Slots, CloseCb(s)
    PROVE  Inv' /\ Lifecycle!Next
<1> USE DEF Inv
<1>1. /\ handle[s] = "closing" /\ s \in used /\ used' = used \ {s}
      /\ handle' = [handle EXCEPT ![s] = "none"]
      /\ UNCHANGED <<up, owner, fields, reading, queue, lost, services, held, arrived, heard,
                     spoiled>>
  BY DEF CloseCb, Pool!Release
<1>2. TypeOK'
  BY <1>1 DEF TypeOK, fields
<1>3. \A x \in Slots : handle'[x] = IF x = s THEN "none" ELSE handle[x]
  BY <1>1 DEF TypeOK
<1>4. HandlesAlive'
  BY <1>1, <1>3 DEF HandlesAlive, Writable
<1>5. Owned' /\ HeldKnown'
  BY <1>1 DEF Owned, HeldKnown
<1>11. Past'
  <2> SUFFICES ASSUME NEW x \in Slots \ used', owner[x] # NoClient
               PROVE  owner[x] \in arrived /\ \A y \in used' : owner[y] # owner[x]
    BY <1>1 DEF Past
  <2>1. CASE x = s
    BY <1>1, <2>1 DEF Owned
  <2>2. CASE x # s
    BY <1>1, <2>2 DEF Past
  <2> QED
    BY <2>1, <2>2
<1>6. Marked'
  BY <1>1, <1>3 DEF Marked, fields
<1>7. PICK c \in Clients : c = owner[s]
  BY <1>1, UsedOwner
<1>8. Stage(c) = "left" /\ Stage(c)' = "gone"
  <2>1. (\A t \in used : owner[t] = owner[s] => t = s) /\ owner[s] \in arrived
    BY <1>1 DEF Owned
  <2>2. is_shutdown[s]
    BY <1>1 DEF Marked
  <2>3. StageOf(owner[s], used, owner, is_shutdown, arrived) = "left"
    BY <1>1, <2>1, <2>2, StageOfSession
  <2>4. Stage(c)' = "gone"
    BY <1>1, <1>7, <2>1 DEF Stage
  <2> QED
    BY <1>7, <2>3, <2>4, StageIs
<1>9. ASSUME NEW d \in Clients \ {c} PROVE Stage(d)' = Stage(d)
  BY <1>1, <1>7 DEF Stage, fields
<1>10. BroadcastOnce' /\ Lifecycle!Next
  BY <1>1, <1>8, <1>9, OneMoves
<1> QED
  BY <1>2, <1>4, <1>5, <1>6, <1>10, <1>11

\* The memory of a session that is no more is overwritten.
LEMMA OverwriteInv ==
    ASSUME Inv, NEW s \in Slots, Overwrite(s)
    PROVE  Inv' /\ UNCHANGED StageMap
<1> USE DEF Inv
<1>1. /\ s \in HeapSlots /\ s \notin used /\ owner[s] # NoClient
      /\ is_shutdown' = [is_shutdown EXCEPT ![s] = FALSE]
      /\ spoiled' = spoiled \cup {owner[s]}
      /\ UNCHANGED <<up, used, owner, as_client, uid, uv, services, held, arrived, heard>>
  BY DEF Overwrite
<1>2. PICK c \in Clients : c = owner[s]
  BY <1>1 DEF TypeOK
<1>3. TypeOK'
  BY <1>1, <1>2 DEF TypeOK, uv
<1>4. HandlesAlive' /\ Owned' /\ Past' /\ HeldKnown'
  BY <1>1 DEF HandlesAlive, Owned, Past, HeldKnown, uv
<1>5. Marked'
  <2>1. handle[s] = "none"
    BY <1>1 DEF HandlesAlive
  <2> QED
    BY <1>1, <2>1 DEF Marked, TypeOK, uv
<1>6. ASSUME NEW d \in Clients PROVE Stage(d)' = Stage(d)
  <2>1. \A x \in used : is_shutdown[x] <=> is_shutdown'[x]
    BY <1>1 DEF TypeOK
  <2>2. StageOf(d, used, owner, is_shutdown, arrived)
            = StageOf(d, used, owner, is_shutdown', arrived)
    BY <2>1, StageSame
  <2> QED
    BY <1>1, <2>2, StageIs
<1>7. Stage(c) = "gone"
  BY <1>1, <1>2 DEF Past, Stage
<1>8. BroadcastOnce'
  <2>1. heard[c] >= 1
    BY <1>7 DEF BroadcastOnce
  <2> QED
    BY <1>1, <1>2, <1>6, <1>7, <2>1 DEF BroadcastOnce
<1> QED
  BY <1>3, <1>4, <1>5, <1>6, <1>8 DEF StageMap

\* An action that neither makes, marks nor destroys a session.
Quiet(s) ==
    \/ Connected(s, FALSE) \/ ShutdownCb(s) \/ WriteDone(s)
    \/ \E t \in Stypes : ScriptKeep(s, t)
    \/ \E t \in Stypes, x \in Slots :
          ScriptSend(s, t, x) \/ \E u \in Uids : ScriptSetUid(s, t, x, u)

LEMMA QuietSteps ==
    ASSUME Inv, NEW s \in Slots, Quiet(s)
    PROVE  Inv' /\ UNCHANGED StageMap
<1> USE DEF Inv
<1>1. CASE Connected(s, FALSE)
  <2>1. /\ handle[s] = "connecting" /\ handle' = [handle EXCEPT ![s] = "open"]
        /\ reading' = [reading EXCEPT ![s] = TRUE] /\ held' \in {held, held \cup {s}}
        /\ UNCHANGED <<up, used, owner, fields, queue, lost, services, arrived, heard,
                       spoiled>>
    BY <1>1 DEF Connected, fields
  <2>2. TypeOK'
    BY <2>1 DEF TypeOK, fields
  <2>3. HandlesAlive'
    BY <2>1 DEF HandlesAlive, TypeOK, Writable
  <2>4. Marked'
    BY <2>1 DEF Marked, TypeOK, fields
  <2>5. HeldKnown'
    BY <2>1, UsedOwner DEF HeldKnown
  <2> QED
    BY <2>1, <2>2, <2>3, <2>4, <2>5, QuietInv DEF fields
<1>2. CASE ShutdownCb(s)
  <2>1. /\ handle[s] = "shutting" /\ queue[s] = 0
        /\ handle' = [handle EXCEPT ![s] = "closing"]
        /\ reading' = [reading EXCEPT ![s] = FALSE]
        /\ UNCHANGED <<up, used, owner, fields, queue, lost, services, held, arrived, heard,
                       spoiled>>
    BY <1>2 DEF ShutdownCb
  <2>2. TypeOK'
    BY <2>1 DEF TypeOK, fields
  <2>3. HandlesAlive'
    BY <2>1 DEF HandlesAlive, TypeOK, Writable
  <2>4. Marked'
    BY <2>1 DEF Marked, TypeOK, fields
  <2>5. HeldKnown'
    BY <2>1 DEF HeldKnown
  <2> QED
    BY <2>1, <2>2, <2>3, <2>4, <2>5, QuietInv DEF fields
<1>3. CASE WriteDone(s)
  <2>1. /\ handle[s] \in Writable /\ queue[s] > 0
        /\ queue' = [queue EXCEPT ![s] = @ - 1]
        /\ UNCHANGED <<up, used, owner, fields, handle, reading, lost, services, held,
                       arrived, heard, spoiled>>
    BY <1>3 DEF WriteDone
  <2>2. TypeOK'
    BY <2>1, SessionAssumption DEF TypeOK, fields
  <2>3. HandlesAlive'
    BY <2>1 DEF HandlesAlive, TypeOK, Writable
  <2>4. Marked' /\ HeldKnown'
    BY <2>1 DEF Marked, HeldKnown, fields
  <2> QED
    BY <2>1, <2>2, <2>3, <2>4, QuietInv DEF fields
<1>4. ASSUME NEW t \in Stypes, ScriptKeep(s, t) PROVE Inv' /\ UNCHANGED StageMap
  <2>1. /\ handle[s] # "none" /\ held' = held \cup {s}
        /\ UNCHANGED <<up, used, owner, fields, uv, services, arrived, heard, spoiled>>
    BY <1>4 DEF ScriptKeep, Script, Readable
  <2>2. TypeOK'
    BY <2>1 DEF TypeOK, fields, uv
  <2>3. HandlesAlive' /\ Marked'
    BY <2>1 DEF HandlesAlive, Marked, fields, uv
  <2>4. HeldKnown'
    BY <2>1, UsedOwner DEF HeldKnown
  <2> QED
    BY <2>1, <2>2, <2>3, <2>4, QuietInv DEF fields
<1>5. ASSUME NEW t \in Stypes, NEW x \in Slots, ScriptSend(s, t, x)
      PROVE  Inv' /\ UNCHANGED StageMap
  <2>1. /\ \/ /\ handle[x] \in Writable /\ queue[x] < MaxQueue
              /\ queue' = [queue EXCEPT ![x] = @ + 1] /\ lost' = lost
           \/ lost < MaxLost /\ lost' = lost + 1 /\ queue' = queue
        /\ UNCHANGED <<up, used, owner, fields, handle, reading, services, held,
                       arrived, heard, spoiled>>
    BY <1>5 DEF ScriptSend, Write
  <2>2. TypeOK'
    BY <2>1, SessionAssumption DEF TypeOK, fields
  <2>3. HandlesAlive'
    BY <2>1 DEF HandlesAlive, TypeOK, Writable
  <2>4. Marked' /\ HeldKnown'
    BY <2>1 DEF Marked, HeldKnown, fields
  <2> QED
    BY <2>1, <2>2, <2>3, <2>4, QuietInv DEF fields
<1>6. ASSUME NEW t \in Stypes, NEW x \in Slots, NEW u \in Uids, ScriptSetUid(s, t, x, u)
      PROVE  Inv' /\ UNCHANGED StageMap
  <2>1. /\ uid' = [uid EXCEPT ![x] = u]
        /\ UNCHANGED <<up, used, owner, is_shutdown, as_client, uv, services, held,
                       arrived, heard, spoiled>>
    BY <1>6 DEF ScriptSetUid
  <2>2. TypeOK'
    BY <2>1 DEF TypeOK, uv
  <2>3. HandlesAlive' /\ Marked' /\ HeldKnown'
    BY <2>1 DEF HandlesAlive, Marked, HeldKnown, uv
  <2> QED
    BY <2>1, <2>2, <2>3, QuietInv
<1> QED
  BY <1>1, <1>2, <1>3, <1>4, <1>5, <1>6 DEF Quiet

\* An action that closes a session, or what a kept pointer takes for one.
Closing(s) ==
    \/ Connected(s, TRUE) \/ ConnectFailed(s) \/ ReadEnd(s)
    \/ \E t \in Stypes : RefusedCommand(s, t)
    \/ \E t \in Stypes, x \in Slots : ScriptClose(s, t, x)

LEMMA ClosingSteps ==
    ASSUME Inv, NEW s \in Slots, Closing(s)
    PROVE  Inv' /\ [Lifecycle!Next]_StageMap
<1>1. handle[s] # "none"
  BY DEF Closing, Connected, ConnectFailed, ReadEnd, RefusedCommand, ScriptClose, Script,
         Readable
<1>2. owner[s] \in Clients /\ owner[s] # NoClient
  BY <1>1, UsedOwner
<1>3. /\ held \subseteq Slots /\ reading \in [Slots -> BOOLEAN]
      /\ \A x \in held : owner[x] # NoClient
  BY DEF Inv, TypeOK, HeldKnown
<1>4. CASE Connected(s, TRUE)
  <2>1. /\ Close(s) /\ reading' = [reading EXCEPT ![s] = TRUE]
        /\ held' \in {held, held \cup {s}}
        /\ UNCHANGED <<up, used, owner, as_client, uid, queue, lost, services, arrived,
                       spoiled>>
    BY <1>4 DEF Connected
  <2>2. reading' \in [Slots -> BOOLEAN] /\ held' \subseteq Slots /\ HeldKnown'
    BY <1>2, <1>3, <2>1 DEF HeldKnown
  <2> QED
    BY <1>2, <2>1, <2>2, CloseInv
<1>5. ASSUME NEW x \in Slots, x = s \/ x \in held, Close(x),
             UNCHANGED <<up, used, owner, as_client, uid, queue, lost, services, held,
                         arrived, spoiled>>,
             reading' \in {reading, [reading EXCEPT ![x] = FALSE]}
      PROVE  Inv' /\ [Lifecycle!Next]_StageMap
  <2>1. owner[x] \in Clients /\ owner[x] # NoClient
    BY <1>1, <1>5, UsedOwner
  <2>2. reading' \in [Slots -> BOOLEAN] /\ held' \subseteq Slots /\ HeldKnown'
    BY <1>3, <1>5 DEF HeldKnown
  <2> QED
    BY <1>5, <2>1, <2>2, CloseInv
<1>6. CASE ConnectFailed(s)
  BY <1>5, <1>6 DEF ConnectFailed
<1>7. CASE ReadEnd(s)
  BY <1>5, <1>7 DEF ReadEnd
<1>8. CASE \E t \in Stypes : RefusedCommand(s, t)
  BY <1>5, <1>8 DEF RefusedCommand
<1>9. CASE \E t \in Stypes, x \in Slots : ScriptClose(s, t, x)
  BY <1>5, <1>9 DEF ScriptClose, Script
<1> QED
  BY <1>4, <1>6, <1>7, <1>8, <1>9 DEF Closing

LEMMA CreateSteps ==
    ASSUME Inv, NEW s \in Slots, NEW c \in Clients,
           Accept(s, c) \/ TcpConnect(s, c) \/ TcpConnectFails(s, c)
    PROVE  Inv' /\ Lifecycle!Next
BY CreateInv DEF Accept, TcpConnect, TcpConnectFails

\* A registration, the end of the process, and rest.
LEMMA OtherSteps ==
    ASSUME Inv, (\E t \in Stypes : Register(t)) \/ WildCall \/ UNCHANGED vars
    PROVE  Inv' /\ UNCHANGED StageMap
<1>1. /\ UNCHANGED <<used, owner, fields, uv, held, arrived, heard, spoiled>>
      /\ up' \in BOOLEAN /\ services' \subseteq Stypes
  BY DEF Register, WildCall, vars, Inv, TypeOK
<1>2. TypeOK'
  BY <1>1 DEF Inv, TypeOK, fields, uv
<1>3. HandlesAlive' /\ Marked' /\ HeldKnown'
  BY <1>1 DEF Inv, HandlesAlive, Marked, HeldKnown, fields, uv
<1> QED
  BY <1>1, <1>2, <1>3, QuietInv DEF fields

LEMMA StepInv == Inv /\ [Next]_vars => Inv' /\ [Lifecycle!Next]_StageMap
<1> SUFFICES ASSUME Inv, [Next]_vars PROVE Inv' /\ [Lifecycle!Next]_StageMap
  OBVIOUS
<1>1. ASSUME NEW s \in Slots, NetworkStep(s) PROVE Inv' /\ [Lifecycle!Next]_StageMap
  <2>1. \/ \E c \in Clients : Accept(s, c) \/ TcpConnect(s, c) \/ TcpConnectFails(s, c)
        \/ Closing(s) \/ Quiet(s) \/ CloseCb(s) \/ Overwrite(s)
    BY <1>1 DEF NetworkStep, Closing, Quiet
  <2> QED
    BY <2>1, CreateSteps, ClosingSteps, QuietSteps, CloseCbInv, OverwriteInv
<1>2. ASSUME NEW s \in Slots, NEW t \in Stypes, ServiceStep(s, t)
      PROVE  Inv' /\ [Lifecycle!Next]_StageMap
  <2>1. Closing(s) \/ Quiet(s)
    BY <1>2 DEF ServiceStep, Closing, Quiet
  <2> QED
    BY <2>1, ClosingSteps, QuietSteps
<1>3. CASE (\E t \in Stypes : Register(t)) \/ WildCall \/ UNCHANGED vars
  BY <1>3, OtherSteps
<1>4. CASE Rest
  BY <1>4, OtherSteps DEF Rest
<1> QED
  BY <1>1, <1>2, <1>3, <1>4 DEF Next
-----------------------------------------------------------------------------
LEMMA InvHolds == Spec => []Inv
<1>1. Init => Inv
  BY InitInv
<1>2. Inv /\ [Next]_vars => Inv'
  BY StepInv
<1> QED
  BY <1>1, <1>2, PTL DEF Spec

\* The types of the sessions' state are kept.
THEOREM SessionTypes == Spec => []TypeOK
<1>1. Inv => TypeOK
  BY DEF Inv
<1> QED
  BY <1>1, InvHolds, PTL

\* A handle libuv may still call back on lives in a session that is in use,
\* whatever order connects, closes, writes and callbacks come in
\* (session_uv.cpp:30-51).
THEOREM SessionHandlesAlive == Spec => []HandlesAlive
<1>1. Inv => HandlesAlive
  BY DEF Inv
<1> QED
  BY <1>1, InvHolds, PTL

\* The end of each connection is broadcast when it leaves and not again, even when
\* scripts close what their stale pointers name; the exception are connections
\* that are gone and whose session's memory went to free and was overwritten
\* there (session_uv.cpp:69-81, cache.c:70-81).
THEOREM SessionBroadcastOnce == Spec => []BroadcastOnce
<1>1. Inv => BroadcastOnce
  BY DEF Inv
<1> QED
  BY <1>1, InvHolds, PTL

\* While no session spills from the pool to the heap there is no exception: cache.c
\* writes over the first word of a freed element only, and a stale pointer finds
\* is_shutdown set (session_uv.cpp:71, cache.c:72-77).
THEOREM SessionPoolBroadcastOnce ==
    ASSUME HeapSlots = {}
    PROVE  Spec => [](\A c \in Clients :
                         heard[c] = IF Stage(c) \in {"left", "gone"} THEN 1 ELSE 0)
<1>1. Inv => \A c \in Clients : heard[c] = IF Stage(c) \in {"left", "gone"} THEN 1 ELSE 0
  BY DEF Inv, Marked, BroadcastOnce
<1> QED
  BY <1>1, InvHolds, PTL

\* Every session arrives, leaves and vanishes, in this order and each once, for
\* any connections and any memory (session_uv.cpp:38-81).
THEOREM SessionImplementsLifecycle == Spec => ImplementsLifecycle
<1>1. Init => Lifecycle!Init
  BY InitInv
<1>2. Inv /\ [Next]_vars => [Lifecycle!Next]_StageMap
  BY StepInv
<1> QED
  BY <1>1, <1>2, InvHolds, PTL DEF Spec, ImplementsLifecycle, Lifecycle!Spec, StageMap
=============================================================================
