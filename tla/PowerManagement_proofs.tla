----------------------- MODULE PowerManagement_proofs -----------------------
(***************************************************************************)
(* Proofs about PowerManagement.tla for every number of cores and every    *)
(* bound: the variables keep their types, the shared power domain counts   *)
(* the cores that are on, a core the user stopped is not started, a        *)
(* clean can be blocked only by a submission that slept, and the users of  *)
(* the clock are counted exactly.                                          *)
(***************************************************************************)
EXTENDS PowerManagement, TLAPS, FiniteSetTheorems

(* Every core is suspended between its own suspension and its own resume,  *)
(* and only then: without this an event could find it in a state that is   *)
(* not a power state to come back to.                                      *)
SuspendedKnown ==
  \A c \in Cores : pm[c].state = "SUSPEND" =>
    /\ sys.pc # "awake"
    /\ sys.pc = "suspend" => c \notin sys.todo
    /\ sys.pc = "resume" => c \in sys.todo

TypeInv == TypeOK /\ SuspendedKnown

USE DEF Clock, On, Life, States, Events, Owners, Upsets, Submission, Sleep, CorePcs

-----------------------------------------------------------------------------
(* The count wraps at both ends and stays within its range. *)
LEMMA CountRange ==
  /\ \A n \in 0 .. CountMod - 1 : Inc(n) \in 0 .. CountMod - 1 /\ Dec(n) \in 0 .. CountMod - 1
  /\ Poison \in 0 .. CountMod - 1
<1> USE PowerAssumption DEF PowerAssumption
<1>1. CountMod \in Nat /\ CountMod > 1 OBVIOUS
<1>2. \A n \in Nat : n % CountMod \in 0 .. CountMod - 1 BY <1>1
<1>3. ASSUME NEW n \in 0 .. CountMod - 1
      PROVE  n + 1 \in Nat /\ n + CountMod - 1 \in Nat
  BY <1>1
<1>4. Poison \in 0 .. CountMod - 1 BY <1>1 DEF Poison
<1>5. QED BY <1>2, <1>3, <1>4 DEF Inc, Dec

LEMMA HandledType ==
  ASSUME NEW p \in Powers, NEW e \in Events
  PROVE  /\ Handled(p, e) \in Powers
         /\ Handled(p, e).state = p.state
         /\ Handled(p, e).last_state = p.last_state
<1>1. Counted(p, e) \in 0 .. CountMod - 1 BY CountRange DEF Counted, Powers
<1>2. /\ Flagged(p, p.user_off, e = "USR_OFF", e = "USR_ON") \in BOOLEAN
      /\ Flagged(p, p.user_stop, e = "USR_STOP", e = "USR_START") \in BOOLEAN
  BY DEF Flagged, Powers
<1>3. QED BY ZenonT(40), <1>1, <1>2 DEF Handled, Powers

LEMMA TargetType ==
  ASSUME NEW p \in Powers, NEW e \in Events, NEW quiet \in BOOLEAN
  PROVE  /\ Target(p, e, quiet) \in Life \union {"NONE"}
         /\ Target(p, e, quiet) # "NONE" => p.state \in Life
BY DEF Target, Powers

LEMMA LeaveType ==
  ASSUME NEW p \in Powers, NEW to \in States
  PROVE  Leave(p, to) \in Powers /\ Leave(p, to).state = p.state
<1>1. (IF p.state = "RUN" THEN Dec(p.count) ELSE p.count) \in 0 .. CountMod - 1
  BY CountRange DEF Powers
<1>2. TurnsOff(p.state, to) \in BOOLEAN BY DEF TurnsOff
<1>3. (p.state \in Clock /\ to \notin Clock /\ (IF p.state = "RUN" THEN Dec(p.count) ELSE p.count) = 0)
        \in BOOLEAN
  OBVIOUS
<1>4. ASSUME NEW n \in 0 .. CountMod - 1, NEW timer \in BOOLEAN, NEW idle \in BOOLEAN,
             NEW suspended \in BOOLEAN
      PROVE  [p EXCEPT !.count = n, !.timer = timer, !.idle = idle,
                       !.clock_suspended = suspended] \in Powers
  BY DEF Powers
<1>5. p.timer \in BOOLEAN /\ p.idle \in BOOLEAN /\ p.clock_suspended \in BOOLEAN BY DEF Powers
<1>6. Leave(p, to) \in Powers BY <1>1, <1>2, <1>4, <1>5, Zenon DEF Leave
<1>7. Leave(p, to).state = p.state BY DEF Leave, Powers
<1>8. QED BY <1>6, <1>7

LEMMA EnterType ==
  ASSUME NEW p \in Powers, NEW to \in States, NEW ok \in BOOLEAN,
         to = "SUSPEND" => p.state \in Life
  PROVE  Enter(p, to, ok) \in Powers /\ Enter(p, to, ok).state = to
<1>1. p.count \in 0 .. CountMod - 1 /\ Poison \in 0 .. CountMod - 1 BY CountRange DEF Powers
<1>3. ASSUME NEW n \in 0 .. CountMod - 1, NEW last \in Life, NEW timer \in BOOLEAN,
             NEW suspended \in BOOLEAN
      PROVE  [p EXCEPT !.state = to, !.last_state = last, !.count = n, !.timer = timer,
                       !.clock_suspended = suspended] \in Powers
  BY DEF Powers
<1>4. /\ (IF to = "SUSPEND" THEN p.state ELSE p.last_state) \in Life
      /\ (p.timer \/ to = "IDLE") \in BOOLEAN
      /\ p.state \in States
  BY DEF Powers
<1>5. (/\ p.clock_suspended
       /\ ~(TurnsOn(p.state, to) /\ ok)
       /\ ~(p.state \notin Clock /\ to \in Clock)) \in BOOLEAN
  OBVIOUS
<1>6. \A n \in 0 .. CountMod - 1 : (IF to = "RUN" THEN Inc(n) ELSE n) \in 0 .. CountMod - 1
  BY CountRange
<1>7. (IF TurnsOn(p.state, to) /\ ~ok THEN Poison ELSE p.count) \in 0 .. CountMod - 1
  BY <1>1
<1>8. Enter(p, to, ok) \in Powers BY <1>3, <1>4, <1>5, <1>6, <1>7, Zenon DEF Enter
<1>9. Enter(p, to, ok).state = to BY DEF Enter, Powers
<1>10. QED BY <1>8, <1>9

(* The transition of one core: its new state, the other cores untouched. *)
LEMMA TransitType ==
  ASSUME TypeOK, NEW c \in Cores, NEW p \in Powers, NEW to \in States, NEW ok \in BOOLEAN,
         to = "SUSPEND" => p.state \in Life, Transit(c, p, to, ok)
  PROVE  /\ pm' \in [Cores -> Powers] /\ domain' \in Domains /\ left' \in Budgets
         /\ \A d \in Cores : pm'[d].state = IF d = c THEN to ELSE pm[d].state
<1>1. Leave(p, to) \in Powers /\ Leave(p, to).state = p.state BY LeaveType
<1>2. Enter(Leave(p, to), to, ok) \in Powers /\ Enter(Leave(p, to), to, ok).state = to
  BY <1>1, EnterType
<1>3. pm \in [Cores -> Powers] BY DEF TypeOK
<1>4. pm' = [pm EXCEPT ![c] = Enter(Leave(p, to), to, ok)] BY DEF Transit
<1>5. pm' \in [Cores -> Powers] BY <1>2, <1>3, <1>4
<1>6. \A d \in Cores : pm'[d].state = IF d = c THEN to ELSE pm[d].state
  BY <1>2, <1>3, <1>4
<1>7. domain' \in Domains
  <2>1. domain \in Domains BY DEF TypeOK
  <2>2. /\ [cnt |-> domain.cnt - 1, powered |-> domain.powered /\ domain.cnt # 1] \in Domains
        /\ [cnt |-> domain.cnt + 1, powered |-> ok] \in Domains
    BY <2>1 DEF Domains
  <2>3. QED BY <2>1, <2>2 DEF Transit, Domain
<1>8. left' \in Budgets
  <2>1. left \in Budgets BY DEF TypeOK
  <2>2. left.failures # 0 => [left EXCEPT !.failures = @ - 1] \in Budgets BY <2>1 DEF Budgets
  <2>3. QED BY <2>1, <2>2 DEF Transit
<1>9. QED BY <1>5, <1>6, <1>7, <1>8

-----------------------------------------------------------------------------
LEMMA InitInv == Init => TypeInv
<1> SUFFICES ASSUME Init PROVE TypeInv OBVIOUS
<1> USE PowerAssumption DEF PowerAssumption, Init
<1>1. pm \in [Cores -> Powers] BY DEF Powers
<1>2. /\ lock \in [Cores -> Owners]
      /\ event \in [Cores -> Events \union {"none"}]
      /\ status \in [Cores -> BOOLEAN]
      /\ signal \in [Cores -> BOOLEAN] /\ resume_signal \in [Cores -> BOOLEAN]
      /\ pm_thread \in [Cores -> {"sleep", "send"}]
  OBVIOUS
<1>3. core \in [Cores -> CoreThreads] BY DEF CoreThreads
<1>4. domain \in Domains
  <2>1. Cardinality(Cores) \in Nat BY FS_CardinalityType
  <2>2. QED BY <2>1 DEF Domains
<1>5. /\ queue \in [Cores -> Nat]
      /\ task \in [Cores -> {"none", "ready", "cancelled", "started"}]
      /\ jobs \in [Cores -> Nat] /\ irq \in [Cores -> BOOLEAN]
      /\ held \in [Cores -> SUBSET Owners]
      /\ past \in [Cores -> SUBSET Upsets]
  OBVIOUS
<1>6. clock_user \in ClockUsers
  <2>1. (CHOOSE c \in Cores : TRUE) \in Cores OBVIOUS
  <2>2. QED BY <2>1 DEF ClockUsers
<1>7. sys \in Suspensions BY DEF Suspensions
<1>8. left \in Budgets BY DEF Budgets
<1>9. SuspendedKnown BY DEF SuspendedKnown
<1>10. QED BY <1>1, <1>2, <1>3, <1>4, <1>5, <1>6, <1>7, <1>8, <1>9 DEF TypeInv, TypeOK

-----------------------------------------------------------------------------
(* An action that suspends no core and is not the system's. *)
LEMMA SuspensionKept ==
  ASSUME SuspendedKnown, sys' = sys,
         \A c \in Cores : pm'[c].state \in {pm[c].state} \union Life
  PROVE  SuspendedKnown'
BY DEF SuspendedKnown

LEMMA SendTypes ==
  ASSUME TypeOK, NEW c \in Cores, NEW owner \in Owners, NEW e \in Events, Send(c, owner, e)
  PROVE  /\ lock' \in [Cores -> Owners]
         /\ event' \in [Cores -> Events \union {"none"}]
         /\ status' \in [Cores -> BOOLEAN]
BY DEF Send, TypeOK

LEMMA CoreGoesTypes ==
  ASSUME TypeOK, NEW c \in Cores, NEW pc \in CorePcs, CoreGoes(c, pc)
  PROVE  core' \in [Cores -> CoreThreads]
BY DEF CoreGoes, TypeOK, CoreThreads

LEMMA ReturnTypes ==
  ASSUME TypeOK, NEW c \in Cores, Return(c)
  PROVE  /\ lock' \in [Cores -> Owners]
         /\ event' \in [Cores -> Events \union {"none"}]
BY DEF Return, TypeOK

(* What a round adds to the history of its core. *)
LEMMA UpsetParts ==
  ASSUME NEW c, NEW to
  PROVE  /\ Upset(c, to) \in SUBSET {"split", "busy"}
         /\ Splits(c) => "split" \in Upset(c, to)
         /\ Busy(c, to) => "busy" \in Upset(c, to)
BY DEF Upset

LEMMA RoundType ==
  ASSUME TypeInv, NEW c \in Cores, Round(c)
  PROVE  TypeInv'
<1> DEFINE p  == Handled(pm[c], event[c])
           to == Target(p, event[c], jobs[c] = 0)
<1>1. TypeOK /\ SuspendedKnown BY DEF TypeInv
<1>2. event[c] \in Events /\ pm[c] \in Powers /\ lock[c] \in Owners
  BY <1>1 DEF Round, TypeOK
<1>3. p \in Powers /\ p.state = pm[c].state BY <1>2, HandledType
<1>4. to \in Life \union {"NONE"} BY <1>2, <1>3, TargetType
<1>5. queue' \in [Cores -> Nat] /\ task' \in [Cores -> {"none", "ready", "cancelled", "started"}]
  BY <1>1 DEF Round, Clean, TypeOK
<1>6. held' \in [Cores -> SUBSET Owners]
  <2>1. ClockOwner(c) \in SUBSET Owners BY <1>2 DEF ClockOwner
  <2>2. held[c] \in SUBSET Owners BY <1>1 DEF TypeOK
  <2>3. QED BY <1>1, <2>1, <2>2 DEF Round, Hold, TypeOK
<1>7. CASE to = "NONE"
  <2>1. /\ pm' = [pm EXCEPT ![c] = p] /\ Return(c)
        /\ past' = [past EXCEPT ![c] = @ \union Upset(c, to)]
        /\ UNCHANGED <<domain, status, jobs, left, signal, resume_signal, threads, irq>>
    BY <1>7 DEF Round
  <2>2. pm' \in [Cores -> Powers] /\ \A d \in Cores : pm'[d].state = pm[d].state
    BY <1>1, <1>3, <2>1 DEF TypeOK
  <2>3. past' \in [Cores -> SUBSET Upsets] BY <1>1, <2>1, UpsetParts DEF TypeOK
  <2>4. SuspendedKnown' BY <1>1, <2>1, <2>2, SuspensionKept DEF threads
  <2>5. QED
    BY <1>1, <1>5, <1>6, <2>1, <2>2, <2>3, <2>4, ReturnTypes DEF TypeInv, TypeOK, threads
<1>8. CASE to # "NONE"
  <2>1. PICK ok \in BOOLEAN :
          /\ Transit(c, p, to, ok)
          /\ jobs' = Reset(c, p.state, to, ok)
          /\ status' = [status EXCEPT ![c] = ok]
          /\ IF ok THEN UNCHANGED <<lock, event>> ELSE Return(c)
          /\ past' = [Failed(ok) EXCEPT ![c] = @ \union Upset(c, to)]
          /\ UNCHANGED <<signal, resume_signal, threads, irq>>
    BY <1>8 DEF Round, PowerOnMay
  <2>2. /\ pm' \in [Cores -> Powers] /\ domain' \in Domains /\ left' \in Budgets
        /\ \A d \in Cores : pm'[d].state = IF d = c THEN to ELSE pm[d].state
    BY <1>1, <1>3, <1>4, <1>8, <2>1, TransitType
  <2>3. past' \in [Cores -> SUBSET Upsets] BY <1>1, <2>1, UpsetParts DEF TypeOK, Failed
  <2>4. jobs' \in [Cores -> Nat] /\ status' \in [Cores -> BOOLEAN]
    BY <1>1, <2>1 DEF TypeOK, Reset
  <2>5. lock' \in [Cores -> Owners] /\ event' \in [Cores -> Events \union {"none"}]
    BY <1>1, <2>1, ReturnTypes DEF TypeOK
  <2>6. SuspendedKnown' BY <1>1, <1>4, <1>8, <2>1, <2>2, SuspensionKept DEF threads
  <2>7. QED
    BY <1>1, <1>5, <1>6, <2>1, <2>2, <2>3, <2>4, <2>5, <2>6 DEF TypeInv, TypeOK, threads
<1>9. QED BY <1>7, <1>8

(* The flags of a core that are not its state. *)
LEMMA PmTypes ==
  ASSUME TypeOK, NEW c \in Cores, NEW b \in BOOLEAN
  PROVE  /\ [pm EXCEPT ![c].timer = b] \in [Cores -> Powers]
         /\ [pm EXCEPT ![c].idle = b] \in [Cores -> Powers]
         /\ \A d \in Cores : /\ [pm EXCEPT ![c].timer = b][d].state = pm[d].state
                            /\ [pm EXCEPT ![c].idle = b][d].state = pm[d].state
<1>1. pm \in [Cores -> Powers] BY DEF TypeOK
<1>2. [pm[c] EXCEPT !.timer = b] \in Powers /\ [pm[c] EXCEPT !.idle = b] \in Powers
  BY <1>1 DEF Powers
<1>3. /\ [pm[c] EXCEPT !.timer = b].state = pm[c].state
      /\ [pm[c] EXCEPT !.idle = b].state = pm[c].state
  BY <1>1 DEF Powers
<1>4. QED BY <1>1, <1>2, <1>3

LEMMA UpsetTypes ==
  ASSUME TypeOK, NEW c \in Cores, NEW S \in SUBSET Upsets
  PROVE  [past EXCEPT ![c] = @ \union S] \in [Cores -> SUBSET Upsets]
<1>1. past \in [Cores -> SUBSET Upsets] BY DEF TypeOK
<1>2. past[c] \union S \in SUBSET Upsets BY <1>1
<1>3. QED BY <1>1, <1>2, Zenon

LEMMA TimerFiresType ==
  ASSUME TypeInv, NEW c \in Cores, TimerFires(c)
  PROVE  TypeInv'
<1>1. TypeOK /\ SuspendedKnown BY DEF TypeInv
<1>2. pm' \in [Cores -> Powers] /\ \A d \in Cores : pm'[d].state = pm[d].state
  BY <1>1, PmTypes DEF TimerFires
<1>3. signal' \in [Cores -> BOOLEAN] BY <1>1 DEF TimerFires, TypeOK
<1>4. past' \in [Cores -> SUBSET Upsets]
  <2>1. past \in [Cores -> SUBSET Upsets] BY <1>1 DEF TypeOK
  <2>2. [past EXCEPT ![c] = @ \union {"bypass"}] \in [Cores -> SUBSET Upsets]
    BY <1>1, UpsetTypes
  <2>3. QED BY <2>1, <2>2 DEF TimerFires
<1>5. SuspendedKnown' BY <1>1, <1>2, SuspensionKept DEF TimerFires, threads
<1>6. QED BY <1>1, <1>2, <1>3, <1>4, <1>5 DEF TimerFires, TypeInv, TypeOK, threads, work

LEMMA PmNextType ==
  ASSUME TypeInv, NEW c \in Cores, PmNext(c)
  PROVE  TypeInv'
<1>1. TypeOK /\ SuspendedKnown BY DEF TypeInv
<1>2. SuspendedKnown' BY <1>1 DEF PmNext, PmWake, PmSend, SuspendedKnown
<1>3. CASE PmWake(c) BY <1>1, <1>2, <1>3 DEF PmWake, TypeInv, TypeOK, work, history
<1>4. CASE PmSend(c)
  <2>1. /\ lock' \in [Cores -> Owners]
        /\ event' \in [Cores -> Events \union {"none"}]
        /\ status' \in [Cores -> BOOLEAN]
    BY <1>1, <1>4, SendTypes DEF PmSend
  <2>2. QED BY <1>1, <1>2, <1>4, <2>1 DEF PmSend, TypeInv, TypeOK, work, history
<1>5. QED BY <1>3, <1>4 DEF PmNext

LEMMA DispatchType ==
  ASSUME TypeInv, NEW c \in Cores, Dispatch(c)
  PROVE  TypeInv'
<1>1. TypeOK /\ SuspendedKnown BY DEF TypeInv
<1>2. SuspendedKnown' BY <1>1 DEF Dispatch, SuspendedKnown, threads
<1>3. queue[c] \in Nat /\ queue[c] > 0 BY <1>1 DEF Dispatch, TypeOK
<1>4. QED BY <1>1, <1>2, <1>3 DEF Dispatch, TypeInv, TypeOK, threads, history

LEMMA HardwareDoneType ==
  ASSUME TypeInv, NEW c \in Cores, HardwareDone(c)
  PROVE  TypeInv'
BY DEF HardwareDone, TypeInv, TypeOK, SuspendedKnown, threads, history

LEMMA SubmitType ==
  ASSUME TypeInv, NEW c \in Cores, Submit(c)
  PROVE  TypeInv'
<1>1. TypeOK /\ SuspendedKnown BY DEF TypeInv
<1>2. SuspendedKnown' BY <1>1 DEF Submit, SuspendedKnown, threads
<1>3. left' \in Budgets BY <1>1 DEF Submit, TypeOK, Budgets
<1>4. queue' \in [Cores -> Nat] BY <1>1 DEF Submit, TypeOK
<1>5. QED BY <1>1, <1>2, <1>3, <1>4 DEF Submit, TypeInv, TypeOK, threads, history

LEMMA CancelType ==
  ASSUME TypeInv, NEW c \in Cores, Cancel(c)
  PROVE  TypeInv'
<1>1. TypeOK /\ SuspendedKnown BY DEF TypeInv
<1>2. SuspendedKnown' BY <1>1 DEF Cancel, SuspendedKnown, threads
<1>3. left' \in Budgets BY <1>1 DEF Cancel, TypeOK, Budgets
<1>4. /\ task' \in [Cores -> {"none", "ready", "cancelled", "started"}]
      /\ irq' \in [Cores -> BOOLEAN]
  BY <1>1 DEF Cancel, TypeOK
<1>5. QED BY <1>1, <1>2, <1>3, <1>4 DEF Cancel, TypeInv, TypeOK, threads, history

LEMMA UserSendType ==
  ASSUME TypeInv, NEW c \in Cores, NEW e \in UserEvents, UserSend(c, e)
  PROVE  TypeInv'
<1>1. TypeOK /\ SuspendedKnown BY DEF TypeInv
<1>2. SuspendedKnown' BY <1>1 DEF UserSend, SuspendedKnown, threads
<1>3. left' \in Budgets BY <1>1 DEF UserSend, TypeOK, Budgets
<1>4. e \in Events BY PowerAssumption DEF PowerAssumption
<1>5. /\ lock' \in [Cores -> Owners]
      /\ event' \in [Cores -> Events \union {"none"}]
      /\ status' \in [Cores -> BOOLEAN]
  BY <1>1, <1>4, SendTypes DEF UserSend
<1>6. QED BY <1>1, <1>2, <1>3, <1>5 DEF UserSend, TypeInv, TypeOK, threads, work, history

LEMMA ClockOnType ==
  ASSUME TypeInv, NEW c \in Cores, ClockOn(c)
  PROVE  TypeInv'
<1>1. TypeOK /\ SuspendedKnown BY DEF TypeInv
<1>2. SuspendedKnown' BY <1>1 DEF ClockOn, ClockKeeps, SuspendedKnown
<1>3. left' \in Budgets BY <1>1 DEF ClockOn, TypeOK, Budgets
<1>4. /\ lock' \in [Cores -> Owners]
      /\ event' \in [Cores -> Events \union {"none"}]
      /\ status' \in [Cores -> BOOLEAN]
  BY <1>1, SendTypes DEF ClockOn
<1>5. clock_user' \in ClockUsers BY DEF ClockOn, ClockUsers
<1>6. QED
  BY <1>1, <1>2, <1>3, <1>4, <1>5 DEF ClockOn, ClockKeeps, TypeInv, TypeOK, work, history

LEMMA ClockNextType ==
  ASSUME TypeInv, ClockNext
  PROVE  TypeInv'
<1>1. TypeOK /\ SuspendedKnown BY DEF TypeInv
<1>2. SuspendedKnown'
  BY <1>1 DEF ClockNext, ClockQuery, ClockRead, ClockOff, ClockKeeps, SuspendedKnown
<1>3. clock_user \in ClockUsers BY <1>1 DEF TypeOK
<1>4. \A pc \in {"out", "read", "off"} : [clock_user EXCEPT !.pc = pc] \in ClockUsers
  BY <1>3 DEF ClockUsers
<1>5. CASE ClockQuery
  <2>1. clock_user' \in ClockUsers BY <1>4, <1>5 DEF ClockQuery, ClockGoes
  <2>2. QED BY <1>1, <1>2, <1>5, <2>1 DEF ClockQuery, ClockKeeps, TypeInv, TypeOK, work, history
<1>6. CASE ClockRead
  <2>1. clock_user' \in ClockUsers BY <1>4, <1>6 DEF ClockRead, ClockGoes
  <2>2. QED BY <1>1, <1>2, <1>6, <2>1 DEF ClockRead, ClockKeeps, TypeInv, TypeOK, work, history
<1>7. CASE ClockOff
  <2>1. clock_user' \in ClockUsers BY <1>4, <1>7 DEF ClockOff, ClockGoes
  <2>2. clock_user.core \in Cores BY <1>3 DEF ClockUsers
  <2>3. /\ lock' \in [Cores -> Owners]
        /\ event' \in [Cores -> Events \union {"none"}]
        /\ status' \in [Cores -> BOOLEAN]
    BY <1>1, <1>7, <2>2, SendTypes DEF ClockOff
  <2>4. QED
    BY <1>1, <1>2, <1>7, <2>1, <2>3 DEF ClockOff, ClockKeeps, TypeInv, TypeOK, work, history
<1>8. QED BY <1>5, <1>6, <1>7 DEF ClockNext

-----------------------------------------------------------------------------
(* The system takes cores from todo one by one. *)
LEMMA SysNextType ==
  ASSUME TypeInv, SysNext
  PROVE  TypeInv'
<1>1. TypeOK /\ SuspendedKnown BY DEF TypeInv
<1>2. sys \in Suspensions /\ pm \in [Cores -> Powers] BY <1>1 DEF TypeOK
<1>3. ASSUME ResumeBegin PROVE TypeInv'
  <2>1. sys' \in Suspensions BY <1>2, <1>3 DEF ResumeBegin, Suspensions
  <2>2. lock' \in [Cores -> Owners] BY <1>1, <1>3 DEF ResumeBegin, SysLocks, TypeOK
  <2>3. SuspendedKnown' BY <1>1, <1>2, <1>3 DEF ResumeBegin, SuspendedKnown, Suspensions
  <2>4. QED BY <1>1, <1>3, <2>1, <2>2, <2>3 DEF ResumeBegin, SysKeeps, TypeInv, TypeOK
<1>4. ASSUME NEW c \in Cores, SuspendCore(c) PROVE TypeInv'
  <2> DEFINE todo == sys.todo \ {c}
  <2>1. /\ sys.pc = "suspend" /\ c \in sys.todo
        /\ Transit(c, pm[c], "SUSPEND", TRUE) /\ SysUnlocks(todo)
        /\ sys' = [sys EXCEPT !.todo = todo, !.pc = IF todo = {} THEN "asleep" ELSE @]
    BY <1>4 DEF SuspendCore, IsNext
  <2>2. pm[c].state \in Life BY <1>1, <1>2, <2>1 DEF SuspendedKnown, Powers
  <2>3. /\ pm' \in [Cores -> Powers] /\ domain' \in Domains /\ left' \in Budgets
        /\ \A d \in Cores : pm'[d].state = IF d = c THEN "SUSPEND" ELSE pm[d].state
    BY <1>1, <1>2, <2>1, <2>2, TransitType
  <2>4. sys' \in Suspensions /\ sys'.todo = todo /\ sys'.pc \in {"suspend", "asleep"}
    BY <1>2, <2>1 DEF Suspensions
  <2>5. lock' \in [Cores -> Owners] BY <1>1, <2>1 DEF SysUnlocks, TypeOK
  <2>6. SuspendedKnown' BY <1>1, <2>1, <2>3, <2>4 DEF SuspendedKnown
  <2>7. QED BY <1>1, <1>4, <2>3, <2>4, <2>5, <2>6 DEF SuspendCore, SysKeeps, TypeInv, TypeOK
<1>5. ASSUME NEW c \in Cores, ResumeCore(c) PROVE TypeInv'
  <2> DEFINE todo == sys.todo \ {c}
  <2>1. /\ sys.pc = "resume" /\ c \in sys.todo
        /\ SysUnlocks(todo)
        /\ irq' = IF pm[c].last_state = "RUN" THEN [irq EXCEPT ![c] = TRUE] ELSE irq
        /\ resume_signal' = [resume_signal EXCEPT ![c] = TRUE]
        /\ sys' = [sys EXCEPT !.todo = todo, !.pc = IF todo = {} THEN "awake" ELSE @]
        /\ UNCHANGED SysKeeps
    BY <1>5 DEF ResumeCore, IsNext
  <2>2. PICK ok \in BOOLEAN :
          /\ Transit(c, pm[c], pm[c].last_state, ok)
          /\ jobs' = Reset(c, pm[c].state, pm[c].last_state, ok)
          /\ past' = Failed(ok)
    BY <1>5 DEF ResumeCore, PowerOnMay
  <2>3. pm[c].last_state \in Life BY <1>2 DEF Powers
  <2>4. /\ pm' \in [Cores -> Powers] /\ domain' \in Domains /\ left' \in Budgets
        /\ \A d \in Cores : pm'[d].state = IF d = c THEN pm[c].last_state ELSE pm[d].state
    BY <1>1, <1>2, <2>2, <2>3, TransitType
  <2>5. /\ sys' \in Suspensions /\ sys'.todo = todo
        /\ sys'.pc = IF todo = {} THEN "awake" ELSE "resume"
    BY <1>2, <2>1 DEF Suspensions
  <2>6. lock' \in [Cores -> Owners] BY <1>1, <2>1 DEF SysUnlocks, TypeOK
  <2>7. jobs' \in [Cores -> Nat] /\ past' \in [Cores -> SUBSET Upsets]
    BY <1>1, <2>2 DEF Reset, Failed, TypeOK
  <2>8. irq' \in [Cores -> BOOLEAN] /\ resume_signal' \in [Cores -> BOOLEAN]
    BY <1>1, <2>1 DEF TypeOK
  <2>9. SuspendedKnown' BY <1>1, <2>1, <2>3, <2>4, <2>5 DEF SuspendedKnown
  <2>10. QED
    BY <1>1, <2>1, <2>4, <2>5, <2>6, <2>7, <2>8, <2>9 DEF SysKeeps, TypeInv, TypeOK
<1>6. QED BY <1>3, <1>4, <1>5 DEF SysNext

LEMMA SuspendBeginType ==
  ASSUME TypeInv, NEW who \in SuspendBy, SuspendBegin(who)
  PROVE  TypeInv'
<1>1. TypeOK /\ SuspendedKnown BY DEF TypeInv
<1>2. sys' \in Suspensions BY PowerAssumption DEF PowerAssumption, SuspendBegin, Suspensions
<1>3. lock' \in [Cores -> Owners] BY <1>1 DEF SuspendBegin, SysLocks, TypeOK
<1>4. left' \in Budgets BY <1>1 DEF SuspendBegin, TypeOK, Budgets
<1>5. jobs' \in [Cores -> Nat] /\ past' \in [Cores -> SUBSET Upsets]
  BY <1>1 DEF SuspendBegin, TypeOK
<1>6. SuspendedKnown' BY <1>1 DEF SuspendBegin, SuspendedKnown
<1>7. QED
  BY <1>1, <1>2, <1>3, <1>4, <1>5, <1>6 DEF SuspendBegin, SysKeeps, TypeInv, TypeOK

-----------------------------------------------------------------------------
(* The thread of a core. *)

LEMMA CoreTakeType ==
  ASSUME TypeInv, NEW c \in Cores, CoreTake(c)
  PROVE  TypeInv'
<1>1. TypeOK /\ SuspendedKnown BY DEF TypeInv
<1>2. SuspendedKnown' BY <1>1 DEF CoreTake, CoreKeeps, SuspendedKnown
<1>3. core' \in [Cores -> CoreThreads]
  <2>1. core \in [Cores -> CoreThreads] BY <1>1 DEF TypeOK
  <2>2. /\ [pc |-> "check", slept |-> FALSE] \in CoreThreads
        /\ [pc |-> "end", slept |-> FALSE] \in CoreThreads
    BY DEF CoreThreads
  <2>3. QED BY <2>1, <2>2 DEF CoreTake
<1>4. /\ lock' \in [Cores -> Owners]
      /\ task' \in [Cores -> {"none", "ready", "cancelled", "started"}]
  BY <1>1 DEF CoreTake, TypeOK
<1>5. QED BY <1>1, <1>2, <1>3, <1>4 DEF CoreTake, CoreKeeps, TypeInv, TypeOK

LEMMA CoreCheckType ==
  ASSUME TypeInv, NEW c \in Cores, CoreCheck(c)
  PROVE  TypeInv'
<1>1. TypeOK /\ SuspendedKnown BY DEF TypeInv
<1>2. SuspendedKnown' BY <1>1 DEF CoreCheck, CoreKeeps, SuspendedKnown
<1>3. core' \in [Cores -> CoreThreads]
  <2>1. core \in [Cores -> CoreThreads] BY <1>1 DEF TypeOK
  <2>2. [pc |-> "reset_resume", slept |-> TRUE] \in CoreThreads BY DEF CoreThreads
  <2>3. CoreGoes(c, "powered") => core' \in [Cores -> CoreThreads] BY <1>1, CoreGoesTypes
  <2>4. QED BY <2>1, <2>2, <2>3 DEF CoreCheck
<1>4. /\ lock' \in [Cores -> Owners]
      /\ event' \in [Cores -> Events \union {"none"}]
      /\ status' \in [Cores -> BOOLEAN]
  <2>1. Send(c, "core", "ON") =>
          /\ lock' \in [Cores -> Owners]
          /\ event' \in [Cores -> Events \union {"none"}]
          /\ status' \in [Cores -> BOOLEAN]
    BY <1>1, SendTypes
  <2>2. QED BY <1>1, <2>1 DEF CoreCheck, TypeOK
<1>5. QED BY <1>1, <1>2, <1>3, <1>4 DEF CoreCheck, CoreKeeps, TypeInv, TypeOK

LEMMA CoreResetType ==
  ASSUME TypeInv, NEW c \in Cores, CoreReset(c)
  PROVE  TypeInv'
<1>1. TypeOK /\ SuspendedKnown BY DEF TypeInv
<1>2. SuspendedKnown' BY <1>1 DEF CoreReset, CoreKeeps, SuspendedKnown
<1>3. core' \in [Cores -> CoreThreads] BY <1>1, CoreGoesTypes DEF CoreReset
<1>4. resume_signal' \in [Cores -> BOOLEAN] BY <1>1 DEF CoreReset, TypeOK
<1>5. QED BY <1>1, <1>2, <1>3, <1>4 DEF CoreReset, CoreKeeps, TypeInv, TypeOK

LEMMA CoreResumedType ==
  ASSUME TypeInv, NEW c \in Cores, CoreResumed(c)
  PROVE  TypeInv'
<1>1. TypeOK /\ SuspendedKnown BY DEF TypeInv
<1>2. SuspendedKnown' BY <1>1 DEF CoreResumed, CoreKeeps, SuspendedKnown
<1>3. core' \in [Cores -> CoreThreads] BY <1>1, CoreGoesTypes DEF CoreResumed
<1>4. QED BY <1>1, <1>2, <1>3 DEF CoreResumed, CoreKeeps, TypeInv, TypeOK

LEMMA CoreRelockType ==
  ASSUME TypeInv, NEW c \in Cores, CoreRelock(c)
  PROVE  TypeInv'
<1>1. TypeOK /\ SuspendedKnown BY DEF TypeInv
<1>2. SuspendedKnown' BY <1>1 DEF CoreRelock, CoreKeeps, SuspendedKnown
<1>3. core' \in [Cores -> CoreThreads] BY <1>1, CoreGoesTypes DEF CoreRelock
<1>4. /\ lock' \in [Cores -> Owners]
      /\ event' \in [Cores -> Events \union {"none"}]
      /\ status' \in [Cores -> BOOLEAN]
  BY <1>1, SendTypes DEF CoreRelock
<1>5. QED BY <1>1, <1>2, <1>3, <1>4 DEF CoreRelock, CoreKeeps, TypeInv, TypeOK

LEMMA CoreFailsTypes ==
  ASSUME TypeOK, NEW c \in Cores, CoreFails(c)
  PROVE  /\ task' \in [Cores -> {"none", "ready", "cancelled", "started"}]
         /\ lock' \in [Cores -> Owners]
         /\ core' \in [Cores -> CoreThreads]
         /\ event' = event /\ status' = status
<1>1. core' \in [Cores -> CoreThreads] BY CoreGoesTypes DEF CoreFails
<1>2. QED BY <1>1 DEF CoreFails, TypeOK

LEMMA CoreSubmitType ==
  ASSUME TypeInv, NEW c \in Cores, CoreSubmit(c)
  PROVE  TypeInv'
<1>1. TypeOK /\ SuspendedKnown BY DEF TypeInv
<1>2. SuspendedKnown' BY <1>1 DEF CoreSubmit, CoreKeeps, SuspendedKnown
<1>3. CASE CoreFails(c)
  <2>1. UNCHANGED <<CoreKeeps, resume_signal, jobs, irq, left, past>> BY DEF CoreSubmit
  <2>2. QED BY <1>1, <1>2, <1>3, <2>1, CoreFailsTypes DEF CoreKeeps, TypeInv, TypeOK
<1>4. CASE Send(c, "core", "RUN") /\ CoreGoes(c, "submitted") /\ task' = task
  <2>1. UNCHANGED <<CoreKeeps, resume_signal, jobs, irq, left, past>> BY DEF CoreSubmit
  <2>2. core' \in [Cores -> CoreThreads] BY <1>1, <1>4, CoreGoesTypes
  <2>3. /\ lock' \in [Cores -> Owners]
        /\ event' \in [Cores -> Events \union {"none"}]
        /\ status' \in [Cores -> BOOLEAN]
    BY <1>1, <1>4, SendTypes
  <2>4. QED BY <1>1, <1>2, <1>4, <2>1, <2>2, <2>3 DEF CoreKeeps, TypeInv, TypeOK
<1>5. QED BY <1>3, <1>4 DEF CoreSubmit

LEMMA CoreSubmittedType ==
  ASSUME TypeInv, NEW c \in Cores, CoreSubmitted(c)
  PROVE  TypeInv'
<1>1. TypeOK /\ SuspendedKnown BY DEF TypeInv
<1>2. UNCHANGED <<domain, signal, resume_signal, pm_thread, queue, jobs, irq, clock_user, sys,
                  left, history>>
  BY DEF CoreSubmitted
<1>3. CASE CoreFails(c) /\ pm' = pm
  <2>1. SuspendedKnown' BY <1>1, <1>2, <1>3 DEF SuspendedKnown
  <2>2. QED BY <1>1, <1>2, <1>3, <2>1, CoreFailsTypes DEF TypeInv, TypeOK, history
<1>4. CASE /\ pm' = [pm EXCEPT ![c].idle = FALSE]
           /\ CoreGoes(c, "trigger")
           /\ UNCHANGED <<lock, event, status, task>>
  <2>1. pm' \in [Cores -> Powers] /\ \A d \in Cores : pm'[d].state = pm[d].state
    BY <1>1, <1>4, PmTypes
  <2>2. core' \in [Cores -> CoreThreads] BY <1>1, <1>4, CoreGoesTypes
  <2>3. SuspendedKnown' BY <1>1, <1>2, <2>1, SuspensionKept
  <2>4. QED BY <1>1, <1>2, <1>4, <2>1, <2>2, <2>3 DEF TypeInv, TypeOK, history
<1>5. QED BY <1>3, <1>4 DEF CoreSubmitted

LEMMA CoreTriggerType ==
  ASSUME TypeInv, NEW c \in Cores, CoreTrigger(c)
  PROVE  TypeInv'
<1>1. TypeOK /\ SuspendedKnown BY DEF TypeInv
<1>2. SuspendedKnown' BY <1>1 DEF CoreTrigger, CoreKeeps, SuspendedKnown
<1>3. core' \in [Cores -> CoreThreads] BY <1>1, CoreGoesTypes DEF CoreTrigger
<1>4. /\ jobs' \in [Cores -> Nat] /\ lock' \in [Cores -> Owners]
      /\ task' \in [Cores -> {"none", "ready", "cancelled", "started"}]
  BY <1>1 DEF CoreTrigger, TypeOK
<1>5. QED BY <1>1, <1>2, <1>3, <1>4 DEF CoreTrigger, CoreKeeps, TypeInv, TypeOK

LEMMA CoreWaitType ==
  ASSUME TypeInv, NEW c \in Cores, CoreWait(c)
  PROVE  TypeInv'
<1>1. TypeOK /\ SuspendedKnown BY DEF TypeInv
<1>2. SuspendedKnown' BY <1>1 DEF CoreWait, CoreKeeps, SuspendedKnown
<1>3. core' \in [Cores -> CoreThreads] BY <1>1, CoreGoesTypes DEF CoreWait
<1>4. QED BY <1>1, <1>2, <1>3 DEF CoreWait, CoreKeeps, TypeInv, TypeOK

LEMMA CoreIrqType ==
  ASSUME TypeInv, NEW c \in Cores, CoreIrq(c)
  PROVE  TypeInv'
<1>1. TypeOK /\ SuspendedKnown BY DEF TypeInv
<1>2. SuspendedKnown' BY <1>1 DEF CoreIrq, CoreKeeps, SuspendedKnown
<1>3. core' \in [Cores -> CoreThreads] BY <1>1, CoreGoesTypes DEF CoreIrq
<1>4. irq' \in [Cores -> BOOLEAN] BY <1>1 DEF CoreIrq, TypeOK
<1>5. QED BY <1>1, <1>2, <1>3, <1>4 DEF CoreIrq, CoreKeeps, TypeInv, TypeOK

LEMMA CoreTimeOutType ==
  ASSUME TypeInv, NEW c \in Cores, CoreTimeOut(c)
  PROVE  TypeInv'
<1>1. TypeOK /\ SuspendedKnown BY DEF TypeInv
<1>2. SuspendedKnown' BY <1>1 DEF CoreTimeOut, CoreKeeps, SuspendedKnown
<1>3. core' \in [Cores -> CoreThreads] BY <1>1, CoreGoesTypes DEF CoreTimeOut
<1>4. past' \in [Cores -> SUBSET Upsets] BY <1>1, UpsetTypes DEF CoreTimeOut
<1>5. QED BY <1>1, <1>2, <1>3, <1>4 DEF CoreTimeOut, CoreKeeps, TypeInv, TypeOK

LEMMA CoreIdleType ==
  ASSUME TypeInv, NEW c \in Cores, CoreIdle(c)
  PROVE  TypeInv'
<1>1. TypeOK /\ SuspendedKnown BY DEF TypeInv
<1>2. pm' \in [Cores -> Powers] /\ \A d \in Cores : pm'[d].state = pm[d].state
  BY <1>1, PmTypes DEF CoreIdle
<1>3. core' \in [Cores -> CoreThreads] BY <1>1, CoreGoesTypes DEF CoreIdle
<1>4. SuspendedKnown' BY <1>1, <1>2, SuspensionKept DEF CoreIdle
<1>5. QED BY <1>1, <1>2, <1>3, <1>4 DEF CoreIdle, TypeInv, TypeOK, work, history

LEMMA CoreSendType ==
  ASSUME TypeInv, NEW c \in Cores, CoreSend(c)
  PROVE  TypeInv'
<1>1. TypeOK /\ SuspendedKnown BY DEF TypeInv
<1>2. SuspendedKnown' BY <1>1 DEF CoreSend, CoreKeeps, SuspendedKnown
<1>3. core' \in [Cores -> CoreThreads] BY <1>1, CoreGoesTypes DEF CoreSend
<1>4. /\ lock' \in [Cores -> Owners]
      /\ event' \in [Cores -> Events \union {"none"}]
      /\ status' \in [Cores -> BOOLEAN]
  BY <1>1, SendTypes DEF CoreSend
<1>5. QED BY <1>1, <1>2, <1>3, <1>4 DEF CoreSend, CoreKeeps, TypeInv, TypeOK

LEMMA CoreUserOffType ==
  ASSUME TypeInv, NEW c \in Cores, CoreUserOff(c)
  PROVE  TypeInv'
<1>1. TypeOK /\ SuspendedKnown BY DEF TypeInv
<1>2. SuspendedKnown' BY <1>1 DEF CoreUserOff, CoreKeeps, SuspendedKnown
<1>3. core' \in [Cores -> CoreThreads] BY <1>1, CoreGoesTypes DEF CoreUserOff
<1>4. /\ lock' \in [Cores -> Owners]
      /\ event' \in [Cores -> Events \union {"none"}]
      /\ status' \in [Cores -> BOOLEAN]
  <2>1. CASE Send(c, "core", "USR_OFF") BY <1>1, <2>1, SendTypes
  <2>2. CASE UNCHANGED <<lock, event, status>> BY <1>1, <2>2 DEF TypeOK
  <2>3. QED BY <2>1, <2>2 DEF CoreUserOff
<1>5. QED BY <1>1, <1>2, <1>3, <1>4 DEF CoreUserOff, CoreKeeps, TypeInv, TypeOK

LEMMA CoreEndType ==
  ASSUME TypeInv, NEW c \in Cores, CoreEnd(c)
  PROVE  TypeInv'
<1>1. TypeOK /\ SuspendedKnown BY DEF TypeInv
<1>2. SuspendedKnown' BY <1>1 DEF CoreEnd, CoreKeeps, SuspendedKnown
<1>3. core' \in [Cores -> CoreThreads] BY <1>1, CoreGoesTypes DEF CoreEnd
<1>4. /\ task' \in [Cores -> {"none", "ready", "cancelled", "started"}]
      /\ irq' \in [Cores -> BOOLEAN]
  BY <1>1 DEF CoreEnd, TypeOK
<1>5. QED BY <1>1, <1>2, <1>3, <1>4 DEF CoreEnd, CoreKeeps, TypeInv, TypeOK

LEMMA CoreNextType ==
  ASSUME TypeInv, NEW c \in Cores, CoreNext(c)
  PROVE  TypeInv'
BY CoreTakeType, CoreCheckType, CoreResetType, CoreResumedType, CoreRelockType, CoreSubmitType,
   CoreSubmittedType, CoreTriggerType, CoreWaitType, CoreIrqType, CoreTimeOutType, CoreIdleType,
   CoreSendType, CoreUserOffType, CoreEndType, Zenon
   DEF CoreNext

LEMMA NextTypeInv == TypeInv /\ [Next]_vars => TypeInv'
<1> SUFFICES ASSUME TypeInv, [Next]_vars PROVE TypeInv' OBVIOUS
<1>1. CASE UNCHANGED vars
  BY <1>1 DEF vars, TypeInv, TypeOK, SuspendedKnown
<1>2. CASE Next
  <2>1. ASSUME NEW c \in Cores,
               \/ Round(c) \/ TimerFires(c) \/ PmNext(c) \/ CoreNext(c) \/ HardwareDone(c)
               \/ Dispatch(c) \/ Submit(c) \/ Cancel(c) \/ ClockOn(c)
               \/ \E e \in UserEvents : UserSend(c, e)
        PROVE  TypeInv'
    BY <2>1, RoundType, TimerFiresType, PmNextType, CoreNextType, HardwareDoneType,
       DispatchType, SubmitType, CancelType, ClockOnType, UserSendType, Zenon
  <2>2. QED
    BY <1>2, <2>1, ClockNextType, SuspendBeginType, SysNextType, Zenon DEF Next
<1>3. QED BY <1>1, <1>2

(* Every variable of the power management keeps its type: the count of the *)
(* clock wraps within its range whatever events come, and a core always    *)
(* has a state to come back to from a suspension.                          *)
THEOREM TypeCorrect == Spec => []TypeOK
<1>1. Spec => []TypeInv BY InitInv, NextTypeInv, PTL DEF Spec
<1>2. TypeInv => TypeOK BY DEF TypeInv
<1>3. QED BY <1>1, <1>2, PTL

-----------------------------------------------------------------------------
(* The shared domain: a transition of one core moves the count by one      *)
(* exactly when the core enters or leaves a state of ON.                   *)
OnCores == {c \in Cores : pm[c].state \in On}

LEMMA TransitDomain ==
  ASSUME TypeInv, DomainCounted, NEW c \in Cores, NEW p \in Powers, p.state = pm[c].state,
         NEW to \in States, NEW ok \in BOOLEAN, to = "SUSPEND" => p.state \in Life,
         Transit(c, p, to, ok),
         \A d \in Cores : past[d] \subseteq past'[d],
         TurnsOn(p.state, to) /\ ~ok => \E d \in Cores : "failure" \in past'[d]
  PROVE  DomainCounted'
<1> DEFINE new == {d \in Cores : pm'[d].state \in On}
<1>1. TypeOK /\ domain \in Domains BY DEF TypeInv, TypeOK
<1>2. \A d \in Cores : pm'[d].state = IF d = c THEN to ELSE pm[d].state
  BY <1>1, TransitType
<1>3. IsFiniteSet(OnCores) /\ domain.cnt = Cardinality(OnCores) /\ domain.cnt \in Nat
  <2>1. IsFiniteSet(Cores) /\ OnCores \subseteq Cores
    BY PowerAssumption DEF PowerAssumption, OnCores
  <2>2. IsFiniteSet(OnCores) BY <2>1, FS_Subset
  <2>3. Cardinality(OnCores) \in Nat BY <2>2, FS_CardinalityType
  <2>4. QED BY <2>2, <2>3 DEF DomainCounted, OnCores
<1>4. c \in OnCores <=> p.state \in On BY DEF OnCores
<1>5. domain.powered \in BOOLEAN BY <1>1 DEF Domains
<1>6. domain' = Domain(p.state, to, ok) BY DEF Transit
<1>7. (\A d \in Cores : Never(d, {"failure"}))' => \A d \in Cores : Never(d, {"failure"})
  BY DEF Never
<1>8. CASE TurnsOff(p.state, to)
  <2>1. new = OnCores \ {c} /\ c \in OnCores BY <1>2, <1>4, <1>8 DEF TurnsOff, OnCores
  <2>2. Cardinality(new) = domain.cnt - 1 BY <1>3, <2>1, FS_RemoveElement
  <2>3. Cardinality(new) \in Nat
    <3>1. IsFiniteSet(new) BY <1>3, <2>1, FS_RemoveElement
    <3>2. QED BY <3>1, FS_CardinalityType
  <2>4. domain'.cnt = domain.cnt - 1 /\ domain'.powered = (domain.powered /\ domain.cnt # 1)
    BY <1>6, <1>8 DEF Domain
  <2>5. domain.cnt > 0 BY <1>3, <2>2, <2>3
  <2>6. (\A d \in Cores : Never(d, {"failure"})) => domain.powered
    BY <2>5 DEF DomainCounted
  <2>7. domain'.cnt > 0 <=> domain.cnt # 1 BY <1>3, <2>4, <2>5
  <2>8. QED BY <1>7, <2>2, <2>4, <2>6, <2>7, Zenon DEF DomainCounted
<1>9. CASE ~TurnsOff(p.state, to) /\ TurnsOn(p.state, to)
  <2>1. new = OnCores \union {c} /\ c \notin OnCores BY <1>2, <1>4, <1>9 DEF TurnsOn, OnCores
  <2>2. Cardinality(new) = domain.cnt + 1
    <3>1. Cardinality(OnCores \union {c}) = Cardinality(OnCores) + 1
      BY <1>3, <2>1, FS_AddElement, Zenon
    <3>2. QED BY <1>3, <2>1, <3>1
  <2>3. domain'.cnt = domain.cnt + 1 /\ domain'.powered = ok BY <1>6, <1>9 DEF Domain
  <2>4. domain'.cnt > 0 BY <1>3, <2>3
  <2>5. (\A d \in Cores : Never(d, {"failure"}))' => ok BY <1>9 DEF Never
  <2>6. QED BY <2>2, <2>3, <2>4, <2>5 DEF DomainCounted
<1>10. CASE ~TurnsOff(p.state, to) /\ ~TurnsOn(p.state, to)
  <2>1. new = OnCores BY <1>2, <1>4, <1>10 DEF TurnsOff, TurnsOn, OnCores
  <2>2. domain' = domain BY <1>6, <1>10 DEF Domain
  <2>3. QED BY <1>3, <1>7, <2>1, <2>2 DEF DomainCounted, OnCores
<1>11. QED BY <1>8, <1>9, <1>10

(* An action that is no transition. *)
LEMMA DomainKept ==
  ASSUME DomainCounted, domain' = domain,
         \A d \in Cores : pm'[d].state = pm[d].state /\ past[d] \subseteq past'[d]
  PROVE  DomainCounted'
<1>1. {d \in Cores : pm'[d].state \in On} = {d \in Cores : pm[d].state \in On} OBVIOUS
<1>2. (\A d \in Cores : Never(d, {"failure"}))' => \A d \in Cores : Never(d, {"failure"})
  BY DEF Never
<1>3. QED BY <1>1, <1>2 DEF DomainCounted

LEMMA RoundDomain ==
  ASSUME TypeInv, DomainCounted, NEW c \in Cores, Round(c)
  PROVE  DomainCounted'
<1> DEFINE p  == Handled(pm[c], event[c])
           to == Target(p, event[c], jobs[c] = 0)
<1>1. TypeOK BY DEF TypeInv
<1>2. event[c] \in Events /\ pm[c] \in Powers /\ past \in [Cores -> SUBSET Upsets]
  BY <1>1 DEF Round, TypeOK
<1>3. p \in Powers /\ p.state = pm[c].state BY <1>2, HandledType
<1>4. to \in Life \union {"NONE"} BY <1>2, <1>3, TargetType
<1>5. CASE to = "NONE"
  <2>1. /\ pm' = [pm EXCEPT ![c] = p] /\ domain' = domain
        /\ past' = [past EXCEPT ![c] = @ \union Upset(c, to)]
    BY <1>5 DEF Round
  <2>2. \A d \in Cores : pm'[d].state = pm[d].state BY <1>1, <1>3, <2>1 DEF TypeOK
  <2>3. \A d \in Cores : past[d] \subseteq past'[d] BY <1>2, <2>1
  <2>4. QED BY <2>1, <2>2, <2>3, DomainKept
<1>6. CASE to # "NONE"
  <2>1. PICK ok \in PowerOnMay(p.state, to) :
          /\ Transit(c, p, to, ok)
          /\ past' = [Failed(ok) EXCEPT ![c] = @ \union Upset(c, to)]
    BY <1>6 DEF Round
  <2>2. ok \in BOOLEAN BY DEF PowerOnMay
  <2>3. \A d \in Cores : past[d] \subseteq past'[d] /\ (~ok => "failure" \in past'[d])
    BY <1>2, <2>1 DEF Failed
  <2>4. QED BY <1>3, <1>4, <1>6, <2>1, <2>2, <2>3, TransitDomain
<1>7. QED BY <1>5, <1>6

LEMMA SysDomain ==
  ASSUME TypeInv, DomainCounted, SysNext
  PROVE  DomainCounted'
<1>1. TypeOK /\ SuspendedKnown BY DEF TypeInv
<1>2. pm \in [Cores -> Powers] /\ past \in [Cores -> SUBSET Upsets] BY <1>1 DEF TypeOK
<1>3. ASSUME ResumeBegin PROVE DomainCounted'
  BY <1>3, DomainKept DEF ResumeBegin
<1>4. ASSUME NEW c \in Cores, SuspendCore(c) PROVE DomainCounted'
  <2>1. Transit(c, pm[c], "SUSPEND", TRUE) /\ past' = past BY <1>4 DEF SuspendCore
  <2>2. pm[c].state \in Life
    BY <1>1, <1>2, <1>4 DEF SuspendCore, IsNext, SuspendedKnown, Powers
  <2>3. QED BY <1>2, <2>1, <2>2, TransitDomain DEF TurnsOn
<1>5. ASSUME NEW c \in Cores, ResumeCore(c) PROVE DomainCounted'
  <2>1. PICK ok \in PowerOnMay(pm[c].state, pm[c].last_state) :
          /\ Transit(c, pm[c], pm[c].last_state, ok)
          /\ past' = Failed(ok)
    BY <1>5 DEF ResumeCore
  <2>2. ok \in BOOLEAN BY DEF PowerOnMay
  <2>3. \A d \in Cores : past[d] \subseteq past'[d] /\ (~ok => "failure" \in past'[d])
    BY <1>2, <2>1 DEF Failed
  <2>4. pm[c].last_state \in Life BY <1>2 DEF Powers
  <2>5. QED BY <1>2, <2>1, <2>2, <2>3, <2>4, TransitDomain
<1>6. QED BY <1>3, <1>4, <1>5 DEF SysNext

LEMMA CoreDomain ==
  ASSUME TypeInv, DomainCounted, NEW c \in Cores, CoreNext(c)
  PROVE  DomainCounted'
<1>1. TypeOK BY DEF TypeInv
<1>2. past \in [Cores -> SUBSET Upsets] /\ pm \in [Cores -> Powers] BY <1>1 DEF TypeOK
<1>3. CASE CoreIdle(c) BY <1>1, <1>3, PmTypes, DomainKept DEF CoreIdle, history
<1>4. CASE CoreSubmitted(c)
  BY <1>1, <1>4, PmTypes, DomainKept DEF CoreSubmitted, history
<1>5. CASE CoreTimeOut(c) BY <1>2, <1>5, DomainKept DEF CoreTimeOut, CoreKeeps
<1>6. CASE \/ CoreTake(c) \/ CoreCheck(c) \/ CoreReset(c) \/ CoreResumed(c) \/ CoreRelock(c)
           \/ CoreSubmit(c) \/ CoreTrigger(c) \/ CoreWait(c) \/ CoreIrq(c) \/ CoreSend(c)
           \/ CoreUserOff(c) \/ CoreEnd(c)
  <2>1. UNCHANGED <<pm, domain, past>>
    BY <1>6 DEF CoreTake, CoreCheck, CoreReset, CoreResumed, CoreRelock, CoreSubmit, CoreTrigger,
                CoreWait, CoreIrq, CoreSend, CoreUserOff, CoreEnd, CoreKeeps
  <2>2. QED BY <2>1, DomainKept
<1>7. QED BY <1>3, <1>4, <1>5, <1>6 DEF CoreNext

LEMMA NextDomain ==
  ASSUME TypeInv, DomainCounted, [Next]_vars
  PROVE  DomainCounted'
<1>1. TypeOK BY DEF TypeInv
<1>2. past \in [Cores -> SUBSET Upsets] /\ pm \in [Cores -> Powers] BY <1>1 DEF TypeOK
<1>3. CASE UNCHANGED vars BY <1>3, DomainKept DEF vars
<1>4. ASSUME NEW c \in Cores, TimerFires(c) PROVE DomainCounted'
  <2>1. domain' = domain /\ \A d \in Cores : pm'[d].state = pm[d].state
    BY <1>1, <1>4, PmTypes DEF TimerFires
  <2>2. \A d \in Cores : past[d] \subseteq past'[d] BY <1>2, <1>4 DEF TimerFires
  <2>3. QED BY <2>1, <2>2, DomainKept
<1>5. ASSUME NEW c \in Cores,
             PmNext(c) \/ HardwareDone(c) \/ Dispatch(c) \/ Submit(c) \/ Cancel(c) \/ ClockOn(c)
               \/ (\E e \in UserEvents : UserSend(c, e))
      PROVE  DomainCounted'
  <2>1. UNCHANGED <<pm, domain, past>>
    BY <1>5 DEF PmNext, PmWake, PmSend, HardwareDone, Dispatch, Submit, Cancel, ClockOn,
                UserSend, ClockKeeps, history
  <2>2. QED BY <2>1, DomainKept
<1>6. CASE ClockNext
  <2>1. UNCHANGED <<pm, domain, past>>
    BY <1>6 DEF ClockNext, ClockQuery, ClockRead, ClockOff, ClockKeeps, history
  <2>2. QED BY <2>1, DomainKept
<1>7. ASSUME NEW who \in SuspendBy, SuspendBegin(who) PROVE DomainCounted'
  BY <1>2, <1>7, DomainKept DEF SuspendBegin
<1>8. QED
  BY <1>3, <1>4, <1>5, <1>6, <1>7, RoundDomain, CoreDomain, SysDomain, Zenon DEF Next

LEMMA InitDomain == Init => DomainCounted
<1> SUFFICES ASSUME Init PROVE DomainCounted OBVIOUS
<1> USE PowerAssumption DEF PowerAssumption, Init
<1>1. {c \in Cores : pm[c].state \in On} = Cores OBVIOUS
<1>2. Cardinality(Cores) \in Nat /\ Cardinality(Cores) # 0
  BY FS_CardinalityType, FS_EmptySet
<1>3. domain.cnt = Cardinality(Cores) /\ domain.powered OBVIOUS
<1>4. domain.cnt > 0 BY <1>2, <1>3
<1>5. domain.cnt = Cardinality({c \in Cores : pm[c].state \in On}) BY <1>1, <1>3, Zenon
<1>6. QED BY <1>3, <1>4, <1>5 DEF DomainCounted

(* In every order in which cores suspend, resume, go idle and fail, the    *)
(* shared domain counts the cores that are on, and it loses power with the *)
(* last of them and not before, unless a power-on failed.                  *)
THEOREM DomainAlwaysCounted == Spec => []DomainCounted
<1>1. TypeInv /\ DomainCounted /\ [Next]_vars => TypeInv' /\ DomainCounted'
  BY NextTypeInv, NextDomain
<1>2. Init => TypeInv /\ DomainCounted BY InitInv, InitDomain
<1>3. QED BY <1>1, <1>2, PTL DEF Spec

-----------------------------------------------------------------------------
(* The locks.  A thread between the lock of its submission and its unlock  *)
(* owns the power mutex throughout, whatever events it sends meanwhile and *)
(* however they return; nobody can send an event to a free core or to one  *)
(* that debugfs suspends; and so nobody can have changed the user's flags  *)
(* since the submission looked at them.                                    *)
LockedAt(c) ==
  /\ lock[c] \in {"none", "sys"} => event[c] = "none"
  /\ sys.pc \in {"suspend", "resume"} /\ sys.who = "debugfs" => lock[c] = "sys"
  /\ core[c].pc \in Submission =>
       /\ lock[c] = "core"
       /\ event[c] \in {"none", "ON", "RUN"}
       /\ core[c].pc \in {"check", "trigger"} => event[c] = "none"
       /\ ~core[c].slept => ~pm[c].user_off /\ ~pm[c].user_stop
  /\ core[c].pc \in Sleep => core[c].slept

Locked == \A c \in Cores : LockedAt(c)

LEMMA InitLocked == Init => Locked
BY DEF Init, Locked, LockedAt

(* A core whose row no action touches stays as it is. *)
LEMMA LockedElsewhere ==
  ASSUME Locked, NEW d \in Cores, lock'[d] = lock[d], event'[d] = event[d],
         core'[d] = core[d], sys' = sys,
         pm'[d].user_off = pm[d].user_off, pm'[d].user_stop = pm[d].user_stop
  PROVE  LockedAt(d)'
BY DEF Locked, LockedAt

LEMMA TransitFlags ==
  ASSUME TypeOK, NEW c \in Cores, NEW p \in Powers, NEW to \in States, NEW ok \in BOOLEAN,
         Transit(c, p, to, ok), NEW d \in Cores
  PROVE  /\ pm'[d].user_off = IF d = c THEN p.user_off ELSE pm[d].user_off
         /\ pm'[d].user_stop = IF d = c THEN p.user_stop ELSE pm[d].user_stop
<1>1. pm \in [Cores -> Powers] BY DEF TypeOK
<1>2. Leave(p, to) \in Powers BY LeaveType
<1>3. /\ Leave(p, to).user_off = p.user_off
      /\ Leave(p, to).user_stop = p.user_stop
  BY DEF Leave, Powers
<1>4. \A q \in Powers : /\ Enter(q, to, ok).user_off = q.user_off
                       /\ Enter(q, to, ok).user_stop = q.user_stop
  BY DEF Enter, Powers
<1>5. /\ Enter(Leave(p, to), to, ok).user_off = p.user_off
      /\ Enter(Leave(p, to), to, ok).user_stop = p.user_stop
  BY <1>2, <1>3, <1>4
<1>6. pm' = [pm EXCEPT ![c] = Enter(Leave(p, to), to, ok)] BY DEF Transit
<1>7. QED BY <1>1, <1>5, <1>6

LEMMA HandledFlags ==
  ASSUME NEW p \in Powers, NEW e \in {"ON", "RUN"}
  PROVE  Handled(p, e).user_off = p.user_off /\ Handled(p, e).user_stop = p.user_stop
<1>1. /\ Flagged(p, p.user_off, e = "USR_OFF", e = "USR_ON") = p.user_off
      /\ Flagged(p, p.user_stop, e = "USR_STOP", e = "USR_START") = p.user_stop
  BY DEF Flagged, Powers
<1>2. QED BY <1>1 DEF Handled, Powers

(* What a round leaves of the lock and the flags. *)
LEMMA RoundLocks ==
  ASSUME TypeInv, NEW c \in Cores, Round(c)
  PROVE  /\ \/ UNCHANGED <<lock, event>>
            \/ Return(c)
         /\ \A d \in Cores : d # c => /\ pm'[d].user_off = pm[d].user_off
                                      /\ pm'[d].user_stop = pm[d].user_stop
         /\ event[c] \in {"ON", "RUN"} => /\ pm'[c].user_off = pm[c].user_off
                                          /\ pm'[c].user_stop = pm[c].user_stop
<1> DEFINE p  == Handled(pm[c], event[c])
           to == Target(p, event[c], jobs[c] = 0)
<1>1. TypeOK BY DEF TypeInv
<1>2. event[c] \in Events /\ pm \in [Cores -> Powers] BY <1>1 DEF Round, TypeOK
<1>3. p \in Powers BY <1>2, HandledType
<1>4. to \in Life \union {"NONE"} BY <1>2, <1>3, TargetType
<1>5. event[c] \in {"ON", "RUN"} => p.user_off = pm[c].user_off /\ p.user_stop = pm[c].user_stop
  BY <1>2, HandledFlags
<1>6. CASE to = "NONE"
  <2>1. pm' = [pm EXCEPT ![c] = p] /\ Return(c) BY <1>6 DEF Round
  <2>2. QED BY <1>2, <1>5, <2>1
<1>7. CASE to # "NONE"
  <2>1. PICK ok \in BOOLEAN :
          Transit(c, p, to, ok) /\ IF ok THEN UNCHANGED <<lock, event>> ELSE Return(c)
    BY <1>7 DEF Round, PowerOnMay
  <2>2. \A d \in Cores :
          /\ pm'[d].user_off = IF d = c THEN p.user_off ELSE pm[d].user_off
          /\ pm'[d].user_stop = IF d = c THEN p.user_stop ELSE pm[d].user_stop
    BY <1>1, <1>3, <1>4, <1>7, <2>1, TransitFlags
  <2>3. QED BY <1>5, <2>1, <2>2
<1>8. QED BY <1>6, <1>7

LEMMA RoundLocked ==
  ASSUME TypeInv, Locked, NEW c \in Cores, Round(c)
  PROVE  Locked'
<1>1. core' = core /\ sys' = sys BY DEF Round, threads
<1>2. lock \in [Cores -> Owners] /\ event \in [Cores -> Events \union {"none"}]
  BY DEF TypeInv, TypeOK
<1>3. /\ \A d \in Cores : d # c => lock'[d] = lock[d] /\ event'[d] = event[d]
      /\ \/ lock'[c] = lock[c] /\ event'[c] = event[c]
         \/ /\ event'[c] = "none"
            /\ lock'[c] = IF lock[c] = "core" /\ core[c].pc \in Submission
                           THEN lock[c] ELSE "none"
  BY <1>2, RoundLocks DEF Return
<1>4. ASSUME NEW d \in Cores, d # c PROVE LockedAt(d)'
  BY <1>1, <1>3, <1>4, RoundLocks, LockedElsewhere
<1>5. LockedAt(c)'
  <2>1. event[c] # "none" /\ LockedAt(c) BY DEF Round, Locked
  <2>2. core[c].pc \in Submission => event[c] \in {"ON", "RUN"} BY <2>1 DEF LockedAt
  <2>3. core[c].pc \in Submission => /\ pm'[c].user_off = pm[c].user_off
                                     /\ pm'[c].user_stop = pm[c].user_stop
    BY <2>2, RoundLocks
  <2>4. QED BY <1>1, <1>3, <2>1, <2>3 DEF LockedAt
<1>6. QED BY <1>4, <1>5 DEF Locked

(* A call of another thread can begin only outside a submission. *)
LEMMA SendLocked ==
  ASSUME TypeOK, Locked, NEW c \in Cores, NEW owner \in {"pm", "user", "clock"},
         NEW e \in Events, Send(c, owner, e), UNCHANGED <<pm, core, sys>>
  PROVE  Locked'
<1>1. lock \in [Cores -> Owners] /\ event \in [Cores -> Events \union {"none"}]
  BY DEF TypeOK
<1>2. \A d \in Cores : d # c => lock'[d] = lock[d] /\ event'[d] = event[d]
  BY <1>1 DEF Send
<1>3. lock[c] = "none" /\ lock'[c] = owner BY <1>1 DEF Send
<1>4. LockedAt(c)' BY <1>3 DEF Locked, LockedAt
<1>5. QED BY <1>2, <1>4, LockedElsewhere DEF Locked

LEMMA OthersLocked ==
  ASSUME TypeInv, Locked, NEW c \in Cores,
         \/ TimerFires(c) \/ PmNext(c) \/ HardwareDone(c) \/ Dispatch(c) \/ Submit(c)
         \/ Cancel(c) \/ ClockOn(c) \/ \E e \in UserEvents : UserSend(c, e)
  PROVE  Locked'
<1>1. TypeOK /\ pm \in [Cores -> Powers] BY DEF TypeInv, TypeOK
<1>2. CASE TimerFires(c)
  <2>1. \A d \in Cores : pm'[d].user_off = pm[d].user_off /\ pm'[d].user_stop = pm[d].user_stop
    <3>1. pm' = [pm EXCEPT ![c].timer = FALSE] BY <1>2 DEF TimerFires
    <3>2. \A q \in Powers : /\ [q EXCEPT !.timer = FALSE].user_off = q.user_off
                           /\ [q EXCEPT !.timer = FALSE].user_stop = q.user_stop
      BY DEF Powers
    <3>3. QED BY <1>1, <3>1, <3>2
  <2>2. QED BY <1>2, <2>1, LockedElsewhere DEF TimerFires, threads, Locked
<1>3. CASE \/ HardwareDone(c) \/ Dispatch(c) \/ Submit(c) \/ Cancel(c) \/ PmWake(c)
  <2>1. UNCHANGED <<pm, lock, event, core, sys>>
    BY <1>3 DEF HardwareDone, Dispatch, Submit, Cancel, PmWake, threads
  <2>2. QED BY <2>1 DEF Locked, LockedAt
<1>4. CASE PmSend(c) BY <1>1, <1>4, SendLocked DEF PmSend
<1>5. CASE ClockOn(c) BY <1>1, <1>5, SendLocked DEF ClockOn, ClockKeeps
<1>6. ASSUME NEW e \in UserEvents, UserSend(c, e) PROVE Locked'
  <2>1. e \in Events BY PowerAssumption DEF PowerAssumption
  <2>2. QED BY <1>1, <1>6, <2>1, SendLocked DEF UserSend, threads
<1>7. QED BY <1>2, <1>3, <1>4, <1>5, <1>6 DEF PmNext

LEMMA ClockLocked ==
  ASSUME TypeInv, Locked, ClockNext
  PROVE  Locked'
<1>1. TypeOK /\ clock_user.core \in Cores BY DEF TypeInv, TypeOK, ClockUsers
<1>2. CASE ClockQuery \/ ClockRead
  BY <1>2 DEF ClockQuery, ClockRead, ClockKeeps, Locked, LockedAt
<1>3. CASE ClockOff BY <1>1, <1>3, SendLocked DEF ClockOff, ClockKeeps
<1>4. QED BY <1>2, <1>3 DEF ClockNext

(* The system: only debugfs touches the locks, and it takes free ones. *)
LEMMA SysLocked ==
  ASSUME TypeInv, Locked, SysNext \/ \E who \in SuspendBy : SuspendBegin(who)
  PROVE  Locked'
<1>1. /\ TypeOK /\ sys \in Suspensions /\ lock \in [Cores -> Owners]
      /\ pm \in [Cores -> Powers]
  BY DEF TypeInv, TypeOK
<1>2. UNCHANGED <<core, event>>
  BY DEF SysNext, ResumeBegin, SuspendCore, ResumeCore, SuspendBegin, SysKeeps
<1>3. ASSUME NEW who \in SuspendBy, SuspendBegin(who) PROVE Locked'
  BY <1>2, <1>3 DEF SuspendBegin, SysLocks, Locked, LockedAt
<1>4. CASE ResumeBegin
  <2>1. sys'.who = sys.who BY <1>1, <1>4 DEF ResumeBegin, Suspensions
  <2>2. QED BY <1>2, <1>4, <2>1 DEF ResumeBegin, SysLocks, Locked, LockedAt
<1>5. ASSUME NEW c \in Cores, SuspendCore(c) \/ ResumeCore(c) PROVE Locked'
  <2> DEFINE todo == sys.todo \ {c}
  <2>1. /\ sys.pc \in {"suspend", "resume"} /\ SysUnlocks(todo)
        /\ sys' = [sys EXCEPT !.todo = todo,
                              !.pc = IF todo = {}
                                     THEN (IF sys.pc = "suspend" THEN "asleep" ELSE "awake")
                                     ELSE @]
    BY <1>5 DEF SuspendCore, ResumeCore
  <2>2. /\ sys'.who = sys.who
        /\ sys'.pc \in {"suspend", "resume"} => sys'.pc = sys.pc /\ todo # {}
    BY <1>1, <2>1 DEF Suspensions
  <2>3. \A d \in Cores : pm'[d].user_off = pm[d].user_off /\ pm'[d].user_stop = pm[d].user_stop
    <3>1. PICK to \in States, ok \in BOOLEAN : Transit(c, pm[c], to, ok)
      <4>1. pm[c].last_state \in States BY <1>1 DEF Powers
      <4>2. QED BY <1>5, <4>1 DEF SuspendCore, ResumeCore, PowerOnMay
    <3>2. QED BY <1>1, <3>1, TransitFlags
  <2>4. CASE sys.who = "debugfs" /\ todo = {}
    BY <1>2, <2>1, <2>2, <2>4 DEF SysUnlocks, Locked, LockedAt
  <2>5. CASE ~(sys.who = "debugfs" /\ todo = {})
    BY <1>2, <2>1, <2>2, <2>3, <2>5 DEF SysUnlocks, Locked, LockedAt
  <2>6. QED BY <2>4, <2>5
<1>6. QED BY <1>3, <1>4, <1>5 DEF SysNext

(* An action of the thread of core c touches the row of c alone. *)
LEMMA CoreElsewhere ==
  ASSUME TypeInv, NEW c \in Cores, CoreNext(c)
  PROVE  /\ \A d \in Cores : d # c => /\ lock'[d] = lock[d] /\ event'[d] = event[d]
                                      /\ core'[d] = core[d]
         /\ \A d \in Cores : pm'[d].user_off = pm[d].user_off /\ pm'[d].user_stop = pm[d].user_stop
         /\ sys' = sys
<1>1. /\ lock \in [Cores -> Owners] /\ event \in [Cores -> Events \union {"none"}]
      /\ core \in [Cores -> CoreThreads] /\ pm \in [Cores -> Powers]
  BY DEF TypeInv, TypeOK
<1>2. sys' = sys
  BY DEF CoreNext, CoreTake, CoreCheck, CoreReset, CoreResumed, CoreRelock, CoreSubmit,
         CoreSubmitted, CoreTrigger, CoreWait, CoreIrq, CoreTimeOut, CoreIdle, CoreSend,
         CoreUserOff, CoreEnd, CoreKeeps
<1>3. \/ pm' = pm
      \/ \E b \in BOOLEAN : pm' = [pm EXCEPT ![c].idle = b]
  BY DEF CoreNext, CoreTake, CoreCheck, CoreReset, CoreResumed, CoreRelock, CoreSubmit,
         CoreSubmitted, CoreTrigger, CoreWait, CoreIrq, CoreTimeOut, CoreIdle, CoreSend,
         CoreUserOff, CoreEnd, CoreKeeps
<1>4. \A d \in Cores : pm'[d].user_off = pm[d].user_off /\ pm'[d].user_stop = pm[d].user_stop
  <2>1. \A q \in Powers, b \in BOOLEAN : /\ [q EXCEPT !.idle = b].user_off = q.user_off
                                        /\ [q EXCEPT !.idle = b].user_stop = q.user_stop
    BY DEF Powers
  <2>2. CASE pm' = pm BY <2>2
  <2>3. ASSUME NEW b \in BOOLEAN, pm' = [pm EXCEPT ![c].idle = b]
        PROVE  \A d \in Cores : /\ pm'[d].user_off = pm[d].user_off
                               /\ pm'[d].user_stop = pm[d].user_stop
    BY <1>1, <2>1, <2>3
  <2>4. QED BY <1>3, <2>2, <2>3
<1>5. \/ UNCHANGED <<lock, event>>
      \/ \E e \in Events : Send(c, "core", e)
      \/ UNCHANGED event /\ \E owner \in Owners : lock' = [lock EXCEPT ![c] = owner]
  <2>1. CASE CoreTake(c) \/ CoreTrigger(c) BY <2>1 DEF CoreTake, CoreTrigger
  <2>2. CASE CoreCheck(c) \/ CoreRelock(c) \/ CoreSend(c) \/ CoreUserOff(c)
    BY <2>2 DEF CoreCheck, CoreRelock, CoreSend, CoreUserOff
  <2>3. CASE CoreSubmit(c) \/ CoreSubmitted(c) BY <2>3 DEF CoreSubmit, CoreSubmitted, CoreFails
  <2>4. CASE \/ CoreReset(c) \/ CoreResumed(c) \/ CoreWait(c) \/ CoreIrq(c) \/ CoreTimeOut(c)
             \/ CoreIdle(c) \/ CoreEnd(c)
    BY <2>4 DEF CoreReset, CoreResumed, CoreWait, CoreIrq, CoreTimeOut, CoreIdle, CoreEnd
  <2>5. QED BY <2>1, <2>2, <2>3, <2>4 DEF CoreNext
<1>6. \A d \in Cores : d # c => lock'[d] = lock[d] /\ event'[d] = event[d]
  BY <1>1, <1>5 DEF Send
<1>7. \A d \in Cores : d # c => core'[d] = core[d]
  BY <1>1 DEF CoreNext, CoreTake, CoreCheck, CoreReset, CoreResumed, CoreRelock, CoreSubmit,
              CoreSubmitted, CoreTrigger, CoreWait, CoreIrq, CoreTimeOut, CoreIdle, CoreSend,
              CoreUserOff, CoreEnd, CoreFails, CoreGoes
<1>8. QED BY <1>2, <1>4, <1>6, <1>7

LEMMA CoreLocked ==
  ASSUME TypeInv, Locked, NEW c \in Cores, CoreNext(c)
  PROVE  Locked'
<1>1. /\ lock \in [Cores -> Owners] /\ event \in [Cores -> Events \union {"none"}]
      /\ core \in [Cores -> CoreThreads] /\ pm \in [Cores -> Powers]
  BY DEF TypeInv, TypeOK
<1>2. /\ LockedAt(c) /\ sys' = sys
      /\ pm'[c].user_off = pm[c].user_off /\ pm'[c].user_stop = pm[c].user_stop
  BY CoreElsewhere DEF Locked
<1>3. \A pc \in CorePcs : CoreGoes(c, pc) =>
        core'[c].pc = pc /\ core'[c].slept = core[c].slept
  BY <1>1 DEF CoreGoes, CoreThreads
<1>4. \A e \in Events : Send(c, "core", e) =>
        /\ lock[c] \in {"none", "core"} /\ event[c] = "none"
        /\ lock'[c] = "core" /\ event'[c] = e
  BY <1>1 DEF Send
<1>5. LockedAt(c)'
  <2>1. CASE CoreTake(c)
    <3>1. \/ /\ core'[c] = [pc |-> "check", slept |-> FALSE]
             /\ ~pm[c].user_off /\ ~pm[c].user_stop /\ lock'[c] = "core"
          \/ core'[c] = [pc |-> "end", slept |-> FALSE] /\ lock' = lock
      BY <1>1, <2>1 DEF CoreTake, Permitted
    <3>2. lock[c] = "none" /\ event' = event BY <2>1 DEF CoreTake
    <3>3. QED BY <1>1, <1>2, <3>1, <3>2 DEF LockedAt
  <2>2. CASE CoreCheck(c)
    <3>1. CASE CoreGoes(c, "powered") /\ Send(c, "core", "ON") /\ core[c].pc = "check"
      BY <1>2, <1>3, <1>4, <3>1 DEF LockedAt
    <3>2. CASE core' = [core EXCEPT ![c] = [pc |-> "reset_resume", slept |-> TRUE]]
               /\ lock' = [lock EXCEPT ![c] = "none"] /\ event' = event /\ core[c].pc = "check"
      BY <1>1, <1>2, <3>2 DEF LockedAt
    <3>3. QED BY <2>2, <3>1, <3>2 DEF CoreCheck
  <2>3. CASE CoreReset(c) \/ CoreResumed(c)
    BY <1>2, <1>3, <2>3 DEF CoreReset, CoreResumed, LockedAt
  <2>4. CASE CoreRelock(c) BY <1>2, <1>3, <1>4, <2>4 DEF CoreRelock, LockedAt
  <2>5. CASE CoreSubmit(c)
    <3>1. core[c].pc = "powered" /\ event[c] = "none" BY <2>5 DEF CoreSubmit
    <3>2. CASE CoreFails(c) BY <1>1, <1>2, <1>3, <3>1, <3>2 DEF CoreFails, LockedAt
    <3>3. CASE Send(c, "core", "RUN") /\ CoreGoes(c, "submitted")
      BY <1>2, <1>3, <1>4, <3>1, <3>3 DEF LockedAt
    <3>4. QED BY <2>5, <3>2, <3>3 DEF CoreSubmit
  <2>6. CASE CoreSubmitted(c)
    <3>1. core[c].pc = "submitted" /\ event[c] = "none" BY <2>6 DEF CoreSubmitted
    <3>2. CASE CoreFails(c) BY <1>1, <1>2, <1>3, <3>1, <3>2 DEF CoreFails, LockedAt
    <3>3. CASE CoreGoes(c, "trigger") /\ UNCHANGED <<lock, event>>
      BY <1>2, <1>3, <3>1, <3>3 DEF LockedAt
    <3>4. QED BY <2>6, <3>2, <3>3 DEF CoreSubmitted
  <2>7. CASE CoreTrigger(c) BY <1>1, <1>2, <1>3, <2>7 DEF CoreTrigger, LockedAt
  <2>8. CASE CoreWait(c) \/ CoreIrq(c) \/ CoreTimeOut(c) \/ CoreIdle(c) \/ CoreEnd(c)
    BY <1>2, <1>3, <2>8 DEF CoreWait, CoreIrq, CoreTimeOut, CoreIdle, CoreEnd, LockedAt
  <2>9. CASE CoreSend(c) BY <1>2, <1>3, <1>4, <2>9 DEF CoreSend, LockedAt
  <2>10. CASE CoreUserOff(c)
    <3>1. core'[c].pc = "end" BY <1>3, <2>10 DEF CoreUserOff
    <3>2. QED BY <1>2, <1>4, <2>10, <3>1 DEF CoreUserOff, LockedAt
  <2>11. QED
    BY <2>1, <2>2, <2>3, <2>4, <2>5, <2>6, <2>7, <2>8, <2>9, <2>10 DEF CoreNext
<1>6. ASSUME NEW d \in Cores, d # c PROVE LockedAt(d)'
  BY <1>6, CoreElsewhere, LockedElsewhere
<1>7. QED BY <1>5, <1>6 DEF Locked

LEMMA NextLocked ==
  ASSUME TypeInv, Locked, [Next]_vars
  PROVE  Locked'
<1>1. CASE UNCHANGED vars BY <1>1 DEF vars, Locked, LockedAt
<1>2. CASE Next
  BY <1>2, RoundLocked, OthersLocked, CoreLocked, ClockLocked, SysLocked, Zenon DEF Next
<1>3. QED BY <1>1, <1>2

LEMMA AlwaysLocked == Spec => [](TypeInv /\ Locked)
<1>1. TypeInv /\ Locked /\ [Next]_vars => TypeInv' /\ Locked'
  BY NextTypeInv, NextLocked
<1>2. Init => TypeInv /\ Locked BY InitInv, InitLocked
<1>3. QED BY <1>1, <1>2, PTL DEF Spec

(* Whatever the user sends while a submission is under way, the hardware   *)
(* is not started on a core that is off or stopped for the user, unless    *)
(* the submission slept through a suspension.                              *)
THEOREM StoppedNeverStarted == Spec => []StoppedNotStarted
<1>1. Locked => StoppedNotStarted BY DEF Locked, LockedAt, StoppedNotStarted
<1>2. QED BY <1>1, AlwaysLocked, PTL

(* A clean for a user power-off or stop, which waits for cancel_mutex      *)
(* under the power mutex, never waits for a submission that holds the      *)
(* power mutex; it can wait for good only for one that sleeps.             *)
THEOREM OnlySleepersBlock == Spec => []StuckOnSleeper
<1>1. TypeInv /\ Locked => StuckOnSleeper
  BY DEF Locked, LockedAt, StuckOnSleeper, Stuck, MayClean, Cleans, CancelHeld
<1>2. QED BY <1>1, AlwaysLocked, PTL

-----------------------------------------------------------------------------
(* disable_clock_suspend counts the users of the clock of a core exactly,  *)
(* and so a reader and a job have the clock while they need it, and a core *)
(* does not stay in RUN without a task.                                    *)

-----------------------------------------------------------------------------
(* The inductive invariant.  Its parts are about one core, but for the     *)
(* last.                                                                   *)

(* Who holds the clock: the reader from its CLK_ON to its CLK_OFF; only it *)
(* sends these events, in turns.                                           *)
ClockInUse(c) == clock_user.core = c /\ clock_user.pc # "out"
HoldersAt(c) ==
  /\ held[c] \subseteq {"clock"}
  /\ "clock" \in held[c] => \/ ClockInUse(c)
                            \/ event[c] = "CLK_OFF" /\ lock[c] = "clock"
  /\ event[c] = "CLK_ON" => lock[c] = "clock" /\ "clock" \notin held[c] /\ ClockInUse(c)
  /\ event[c] = "CLK_OFF" => lock[c] = "clock" /\ ~ClockInUse(c)

(* The users of the clock of a core whose holders are h, in state s. *)
One(b) == IF b THEN 1 ELSE 0
Uses(h, s) == One("clock" \in h) + One(s = "RUN")

CountedAt(c) ==
  Never(c, {"split", "failure"}) => pm[c].count = Uses(held[c], pm[c].state)

(* In the states of CLOCK the clock runs; its holders and a job keep the   *)
(* core in them, also a job that outlived its wait.                        *)
ReadyAt(c) ==
  /\ pm[c].state \in Clock => ~pm[c].clock_suspended
  /\ sys.pc # "awake" => "suspend" \in past[c]
  /\ Never(c, {"split", "failure"}) /\ held[c] # {} => pm[c].state \in Clock
  /\ Never(c, {"split", "failure", "suspend"}) =>
       (jobs[c] > 0 \/ core[c].pc = "trigger" => pm[c].state = "RUN")

(* Only the thread of the core sends RUN and END, around its task; a core  *)
(* in RUN is left without END by a wait that timed out, and then           *)
(* hardware->idle stays false, until the wait for a later task ends.       *)
Smooth(c) == Never(c, {"busy", "suspend"})
RunAt(c) ==
  /\ event[c] = "END" => lock[c] = "core"
  /\ Smooth(c) =>
       /\ event[c] = "RUN" => lock[c] = "core" /\ core[c].pc = "submitted"
       /\ event[c] = "END" => core[c].pc = "user_off"
       /\ core[c].pc \in {"trigger", "wait", "irq", "idle"} /\ pm[c].state = "RUN" =>
            ~pm[c].idle
       /\ pm[c].state = "RUN" =>
            \/ core[c].pc \in {"submitted", "trigger", "wait", "irq", "idle", "hw_idle"}
            \/ core[c].pc = "user_off" /\ event[c] = "END"
            \/ Abandoned(c)

(* A suspension finds no holder of the clock and lets none in: the system  *)
(* has frozen the reader, debugfs waited for the core to leave the states  *)
(* of CLOCK and holds its mutex, and SUSPEND ignores CLK_ON.               *)
Suspended(c) == \/ sys.pc = "asleep"
                \/ sys.pc = "suspend" /\ c \notin sys.todo
                \/ sys.pc = "resume" /\ c \in sys.todo
AsleepAt(c) ==
  /\ Suspended(c) => pm[c].state = "SUSPEND"
  /\ sys.pc # "awake" /\ sys.who = "system" =>
       ~ClockInUse(c) /\ event[c] \notin {"CLK_ON", "CLK_OFF"}
  /\ sys.pc # "awake" /\ Never(c, {"split", "failure"}) => held[c] = {}

(* A failure on the shared domain upsets every core. *)
FailureShared == \A c, d \in Cores : "failure" \in past[c] => "failure" \in past[d]

PowerAt(c) == HoldersAt(c) /\ CountedAt(c) /\ ReadyAt(c) /\ RunAt(c) /\ AsleepAt(c)
Powered    == FailureShared /\ \A c \in Cores : PowerAt(c)

-----------------------------------------------------------------------------
(* The counter.                                                            *)

(* The counts that occur are far from both ends. *)
LEMMA SmallCounts ==
  /\ \A n \in 0 .. 1 : Inc(n) = n + 1
  /\ \A n \in 1 .. 2 : Dec(n) = n - 1
<1>1. CountMod \in Nat /\ CountMod > 2 BY PowerAssumption DEF PowerAssumption
<1>2. \A a \in Nat : a < CountMod => a % CountMod = a BY <1>1
<1>3. \A a \in Nat : a < CountMod => (a + CountMod) % CountMod = a BY <1>1
<1>4. ASSUME NEW n \in 0 .. 1 PROVE Inc(n) = n + 1 BY <1>1, <1>2 DEF Inc
<1>5. ASSUME NEW n \in 1 .. 2 PROVE Dec(n) = n - 1
  <2>1. n + CountMod - 1 = (n - 1) + CountMod /\ n - 1 \in Nat /\ n - 1 < CountMod BY <1>1
  <2>2. QED BY <1>3, <2>1 DEF Dec
<1>6. QED BY <1>4, <1>5

(* The number of users, with the holder and without. *)
LEMMA UsesRange ==
  ASSUME NEW h \in SUBSET {"clock"}, NEW s
  PROVE  /\ Uses(h, s) \in 0 .. 2
         /\ s = "RUN" => Uses(h, s) >= 1
         /\ Uses(h, s) = 0 => h = {}
         /\ "clock" \notin h => /\ Uses(h, s) \in 0 .. 1
                                /\ Uses(h \union {"clock"}, s) = Uses(h, s) + 1
         /\ "clock" \in h => /\ Uses(h, s) \in 1 .. 2
                             /\ Uses(h \ {"clock"}, s) = Uses(h, s) - 1
BY DEF Uses, One

LEMMA UsesCardinality ==
  ASSUME NEW h \in SUBSET {"clock"}, NEW s
  PROVE  Uses(h, s) = Cardinality(h) + (IF s = "RUN" THEN 1 ELSE 0)
<1>1. Cardinality({"clock"}) = 1 /\ Cardinality({}) = 0 BY FS_Singleton, FS_EmptySet
<1>2. CASE "clock" \in h
  <2>1. h = {"clock"} BY <1>2
  <2>2. QED BY <1>1, <2>1 DEF Uses, One
<1>3. CASE "clock" \notin h
  <2>1. h = {} BY <1>3
  <2>2. QED BY <1>1, <2>1 DEF Uses, One
<1>4. QED BY <1>2, <1>3

-----------------------------------------------------------------------------
(* Transitions.                                                            *)

(* What a transition does to the fields this is about. *)
LEMMA TransitFields ==
  ASSUME NEW p \in Powers, NEW to \in States, NEW ok \in BOOLEAN,
         ok \/ ~TurnsOn(p.state, to)
  PROVE  LET q == Enter(Leave(p, to), to, ok)
             n == IF p.state = "RUN" THEN Dec(p.count) ELSE p.count
         IN  /\ q.state = to
             /\ q.count = IF to = "RUN" THEN Inc(n) ELSE n
             /\ q.idle = (p.idle \/ TurnsOff(p.state, to))
<1> DEFINE n == IF p.state = "RUN" THEN Dec(p.count) ELSE p.count
           l == Leave(p, to)
<1>1. l \in Powers /\ l.state = p.state BY LeaveType
<1>2. l.count = n /\ l.idle = (p.idle \/ TurnsOff(p.state, to)) BY DEF Leave, Powers
<1>3. ~(TurnsOn(l.state, to) /\ ~ok) BY <1>1
<1>4. ASSUME NEW k \in Powers, ~(TurnsOn(k.state, to) /\ ~ok)
      PROVE  /\ Enter(k, to, ok).state = to
             /\ Enter(k, to, ok).count = IF to = "RUN" THEN Inc(k.count) ELSE k.count
             /\ Enter(k, to, ok).idle = k.idle
  BY <1>4 DEF Enter, Powers
<1>5. QED BY <1>1, <1>2, <1>3, <1>4

(* The clock runs in the states of CLOCK, even after a failure. *)
LEMMA TransitClock ==
  ASSUME NEW p \in Powers, NEW to \in Clock, NEW ok \in BOOLEAN,
         p.state \in Clock => ~p.clock_suspended
  PROVE  ~Enter(Leave(p, to), to, ok).clock_suspended
<1> DEFINE l == Leave(p, to)
<1>1. l \in Powers /\ l.state = p.state BY LeaveType
<1>2. p.state \in Clock => ~l.clock_suspended BY DEF Leave, Powers, TurnsOff
<1>3. ASSUME NEW k \in Powers, k.state \in Clock => ~k.clock_suspended
      PROVE  ~Enter(k, to, ok).clock_suspended
  BY <1>3 DEF Enter, Powers
<1>4. QED BY <1>1, <1>2, <1>3

LEMMA TransitEffect ==
  ASSUME TypeOK, NEW c \in Cores, NEW p \in Powers, NEW to \in States, NEW ok \in BOOLEAN,
         to = "SUSPEND" => p.state \in Life, Transit(c, p, to, ok)
  PROVE  /\ \A d \in Cores \ {c} : pm'[d] = pm[d]
         /\ pm'[c].state = to
         /\ ok \/ ~TurnsOn(p.state, to) =>
              /\ pm'[c].count = IF to = "RUN" THEN Inc(IF p.state = "RUN" THEN Dec(p.count) ELSE p.count)
                               ELSE (IF p.state = "RUN" THEN Dec(p.count) ELSE p.count)
              /\ pm'[c].idle = (p.idle \/ TurnsOff(p.state, to))
         /\ to \in Clock /\ (p.state \in Clock => ~p.clock_suspended) =>
              ~pm'[c].clock_suspended
<1>1. /\ pm'[c] = Enter(Leave(p, to), to, ok)
      /\ \A d \in Cores \ {c} : pm'[d] = pm[d]
  BY DEF Transit, TypeOK
<1>2. pm'[c].state = to
  <2>1. Leave(p, to) \in Powers /\ Leave(p, to).state = p.state BY LeaveType
  <2>2. Enter(Leave(p, to), to, ok).state = to BY <2>1, EnterType
  <2>3. QED BY <1>1, <2>2
<1>3. QED BY <1>1, <1>2, TransitFields, TransitClock

(* Handling an event changes the count and the user's flags alone. *)
LEMMA HandledFields ==
  ASSUME NEW p \in Powers, NEW e \in Events
  PROVE  /\ Handled(p, e).state = p.state
         /\ Handled(p, e).count = Counted(p, e)
         /\ Handled(p, e).clock_suspended = p.clock_suspended
         /\ Handled(p, e).idle = p.idle
BY DEF Handled, Powers

(* The transitions an event asks for. *)
LEMMA TargetCases ==
  ASSUME NEW p \in Powers, NEW e \in Events, NEW quiet \in BOOLEAN,
         Target(p, e, quiet) # "NONE"
  PROVE  LET to == Target(p, e, quiet)
         IN  \/ p.state = "OFF" /\ to = "IDLE" /\ e \in {"USR_ON", "ON"}
             \/ p.state = "IDLE" /\ to = "OFF" /\ e \in {"USR_OFF", "OFF"}
             \/ p.state = "IDLE" /\ to = "READY" /\ e = "CLK_ON"
             \/ p.state \in {"IDLE", "READY"} /\ to = "RUN" /\ e = "RUN"
             \/ p.state \in Clock /\ to = "IDLE" /\ e \in {"CLK_OFF", "END"} /\ p.count = 0
             \/ p.state = "RUN" /\ to = "READY" /\ e = "END" /\ p.count # 0 /\ quiet
BY DEF Target, Powers

(* A round of core c: the event is handled, and with a target there is a   *)
(* transition to it.                                                       *)
LEMMA RoundEffect ==
  ASSUME TypeInv, NEW c \in Cores, Round(c)
  PROVE  LET s  == pm[c].state
             e  == event[c]
             n  == Counted(pm[c], e)
             to == Target(Handled(pm[c], e), e, jobs[c] = 0)
             m  == IF s = "RUN" THEN Dec(n) ELSE n
         IN  /\ \/ /\ to = "NONE"
                   /\ pm'[c].state = s /\ pm'[c].count = n /\ pm'[c].idle = pm[c].idle
                   /\ pm'[c].clock_suspended = pm[c].clock_suspended
                   /\ Return(c)
                \/ /\ to # "NONE" /\ to \in Life
                   /\ pm'[c].state = to
                   /\ Never(c, {"failure"})' =>
                        /\ pm'[c].count = IF to = "RUN" THEN Inc(m) ELSE m
                        /\ pm'[c].idle = (pm[c].idle \/ TurnsOff(s, to))
                        /\ UNCHANGED <<lock, event>>
                   /\ to \in Clock /\ (s \in Clock => ~pm[c].clock_suspended) =>
                        ~pm'[c].clock_suspended
                   /\ UNCHANGED <<lock, event>> \/ Return(c)
             /\ \A d \in Cores \ {c} : pm'[d] = pm[d] /\ jobs'[d] = jobs[d] /\ held'[d] = held[d]
             /\ \A d \in Cores : past[d] \subseteq past'[d]
             /\ jobs'[c] > 0 => jobs[c] > 0
             /\ Splits(c) => "split" \in past'[c]
             /\ Busy(c, to) => "busy" \in past'[c]
             /\ UNCHANGED <<core, clock_user, sys>>
             /\ FailureShared => FailureShared'
<1> DEFINE s  == pm[c].state
           e  == event[c]
           p  == Handled(pm[c], e)
           to == Target(p, e, jobs[c] = 0)
<1>1. TypeOK BY DEF TypeInv
<1>2. /\ e \in Events /\ pm \in [Cores -> Powers] /\ past \in [Cores -> SUBSET Upsets]
      /\ jobs \in [Cores -> Nat] /\ held \in [Cores -> SUBSET Owners]
  BY <1>1 DEF Round, TypeOK
<1>3. /\ p \in Powers /\ p.state = s /\ p.count = Counted(pm[c], e)
      /\ p.clock_suspended = pm[c].clock_suspended /\ p.idle = pm[c].idle
  BY <1>2, HandledType, HandledFields
<1>4. to \in Life \union {"NONE"} BY <1>2, <1>3, TargetType
<1>5. /\ UNCHANGED <<core, clock_user, sys>>
      /\ \A d \in Cores \ {c} : held'[d] = held[d]
  BY <1>2 DEF Round, threads, Hold
<1>6. CASE to = "NONE"
  <2>1. /\ pm' = [pm EXCEPT ![c] = p] /\ Return(c) /\ jobs' = jobs
        /\ past' = [past EXCEPT ![c] = @ \union Upset(c, to)]
    BY <1>6 DEF Round
  <2>2. \A d \in Cores : past[d] \subseteq past'[d] /\ ("failure" \in past'[d] <=> "failure" \in past[d])
    BY <1>2, <2>1, UpsetParts
  <2>3. (Splits(c) => "split" \in past'[c]) /\ (Busy(c, to) => "busy" \in past'[c])
    BY <1>2, <2>1, UpsetParts
  <2>4. FailureShared => FailureShared' BY <2>2 DEF FailureShared
  <2>5. pm'[c] = p /\ \A d \in Cores \ {c} : pm'[d] = pm[d] BY <1>2, <2>1
  <2>6. QED BY <1>3, <1>5, <1>6, <2>1, <2>2, <2>3, <2>4, <2>5
<1>7. CASE to # "NONE"
  <2>1. PICK ok \in BOOLEAN :
          /\ Transit(c, p, to, ok)
          /\ ok \in PowerOnMay(p.state, to)
          /\ jobs' = Reset(c, p.state, to, ok)
          /\ IF ok THEN UNCHANGED <<lock, event>> ELSE Return(c)
          /\ past' = [Failed(ok) EXCEPT ![c] = @ \union Upset(c, to)]
    BY <1>7 DEF Round, PowerOnMay
  <2>2. /\ \A d \in Cores : past[d] \subseteq past'[d]
        /\ Splits(c) => "split" \in past'[c]
        /\ Busy(c, to) => "busy" \in past'[c]
        /\ \A d \in Cores : "failure" \in past'[d] <=> "failure" \in past[d] \/ ~ok
    BY <1>2, <2>1, UpsetParts DEF Failed
  <2>3. FailureShared => FailureShared' BY <2>2 DEF FailureShared
  <2>4. Never(c, {"failure"})' => ok BY <2>2 DEF Never
  <2>5. \A d \in Cores \ {c} : pm'[d] = pm[d]
    BY <1>2, <2>1 DEF Transit
  <2>6. pm'[c].state = to
    BY <1>1, <1>3, <1>4, <1>7, <2>1, TransitEffect
  <2>7. /\ \A d \in Cores \ {c} : jobs'[d] = jobs[d]
        /\ jobs'[c] > 0 => jobs[c] > 0
    BY <1>2, <2>1 DEF Reset
  <2>8. to \in Clock /\ (s \in Clock => ~pm[c].clock_suspended) => ~pm'[c].clock_suspended
    BY <1>1, <1>3, <1>4, <1>7, <2>1, TransitEffect
  <2>9. Never(c, {"failure"})' =>
          /\ pm'[c].count = IF to = "RUN" THEN Inc(IF s = "RUN" THEN Dec(p.count) ELSE p.count)
                            ELSE (IF s = "RUN" THEN Dec(p.count) ELSE p.count)
          /\ pm'[c].idle = (pm[c].idle \/ TurnsOff(s, to))
          /\ UNCHANGED <<lock, event>>
    <3>1. ok \/ ~TurnsOn(p.state, to) =>
            /\ pm'[c].count = IF to = "RUN" THEN Inc(IF p.state = "RUN" THEN Dec(p.count) ELSE p.count)
                             ELSE (IF p.state = "RUN" THEN Dec(p.count) ELSE p.count)
            /\ pm'[c].idle = (p.idle \/ TurnsOff(p.state, to))
      BY <1>1, <1>3, <1>4, <1>7, <2>1, TransitEffect
    <3>2. QED BY <1>3, <2>1, <2>4, <3>1
  <2>10. UNCHANGED <<lock, event>> \/ Return(c) BY <2>1
  <2>11. QED BY <1>3, <1>4, <1>5, <1>7, <2>2, <2>3, <2>5, <2>6, <2>7, <2>8, <2>9, <2>10
<1>8. QED BY <1>6, <1>7

-----------------------------------------------------------------------------
(* The rounds.                                                             *)

(* What the invariant says of a core does not depend on more than this.    *)
SameRow(d) ==
  /\ pm'[d].state = pm[d].state /\ pm'[d].count = pm[d].count
  /\ pm'[d].idle = pm[d].idle /\ pm'[d].clock_suspended = pm[d].clock_suspended
  /\ lock'[d] = lock[d] /\ event'[d] = event[d] /\ core'[d] = core[d] /\ held'[d] = held[d]
  /\ jobs'[d] > 0 => jobs[d] > 0
  /\ past[d] \subseteq past'[d]

LEMMA PowerElsewhere ==
  ASSUME NEW d \in Cores, PowerAt(d), SameRow(d), sys' = sys,
         ClockInUse(d)' = ClockInUse(d)
  PROVE  PowerAt(d)'
<1> USE DEF SameRow
<1>1. \A S \in SUBSET Upsets : Never(d, S)' => Never(d, S) BY DEF Never
<1>2. HoldersAt(d)' BY DEF PowerAt, HoldersAt
<1>3. CountedAt(d)' BY <1>1 DEF PowerAt, CountedAt
<1>4. ReadyAt(d)' BY <1>1 DEF PowerAt, ReadyAt
<1>5. RunAt(d)' BY <1>1 DEF PowerAt, RunAt, Smooth, Abandoned
<1>6. AsleepAt(d)' BY <1>1 DEF PowerAt, AsleepAt, Suspended
<1>7. QED BY <1>2, <1>3, <1>4, <1>5, <1>6 DEF PowerAt

SameFailures == \A d \in Cores : "failure" \in past'[d] <=> "failure" \in past[d]

(* An action on the row of c alone. *)
LEMMA PowerHere ==
  ASSUME Powered, NEW c \in Cores, PowerAt(c)', SameFailures, sys' = sys,
         \A d \in Cores \ {c} : SameRow(d) /\ ClockInUse(d)' = ClockInUse(d)
  PROVE  Powered'
<1>1. \A d \in Cores \ {c} : PowerAt(d)' BY PowerElsewhere DEF Powered
<1>2. FailureShared' BY DEF Powered, FailureShared, SameFailures
<1>3. QED BY <1>1, <1>2 DEF Powered

(* An action that no part of the invariant is about. *)
LEMMA PowerKept ==
  ASSUME Powered, SameFailures, sys' = sys,
         \A d \in Cores : SameRow(d) /\ ClockInUse(d)' = ClockInUse(d)
  PROVE  Powered'
<1>1. \A d \in Cores : PowerAt(d)' BY PowerElsewhere DEF Powered
<1>2. FailureShared' BY DEF Powered, FailureShared, SameFailures
<1>3. QED BY <1>1, <1>2 DEF Powered

(* The lock and the event of a round. *)
LEMMA RoundCall ==
  ASSUME TypeInv, NEW c \in Cores, Round(c)
  PROVE  /\ event[c] # "none"
         /\ \A d \in Cores \ {c} : lock'[d] = lock[d] /\ event'[d] = event[d]
         /\ event'[c] \in {"none", event[c]}
         /\ event'[c] # "none" => lock'[c] = lock[c]
         /\ held'[c] = IF event[c] = "CLK_ON" /\ pm[c].state \in Clock
                       THEN held[c] \union {lock[c]}
                       ELSE IF event[c] = "CLK_OFF" THEN held[c] \ {lock[c]} ELSE held[c]
<1>1. /\ lock \in [Cores -> Owners] /\ event \in [Cores -> Events \union {"none"}]
      /\ held \in [Cores -> SUBSET Owners]
  BY DEF TypeInv, TypeOK
<1>2. event[c] # "none" BY DEF Round
<1>3. held'[c] = IF event[c] = "CLK_ON" /\ pm[c].state \in Clock
                 THEN held[c] \union {lock[c]}
                 ELSE IF event[c] = "CLK_OFF" THEN held[c] \ {lock[c]} ELSE held[c]
  BY <1>1 DEF Round, Hold, ClockOwner
<1>4. UNCHANGED <<lock, event>> \/ Return(c) BY RoundLocks
<1>5. QED BY <1>1, <1>2, <1>3, <1>4 DEF Return

LEMMA RoundHolders ==
  ASSUME TypeInv, NEW c \in Cores, HoldersAt(c), Round(c)
  PROVE  HoldersAt(c)'
<1>1. /\ UNCHANGED <<core, clock_user>>
      /\ event'[c] = "none" \/ (event'[c] = event[c] /\ lock'[c] = lock[c])
  BY RoundEffect, RoundCall
<1>2. ClockInUse(c)' = ClockInUse(c) BY <1>1 DEF ClockInUse
<1>3. CASE event[c] = "CLK_OFF"
  <2>1. held'[c] = held[c] \ {lock[c]} BY <1>3, RoundCall
  <2>2. QED BY <1>1, <1>2, <1>3, <2>1 DEF HoldersAt
<1>4. CASE event[c] = "CLK_ON"
  <2>1. held'[c] \in {held[c], held[c] \union {lock[c]}} BY <1>4, RoundCall
  <2>2. CASE event'[c] = "none" BY <1>1, <1>2, <1>4, <2>1, <2>2 DEF HoldersAt
  <2>3. CASE event'[c] = event[c] /\ lock'[c] = lock[c] /\ held'[c] = held[c]
    BY <1>1, <1>2, <1>4, <2>3 DEF HoldersAt
  <2>4. CASE event'[c] = event[c] /\ held'[c] # held[c]
    (* In a state of CLOCK the event asks for no transition. *)
    <3>1. pm[c].state \in Clock BY <1>4, <2>4, RoundCall
    <3>2. pm[c] \in Powers BY DEF TypeInv, TypeOK
    <3>3. Handled(pm[c], "CLK_ON") \in Powers /\ Handled(pm[c], "CLK_ON").state = pm[c].state
      BY <3>2, HandledType
    <3>4. Target(Handled(pm[c], "CLK_ON"), "CLK_ON", jobs[c] = 0) = "NONE"
      BY <3>1, <3>3, TargetCases
    <3>5. Return(c) BY <1>4, <3>4, RoundEffect
    <3>6. event'[c] = "none" BY <3>5 DEF Return, TypeInv, TypeOK
    <3>7. QED BY <1>4, <2>4, <3>6
  <2>5. QED BY <1>1, <2>2, <2>3, <2>4
<1>5. CASE event[c] \notin {"CLK_ON", "CLK_OFF"}
  <2>1. held'[c] = held[c] BY <1>5, RoundCall
  <2>2. QED BY <1>1, <1>2, <1>5, <2>1 DEF HoldersAt
<1>6. QED BY <1>3, <1>4, <1>5

(* The heart of the count: unless the round upsets the core, the event is  *)
(* counted exactly when it changes the holders.                            *)
LEMMA RoundCounts ==
  ASSUME TypeInv, NEW c \in Cores, HoldersAt(c), CountedAt(c), Round(c),
         Never(c, {"split", "failure"})'
  PROVE  /\ Counted(pm[c], event[c]) = Uses(held'[c], pm[c].state)
         /\ held'[c] \in SUBSET {"clock"}
<1> DEFINE s == pm[c].state
<1>1. Never(c, {"split", "failure"}) /\ ~Splits(c) BY RoundEffect DEF Never
<1>2. pm[c].count = Uses(held[c], s) BY <1>1 DEF CountedAt
<1>3. held[c] \in SUBSET {"clock"} BY DEF HoldersAt
<1>4. CASE event[c] = "CLK_ON"
  <2>1. lock[c] = "clock" /\ "clock" \notin held[c] BY <1>4 DEF HoldersAt
  <2>2. CASE s \in Clock
    <3>1. held'[c] = held[c] \union {lock[c]} BY <1>4, <2>2, RoundCall
    <3>2. Counted(pm[c], event[c]) = Inc(pm[c].count) BY <1>4, <2>2 DEF Counted
    <3>3. Uses(held[c], s) \in 0 .. 1 /\ Uses(held'[c], s) = Uses(held[c], s) + 1
      <4>1. /\ Uses(held[c], s) \in 0 .. 1
            /\ Uses(held[c] \union {lock[c]}, s) = Uses(held[c], s) + 1
        BY <1>3, <2>1, UsesRange
      <4>2. QED BY <3>1, <4>1
    <3>4. QED BY <1>2, <1>3, <2>1, <3>1, <3>2, <3>3, SmallCounts
  <2>3. CASE s \notin Clock
    <3>1. held'[c] = held[c] BY <1>4, <2>3, RoundCall
    <3>2. QED BY <1>2, <1>3, <2>3, <3>1 DEF Counted
  <2>4. QED BY <2>2, <2>3
<1>5. CASE event[c] = "CLK_OFF"
  <2>1. lock[c] = "clock" BY <1>5 DEF HoldersAt
  <2>2. held'[c] = held[c] \ {lock[c]} BY <1>5, RoundCall
  <2>3. lock[c] \in held[c] <=> s \in Clock BY <1>1, <1>5 DEF Splits
  <2>4. CASE s \in Clock
    <3>1. Counted(pm[c], event[c]) = Dec(pm[c].count) BY <1>5, <2>4 DEF Counted
    <3>2. Uses(held[c], s) \in 1 .. 2 /\ Uses(held'[c], s) = Uses(held[c], s) - 1
      <4>1. /\ Uses(held[c], s) \in 1 .. 2
            /\ Uses(held[c] \ {lock[c]}, s) = Uses(held[c], s) - 1
        BY <1>3, <2>1, <2>3, <2>4, UsesRange
      <4>2. QED BY <2>2, <4>1
    <3>3. QED BY <1>2, <1>3, <2>2, <3>1, <3>2, SmallCounts
  <2>5. CASE s \notin Clock
    <3>1. held'[c] = held[c] BY <2>2, <2>3, <2>5
    <3>2. QED BY <1>2, <1>3, <2>5, <3>1 DEF Counted
  <2>6. QED BY <2>4, <2>5
<1>6. CASE event[c] \notin {"CLK_ON", "CLK_OFF"}
  <2>1. held'[c] = held[c] BY <1>6, RoundCall
  <2>2. QED BY <1>2, <1>3, <1>6, <2>1 DEF Counted
<1>7. QED BY <1>4, <1>5, <1>6

(* The moves of a core without an upset; in RUN the count is never 0.      *)
LEMMA RoundMoves ==
  ASSUME TypeInv, NEW c \in Cores, HoldersAt(c), CountedAt(c), Round(c),
         Never(c, {"split", "failure"})'
  PROVE  LET s == pm[c].state
             t == pm'[c].state
             e == event[c]
             n == Uses(held'[c], s)
         IN  /\ \/ s = t /\ pm'[c].count = n /\ pm'[c].idle = pm[c].idle /\ Return(c)
                   /\ Target(Handled(pm[c], e), e, jobs[c] = 0) = "NONE"
                \/ s = "OFF" /\ t = "IDLE" /\ pm'[c].count = n /\ e \in {"USR_ON", "ON"}
                \/ s = "IDLE" /\ t = "OFF" /\ pm'[c].count = n /\ e \in {"USR_OFF", "OFF"}
                \/ s = "IDLE" /\ t = "READY" /\ pm'[c].count = n /\ e = "CLK_ON"
                \/ /\ s \in {"IDLE", "READY"} /\ t = "RUN" /\ pm'[c].count = Inc(n) /\ e = "RUN"
                   /\ pm'[c].idle = pm[c].idle
                \/ /\ s = "READY" /\ t = "IDLE" /\ pm'[c].count = n /\ n = 0
                   /\ e \in {"CLK_OFF", "END"}
                \/ s = "RUN" /\ t = "READY" /\ pm'[c].count = Dec(n) /\ e = "END" /\ jobs[c] = 0
             /\ s # t => UNCHANGED <<lock, event>>
<1> DEFINE s == pm[c].state
           e == event[c]
           n == Uses(held'[c], s)
           p == Handled(pm[c], e)
           to == Target(p, e, jobs[c] = 0)
<1>1. e \in Events /\ pm[c] \in Powers BY DEF Round, TypeInv, TypeOK
<1>2. p \in Powers /\ p.state = s /\ p.count = Counted(pm[c], e)
  BY <1>1, HandledType, HandledFields
<1>3. Counted(pm[c], e) = n /\ held'[c] \in SUBSET {"clock"} BY RoundCounts
<1>4. s = "RUN" => n # 0 BY DEF Uses, One
<1>5. Never(c, {"failure"})' BY DEF Never
<1>6. CASE to = "NONE" BY <1>3, <1>6, RoundEffect
<1>7. CASE to # "NONE"
  <2>1. /\ pm'[c].state = to
        /\ pm'[c].count = IF to = "RUN" THEN Inc(IF s = "RUN" THEN Dec(n) ELSE n)
                          ELSE (IF s = "RUN" THEN Dec(n) ELSE n)
        /\ pm'[c].idle = (pm[c].idle \/ TurnsOff(s, to))
        /\ UNCHANGED <<lock, event>>
    BY <1>3, <1>5, <1>7, RoundEffect
  <2>2. \/ s = "OFF" /\ to = "IDLE" /\ e \in {"USR_ON", "ON"}
        \/ s = "IDLE" /\ to = "OFF" /\ e \in {"USR_OFF", "OFF"}
        \/ s = "IDLE" /\ to = "READY" /\ e = "CLK_ON"
        \/ s \in {"IDLE", "READY"} /\ to = "RUN" /\ e = "RUN"
        \/ s \in Clock /\ to = "IDLE" /\ e \in {"CLK_OFF", "END"} /\ n = 0
        \/ s = "RUN" /\ to = "READY" /\ e = "END" /\ jobs[c] = 0
    BY <1>1, <1>2, <1>3, <1>7 DEF Target, Powers
  <2>3. s \in {"IDLE", "READY"} /\ to = "RUN" => pm'[c].idle = pm[c].idle
    <3>1. s \in {"IDLE", "READY"} /\ to = "RUN" => ~TurnsOff(s, to) BY DEF TurnsOff
    <3>2. pm[c].idle \in BOOLEAN BY <1>1 DEF Powers
    <3>3. QED BY <2>1, <3>1, <3>2
  <2> HIDE DEF to, n
  <2>4. QED BY <1>4, <2>1, <2>2, <2>3 DEF n, s, e
<1>8. QED BY <1>6, <1>7

LEMMA RoundCounted ==
  ASSUME TypeInv, NEW c \in Cores, HoldersAt(c), CountedAt(c), Round(c)
  PROVE  CountedAt(c)'
<1> SUFFICES ASSUME Never(c, {"split", "failure"})'
             PROVE  pm'[c].count = Uses(held'[c], pm'[c].state)
  BY DEF CountedAt
<1> DEFINE s == pm[c].state
           t == pm'[c].state
           n == Uses(held'[c], s)
<1>1. held'[c] \in SUBSET {"clock"} BY RoundCounts
<1>2. \/ pm'[c].count = n /\ (s = "RUN" <=> t = "RUN")
      \/ pm'[c].count = Inc(n) /\ s # "RUN" /\ t = "RUN"
      \/ pm'[c].count = Dec(n) /\ s = "RUN" /\ t # "RUN"
  BY RoundMoves
<1>3. Uses(held'[c], t) = n + One(t = "RUN") - One(s = "RUN")
  BY DEF Uses, One
<1>4. n \in 0 .. 2 /\ (s = "RUN" => n \in 1 .. 2) /\ (s # "RUN" => n \in 0 .. 1)
  BY <1>1 DEF Uses, One
<1> HIDE DEF s, t, n
<1>5. QED BY <1>2, <1>3, <1>4, SmallCounts DEF One, t

LEMMA RoundReady ==
  ASSUME TypeInv, NEW c \in Cores, LockedAt(c), HoldersAt(c), CountedAt(c), ReadyAt(c), Round(c)
  PROVE  ReadyAt(c)'
<1> DEFINE s == pm[c].state
           t == pm'[c].state
           e == event[c]
<1>1. \A S \in SUBSET Upsets : Never(c, S)' => Never(c, S) BY RoundEffect DEF Never
<1>2. core[c].pc # "trigger" /\ core' = core /\ sys' = sys
  BY RoundCall, RoundEffect DEF LockedAt
<1>3. t \in Clock => ~pm'[c].clock_suspended BY RoundEffect DEF ReadyAt
<1>4. sys'.pc # "awake" => "suspend" \in past'[c]
  BY <1>2, RoundEffect DEF ReadyAt
<1>5. ASSUME Never(c, {"split", "failure"})'
      PROVE  /\ held'[c] # {} => t \in Clock
             /\ Never(c, {"split", "failure", "suspend"})' => (jobs'[c] > 0 => t = "RUN")
  <2>1. Never(c, {"split", "failure"}) BY <1>1, <1>5
  <2>2. Never(c, {"split", "failure", "suspend"})' => Never(c, {"split", "failure", "suspend"})
    BY <1>1
  <2>3. /\ held[c] # {} => s \in Clock
        /\ Never(c, {"split", "failure", "suspend"}) => (jobs[c] > 0 => s = "RUN")
    BY <2>1 DEF ReadyAt
  <2>4. held'[c] # {} => s \in Clock BY <2>3, RoundCall
  <2>5. held'[c] \in SUBSET {"clock"} BY <1>5, RoundCounts
  <2>6. Uses(held'[c], s) = 0 => held'[c] = {} BY <2>5, UsesRange
  <2>7. jobs'[c] > 0 => jobs[c] > 0 BY RoundEffect
  <2>8. \/ s = t
        \/ s \in {"OFF", "IDLE"}
        \/ s = "READY" /\ (t \in Clock \/ Uses(held'[c], s) = 0)
        \/ s = "RUN" /\ t = "READY" /\ ~(jobs[c] > 0)
    BY <1>5, RoundMoves
  <2>9. QED BY <2>2, <2>3, <2>4, <2>6, <2>7, <2>8
<1>6. Never(c, {"split", "failure", "suspend"})' => Never(c, {"split", "failure"})' BY DEF Never
<1>7. QED BY <1>2, <1>3, <1>4, <1>5, <1>6 DEF ReadyAt

(* RUN is entered by the event RUN alone, and left by an END that finds    *)
(* the hardware idle, whatever the count.                                  *)
LEMMA RoundRuns ==
  ASSUME TypeInv, NEW c \in Cores, Round(c)
  PROVE  LET s == pm[c].state
             t == pm'[c].state
         IN  /\ \/ s = t /\ pm'[c].idle = pm[c].idle
                \/ s # "RUN" /\ t = "RUN" /\ event[c] = "RUN"
                \/ t # "RUN"
             /\ s = "RUN" /\ t = "RUN" /\ event[c] = "END" => "busy" \in past'[c]
<1> DEFINE s == pm[c].state
           e == event[c]
           p == Handled(pm[c], e)
           to == Target(p, e, jobs[c] = 0)
<1>1. e \in Events /\ pm[c] \in Powers BY DEF Round, TypeInv, TypeOK
<1>2. p \in Powers /\ p.state = s BY <1>1, HandledType, HandledFields
<1>3. CASE to = "NONE"
  <2>1. s = "RUN" /\ e = "END" => "busy" \in past'[c] BY <1>3, RoundEffect DEF Busy
  <2>2. QED BY <1>3, <2>1, RoundEffect
<1>4. CASE to # "NONE"
  <2>1. pm'[c].state = to BY <1>4, RoundEffect
  <2>2. to = "RUN" => e = "RUN" /\ s # "RUN" BY <1>1, <1>2, <1>4, TargetCases
  <2>3. QED BY <2>1, <2>2
<1>5. QED BY <1>3, <1>4

LEMMA RoundRun ==
  ASSUME TypeInv, NEW c \in Cores, RunAt(c), Round(c)
  PROVE  RunAt(c)'
<1> DEFINE s == pm[c].state
           t == pm'[c].state
           e == event[c]
<1>1. core' = core /\ past[c] \subseteq past'[c] BY RoundEffect
<1>2. event'[c] = "none" \/ (event'[c] = e /\ lock'[c] = lock[c]) BY RoundCall
<1>3. event'[c] = "END" => lock'[c] = "core" BY <1>2 DEF RunAt
<1>4. ASSUME Smooth(c)'
      PROVE  /\ core[c].pc \in {"trigger", "wait", "irq", "idle"} /\ t = "RUN" => ~pm'[c].idle
             /\ t = "RUN" =>
                  \/ core[c].pc \in {"submitted", "trigger", "wait", "irq", "idle", "hw_idle"}
                  \/ Abandoned(c)'
             /\ Smooth(c)
  <2>1. "busy" \notin past'[c] BY <1>4 DEF Smooth, Never
  <2>2. Smooth(c) BY <1>1, <1>4 DEF Smooth, Never
  <2>3. /\ e = "RUN" => core[c].pc = "submitted"
        /\ core[c].pc \in {"trigger", "wait", "irq", "idle"} /\ s = "RUN" => ~pm[c].idle
        /\ s = "RUN" =>
             \/ core[c].pc \in {"submitted", "trigger", "wait", "irq", "idle", "hw_idle"}
             \/ core[c].pc = "user_off" /\ e = "END"
             \/ Abandoned(c)
    BY <2>2 DEF RunAt
  <2>4. \/ s = t /\ pm'[c].idle = pm[c].idle
        \/ t = "RUN" /\ e = "RUN"
        \/ t # "RUN"
    BY RoundRuns
  (* END that finds the hardware idle takes a core out of RUN. *)
  <2>5. s = "RUN" /\ t = "RUN" => e # "END" BY <2>1, RoundRuns
  <2>6. pm'[c].idle = pm[c].idle /\ Abandoned(c) => Abandoned(c)' BY <1>1 DEF Abandoned
  <2>7. QED BY <2>2, <2>3, <2>4, <2>5, <2>6
<1>5. QED BY <1>1, <1>2, <1>3, <1>4 DEF RunAt

LEMMA RoundAsleep ==
  ASSUME TypeInv, NEW c \in Cores, LockedAt(c), AsleepAt(c), Round(c)
  PROVE  AsleepAt(c)'
<1>1. /\ UNCHANGED <<clock_user, sys>>
      /\ Never(c, {"split", "failure"})' => Never(c, {"split", "failure"})
  BY RoundEffect DEF Never
<1>2. /\ event[c] # "none" /\ event'[c] \in {"none", event[c]}
      /\ ~(event[c] = "CLK_ON" /\ pm[c].state \in Clock) => held'[c] \subseteq held[c]
  BY RoundCall
<1>3. ASSUME pm[c].state = "SUSPEND" PROVE pm'[c].state = "SUSPEND"
  <2>1. Handled(pm[c], event[c]) \in Powers /\ Handled(pm[c], event[c]).state = "SUSPEND"
    BY <1>3, HandledType DEF Round, TypeInv, TypeOK
  <2>2. event[c] \in Events BY DEF Round, TypeInv, TypeOK
  <2>3. Target(Handled(pm[c], event[c]), event[c], jobs[c] = 0) = "NONE"
    BY <2>1, <2>2, TargetCases
  <2>4. QED BY <1>3, <2>3, RoundEffect
<1>4. sys.pc # "awake" => ~(event[c] = "CLK_ON" /\ pm[c].state \in Clock)
  <2>1. sys \in Suspensions BY DEF TypeInv, TypeOK
  <2>2. CASE sys.who = "system" BY <2>2 DEF AsleepAt
  <2>3. CASE sys.who = "debugfs" /\ sys.pc \in {"suspend", "resume"}
    BY <1>2, <2>3 DEF LockedAt
  <2>4. CASE sys.pc = "asleep" BY <2>4 DEF AsleepAt, Suspended
  <2>5. QED BY <2>1, <2>2, <2>3, <2>4 DEF Suspensions
<1>5. ClockInUse(c)' = ClockInUse(c) /\ Suspended(c)' = Suspended(c)
  BY <1>1 DEF ClockInUse, Suspended
<1>6. QED BY <1>1, <1>2, <1>3, <1>4, <1>5 DEF AsleepAt

LEMMA RoundPowered ==
  ASSUME TypeInv, Locked, Powered, NEW c \in Cores, Round(c)
  PROVE  Powered'
<1>1. /\ HoldersAt(c) /\ CountedAt(c) /\ ReadyAt(c) /\ RunAt(c) /\ AsleepAt(c)
      /\ LockedAt(c) /\ FailureShared
  BY DEF Powered, PowerAt, Locked
<1>2. PowerAt(c)'
  BY <1>1, RoundHolders, RoundCounted, RoundReady, RoundRun, RoundAsleep DEF PowerAt
<1>3. ASSUME NEW d \in Cores \ {c} PROVE PowerAt(d)'
  <2>1. /\ pm'[d] = pm[d] /\ jobs'[d] = jobs[d] /\ held'[d] = held[d] /\ past[d] \subseteq past'[d]
        /\ UNCHANGED <<core, clock_user, sys>>
    BY RoundEffect
  <2>2. lock'[d] = lock[d] /\ event'[d] = event[d] BY RoundCall
  <2>3. ClockInUse(d)' = ClockInUse(d) BY <2>1 DEF ClockInUse
  <2>4. QED BY <2>1, <2>2, <2>3, PowerElsewhere DEF Powered, SameRow
<1>4. FailureShared' BY <1>1, RoundEffect
<1>5. QED BY <1>2, <1>3, <1>4 DEF Powered

-----------------------------------------------------------------------------
(* The timer, the power thread, the hardware and the users.                *)

LEMMA SendRows ==
  ASSUME TypeInv, NEW c \in Cores, NEW owner \in Owners, NEW e \in Events, Send(c, owner, e)
  PROVE  /\ event[c] = "none" /\ lock'[c] = owner /\ event'[c] = e
         /\ owner # "core" => lock[c] = "none"
         /\ \A d \in Cores \ {c} : lock'[d] = lock[d] /\ event'[d] = event[d]
BY DEF Send, TypeInv, TypeOK

LEMMA TimerFiresPowered ==
  ASSUME TypeInv, Powered, NEW c \in Cores, TimerFires(c)
  PROVE  Powered'
<1>1. pm \in [Cores -> Powers] /\ past \in [Cores -> SUBSET Upsets] BY DEF TypeInv, TypeOK
<1>2. \A q \in Powers : LET r == [q EXCEPT !.timer = FALSE]
                        IN  /\ r.state = q.state /\ r.count = q.count /\ r.idle = q.idle
                            /\ r.clock_suspended = q.clock_suspended
  BY DEF Powers
<1>3. pm' = [pm EXCEPT ![c].timer = FALSE] BY DEF TimerFires
<1>4. ASSUME NEW d \in Cores
      PROVE  /\ pm'[d].state = pm[d].state /\ pm'[d].count = pm[d].count
             /\ pm'[d].idle = pm[d].idle /\ pm'[d].clock_suspended = pm[d].clock_suspended
  BY <1>1, <1>2, <1>3
<1>5. \A d \in Cores : past[d] \subseteq past'[d] /\ ("failure" \in past'[d] <=> "failure" \in past[d])
  BY <1>1 DEF TimerFires
<1>6. UNCHANGED <<lock, event, core, clock_user, sys, jobs, held>>
  BY DEF TimerFires, threads, work
<1>7. QED BY <1>4, <1>5, <1>6, PowerKept DEF SameRow, SameFailures, ClockInUse

(* What neither starts nor ends a call, nor touches the hardware. *)
LEMMA QuietPowered ==
  ASSUME Powered, UNCHANGED <<pm, lock, event, core, clock_user, sys, jobs, held, past>>
  PROVE  Powered'
BY PowerKept DEF SameRow, SameFailures, ClockInUse

(* The power thread and the user send events that neither hold the clock   *)
(* nor begin or end a run. *)
LEMMA SendPowered ==
  ASSUME TypeInv, Locked, Powered, NEW c \in Cores, NEW owner \in {"pm", "user"},
         NEW e \in Events \ {"CLK_ON", "CLK_OFF", "RUN", "END"}, Send(c, owner, e),
         UNCHANGED <<pm, core, clock_user, sys, jobs, held, past>>
  PROVE  Powered'
<1>1. /\ event[c] = "none" /\ event'[c] = e
      /\ \A d \in Cores \ {c} : lock'[d] = lock[d] /\ event'[d] = event[d]
  BY SendRows
<1>2. HoldersAt(c) /\ CountedAt(c) /\ ReadyAt(c) /\ RunAt(c) /\ AsleepAt(c)
  BY DEF Powered, PowerAt
<1>3. HoldersAt(c)' BY <1>1, <1>2 DEF HoldersAt, ClockInUse
<1>4. CountedAt(c)' /\ ReadyAt(c)' BY <1>2 DEF CountedAt, ReadyAt, Never
<1>5. RunAt(c)' BY <1>1, <1>2 DEF RunAt, Smooth, Never, Abandoned
<1>6. AsleepAt(c)' BY <1>1, <1>2 DEF AsleepAt, Suspended, ClockInUse, Never
<1>7. QED
  BY <1>1, <1>3, <1>4, <1>5, <1>6, PowerHere DEF PowerAt, SameRow, SameFailures, ClockInUse

LEMMA HardwareDonePowered ==
  ASSUME TypeInv, Powered, NEW c \in Cores, HardwareDone(c)
  PROVE  Powered'
<1>1. jobs \in [Cores -> Nat] BY DEF TypeInv, TypeOK
<1>2. UNCHANGED <<pm, lock, event, core, clock_user, sys, held, past>>
  BY DEF HardwareDone, threads, history
<1>3. \A d \in Cores : jobs'[d] > 0 => jobs[d] > 0 BY <1>1 DEF HardwareDone
<1>4. QED BY <1>2, <1>3, PowerKept DEF SameRow, SameFailures, ClockInUse

(* A cancel raises the flag of the interrupt, or marks the task. *)
LEMMA CancelPowered ==
  ASSUME Powered, NEW c \in Cores, Cancel(c)
  PROVE  Powered'
BY QuietPowered DEF Cancel, threads, history

LEMMA UserSendPowered ==
  ASSUME TypeInv, Locked, Powered, NEW c \in Cores, NEW e \in UserEvents, UserSend(c, e)
  PROVE  Powered'
<1>1. e \in Events \ {"CLK_ON", "CLK_OFF", "RUN", "END"} BY PowerAssumption DEF PowerAssumption
<1>2. /\ Send(c, "user", e)
      /\ UNCHANGED <<pm, core, clock_user, sys, jobs, held, past>>
  BY DEF UserSend, threads, work, history
<1>3. QED BY <1>1, <1>2, SendPowered

LEMMA PmNextPowered ==
  ASSUME TypeInv, Locked, Powered, NEW c \in Cores, PmNext(c)
  PROVE  Powered'
<1>1. CASE PmWake(c) BY <1>1, QuietPowered DEF PmWake, work, history
<1>2. CASE PmSend(c)
  <2>1. /\ Send(c, "pm", "OFF")
        /\ UNCHANGED <<pm, core, clock_user, sys, jobs, held, past>>
    BY <1>2 DEF PmSend, work, history
  <2>2. QED BY <2>1, SendPowered
<1>3. QED BY <1>1, <1>2 DEF PmNext

(* The reader asks for the clock and gives it back, once each. *)
LEMMA ClockOnPowered ==
  ASSUME TypeInv, Locked, Powered, NEW c \in Cores, ClockOn(c)
  PROVE  Powered'
<1>1. /\ Send(c, "clock", "CLK_ON")
      /\ clock_user.pc = "out" /\ clock_user' = [pc |-> "query", core |-> c]
      /\ Thawed
      /\ UNCHANGED <<pm, core, sys, jobs, held, past>>
  BY DEF ClockOn, ClockKeeps, work, history
<1>2. /\ event[c] = "none" /\ event'[c] = "CLK_ON" /\ lock'[c] = "clock"
      /\ \A d \in Cores \ {c} : lock'[d] = lock[d] /\ event'[d] = event[d]
  BY <1>1, SendRows
<1>3. HoldersAt(c) /\ CountedAt(c) /\ ReadyAt(c) /\ RunAt(c) /\ AsleepAt(c)
  BY DEF Powered, PowerAt
<1>4. /\ \A d \in Cores : ~ClockInUse(d)
      /\ ClockInUse(c)' /\ \A d \in Cores \ {c} : ~ClockInUse(d)'
  BY <1>1 DEF ClockInUse
<1>5. HoldersAt(c)' BY <1>1, <1>2, <1>3, <1>4 DEF HoldersAt
<1>6. CountedAt(c)' /\ ReadyAt(c)' BY <1>1, <1>3 DEF CountedAt, ReadyAt, Never
<1>7. RunAt(c)' BY <1>1, <1>2, <1>3 DEF RunAt, Smooth, Never, Abandoned
<1>8. \A d \in Cores \ {c} : SameRow(d) /\ ClockInUse(d)' = ClockInUse(d)
  BY <1>1, <1>2 DEF SameRow, ClockInUse
<1>9. SameFailures BY <1>1 DEF SameFailures
<1>10. AsleepAt(c)'
  <2>1. sys' = sys /\ (sys.pc = "awake" \/ sys.who # "system") BY <1>1 DEF Thawed
  <2>2. QED BY <1>1, <1>3, <2>1 DEF AsleepAt, Suspended, Never
<1>11. QED BY <1>1, <1>5, <1>6, <1>7, <1>8, <1>9, <1>10, PowerHere DEF PowerAt

LEMMA ClockNextPowered ==
  ASSUME TypeInv, Locked, Powered, ClockNext
  PROVE  Powered'
<1>1. clock_user \in ClockUsers BY DEF TypeInv, TypeOK
<1>2. UNCHANGED <<pm, core, sys, jobs, held, past>> /\ clock_user'.core = clock_user.core
  BY <1>1 DEF ClockNext, ClockQuery, ClockRead, ClockOff, ClockKeeps, ClockGoes, ClockUsers, work,
              history
<1>3. CASE ClockQuery \/ ClockRead
  <2>1. /\ UNCHANGED <<lock, event>>
        /\ clock_user.pc # "out" /\ clock_user'.pc # "out"
    BY <1>1, <1>3 DEF ClockQuery, ClockRead, ClockGoes, ClockUsers
  <2>2. QED BY <1>2, <2>1, PowerKept DEF SameRow, SameFailures, ClockInUse
<1>4. CASE ClockOff
  <2> DEFINE c == clock_user.core
  <2>1. /\ c \in Cores /\ Send(c, "clock", "CLK_OFF")
        /\ clock_user.pc = "off" /\ clock_user'.pc = "out" /\ Thawed
    BY <1>1, <1>4 DEF ClockOff, ClockGoes, ClockUsers
  <2>2. /\ event[c] = "none" /\ event'[c] = "CLK_OFF" /\ lock'[c] = "clock"
        /\ \A d \in Cores \ {c} : lock'[d] = lock[d] /\ event'[d] = event[d]
    BY <2>1, SendRows
  <2>3. HoldersAt(c) /\ CountedAt(c) /\ ReadyAt(c) /\ RunAt(c) /\ AsleepAt(c)
    BY <2>1 DEF Powered, PowerAt
  <2>4. /\ ClockInUse(c) /\ \A d \in Cores \ {c} : ~ClockInUse(d)
        /\ \A d \in Cores : ~ClockInUse(d)'
    BY <2>1 DEF ClockInUse
  <2>5. ASSUME NEW b \in Cores, b = c PROVE PowerAt(b)'
    <3>1. HoldersAt(b)' BY <1>2, <2>2, <2>3, <2>4, <2>5 DEF HoldersAt
    <3>2. CountedAt(b)' /\ ReadyAt(b)' BY <1>2, <2>3, <2>5 DEF CountedAt, ReadyAt, Never
    <3>3. RunAt(b)' BY <1>2, <2>2, <2>3, <2>5 DEF RunAt, Smooth, Never, Abandoned
    <3>4. sys' = sys /\ (sys.pc = "awake" \/ sys.who # "system") BY <1>2, <2>1 DEF Thawed
    <3>5. AsleepAt(b)' BY <1>2, <2>3, <2>5, <3>4 DEF AsleepAt, Suspended, Never
    <3>6. QED BY <3>1, <3>2, <3>3, <3>5 DEF PowerAt
  <2>6. PICK b \in Cores : b = c BY <2>1
  <2>7. \A d \in Cores \ {b} : SameRow(d) /\ ClockInUse(d)' = ClockInUse(d)
    BY <1>2, <2>1, <2>2, <2>6 DEF SameRow, ClockInUse
  <2>8. SameFailures BY <1>2 DEF SameFailures
  <2>9. QED BY <1>2, <2>5, <2>6, <2>7, <2>8, PowerHere
<1>5. QED BY <1>3, <1>4 DEF ClockNext

-----------------------------------------------------------------------------
(* The thread of a core.                                                   *)

(* What it leaves alone. *)
LEMMA CoreFrame ==
  ASSUME TypeInv, NEW c \in Cores, CoreNext(c)
  PROVE  /\ \A d \in Cores \ {c} : SameRow(d)
         /\ UNCHANGED <<clock_user, sys>> /\ SameFailures
         /\ pm'[c].state = pm[c].state /\ pm'[c].count = pm[c].count
         /\ pm'[c].clock_suspended = pm[c].clock_suspended
         /\ held'[c] = held[c] /\ past[c] \subseteq past'[c]
         /\ jobs'[c] > 0 => jobs[c] > 0 \/ core[c].pc = "trigger"
<1>1. /\ pm \in [Cores -> Powers] /\ past \in [Cores -> SUBSET Upsets]
      /\ jobs \in [Cores -> Nat]
  BY DEF TypeInv, TypeOK
<1>2. UNCHANGED <<clock_user, held>>
  BY DEF CoreNext, CoreTake, CoreCheck, CoreReset, CoreResumed, CoreRelock, CoreSubmit,
         CoreSubmitted, CoreTrigger, CoreWait, CoreIrq, CoreTimeOut, CoreIdle, CoreSend,
         CoreUserOff, CoreEnd, CoreKeeps, history
<1>3. \/ past' = past
      \/ past' = [past EXCEPT ![c] = @ \union {"timeout"}]
  BY DEF CoreNext, CoreTake, CoreCheck, CoreReset, CoreResumed, CoreRelock, CoreSubmit,
         CoreSubmitted, CoreTrigger, CoreWait, CoreIrq, CoreTimeOut, CoreIdle, CoreSend,
         CoreUserOff, CoreEnd, CoreKeeps, history
<1>4. \/ jobs' = jobs
      \/ jobs' = [jobs EXCEPT ![c] = @ + 1] /\ core[c].pc = "trigger"
  BY DEF CoreNext, CoreTake, CoreCheck, CoreReset, CoreResumed, CoreRelock, CoreSubmit,
         CoreSubmitted, CoreTrigger, CoreWait, CoreIrq, CoreTimeOut, CoreIdle, CoreSend,
         CoreUserOff, CoreEnd, CoreKeeps, work
<1>5. \/ pm' = pm
      \/ \E b \in BOOLEAN : pm' = [pm EXCEPT ![c].idle = b]
  BY DEF CoreNext, CoreTake, CoreCheck, CoreReset, CoreResumed, CoreRelock, CoreSubmit,
         CoreSubmitted, CoreTrigger, CoreWait, CoreIrq, CoreTimeOut, CoreIdle, CoreSend,
         CoreUserOff, CoreEnd, CoreKeeps
<1>6. /\ \A d \in Cores \ {c} : pm'[d] = pm[d]
      /\ pm'[c].state = pm[c].state /\ pm'[c].count = pm[c].count
      /\ pm'[c].clock_suspended = pm[c].clock_suspended
  <2>1. \A q \in Powers, b \in BOOLEAN :
          LET r == [q EXCEPT !.idle = b]
          IN  r.state = q.state /\ r.count = q.count /\ r.clock_suspended = q.clock_suspended
    BY DEF Powers
  <2>2. CASE pm' = pm BY <2>2
  <2>3. ASSUME NEW b \in BOOLEAN, pm' = [pm EXCEPT ![c].idle = b]
        PROVE  /\ \A d \in Cores \ {c} : pm'[d] = pm[d]
               /\ pm'[c].state = pm[c].state /\ pm'[c].count = pm[c].count
               /\ pm'[c].clock_suspended = pm[c].clock_suspended
    BY <1>1, <2>1, <2>3
  <2>4. QED BY <1>5, <2>2, <2>3
<1>7. /\ \A d \in Cores \ {c} : jobs'[d] = jobs[d]
      /\ \A d \in Cores \ {c} : past'[d] = past[d]
      /\ past[c] \subseteq past'[c] /\ SameFailures
      /\ jobs'[c] > 0 => jobs[c] > 0 \/ core[c].pc = "trigger"
  BY <1>1, <1>3, <1>4 DEF SameFailures
<1>8. /\ \A d \in Cores \ {c} : /\ lock'[d] = lock[d] /\ event'[d] = event[d]
                                /\ core'[d] = core[d]
      /\ sys' = sys
  BY CoreElsewhere
<1>9. QED BY <1>2, <1>6, <1>7, <1>8 DEF SameRow

(* The calls of the thread: it neither asks for the clock nor gives it back. *)
LEMMA CoreCalls ==
  ASSUME TypeInv, NEW c \in Cores, LockedAt(c), CoreNext(c)
  PROVE  \/ event'[c] = "none" /\ event[c] = "none"
         \/ event'[c] = event[c] /\ lock'[c] = lock[c]
         \/ event[c] = "none" /\ event'[c] \in {"ON", "RUN", "END", "USR_OFF"}
<1>1. /\ lock \in [Cores -> Owners] /\ event \in [Cores -> Events \union {"none"}]
      /\ core \in [Cores -> CoreThreads]
  BY DEF TypeInv, TypeOK
<1>2. \A e \in {"ON", "RUN", "END", "USR_OFF"} : Send(c, "core", e) =>
        event[c] = "none" /\ event'[c] \in {"ON", "RUN", "END", "USR_OFF"}
  BY <1>1 DEF Send
<1>3. CASE CoreTake(c) BY <1>1, <1>3 DEF CoreTake, LockedAt
<1>4. CASE CoreCheck(c) BY <1>1, <1>2, <1>4 DEF CoreCheck, LockedAt
<1>5. CASE CoreRelock(c) \/ CoreSend(c) BY <1>2, <1>5 DEF CoreRelock, CoreSend
<1>6. CASE CoreSubmit(c) BY <1>1, <1>2, <1>6 DEF CoreSubmit, CoreFails
<1>7. CASE CoreSubmitted(c) BY <1>1, <1>7 DEF CoreSubmitted, CoreFails
<1>8. CASE CoreTrigger(c) BY <1>1, <1>8 DEF CoreTrigger, LockedAt
<1>9. CASE CoreUserOff(c) BY <1>1, <1>2, <1>9 DEF CoreUserOff
<1>10. CASE \/ CoreReset(c) \/ CoreResumed(c) \/ CoreWait(c) \/ CoreIrq(c) \/ CoreTimeOut(c)
            \/ CoreIdle(c) \/ CoreEnd(c)
  BY <1>10 DEF CoreReset, CoreResumed, CoreWait, CoreIrq, CoreTimeOut, CoreIdle, CoreEnd
<1>11. QED
  BY <1>3, <1>4, <1>5, <1>6, <1>7, <1>8, <1>9, <1>10 DEF CoreNext

LEMMA CoreHolders ==
  ASSUME TypeInv, NEW c \in Cores, LockedAt(c), HoldersAt(c), CoreNext(c)
  PROVE  HoldersAt(c)'
<1>1. held'[c] = held[c] /\ ClockInUse(c)' = ClockInUse(c) BY CoreFrame DEF ClockInUse
<1>2. QED BY <1>1, CoreCalls DEF HoldersAt

LEMMA CoreReady ==
  ASSUME TypeInv, NEW c \in Cores, ReadyAt(c), CoreNext(c)
  PROVE  ReadyAt(c)'
<1>1. /\ pm'[c].state = pm[c].state /\ pm'[c].clock_suspended = pm[c].clock_suspended
      /\ held'[c] = held[c] /\ past[c] \subseteq past'[c] /\ sys' = sys
      /\ jobs'[c] > 0 => jobs[c] > 0 \/ core[c].pc = "trigger"
  BY CoreFrame
<1>2. \A S \in SUBSET Upsets : Never(c, S)' => Never(c, S) BY <1>1 DEF Never
<1>3. core'[c].pc = "trigger" => pm[c].state = "RUN"
  <2>1. core \in [Cores -> CoreThreads] BY DEF TypeInv, TypeOK
  <2>2. \A pc \in CorePcs : CoreGoes(c, pc) => core'[c].pc = pc
    BY <2>1 DEF CoreGoes, CoreThreads
  <2>3. CASE CoreSubmitted(c) BY <2>2, <2>3 DEF CoreSubmitted, CoreFails
  <2>4. CASE \/ CoreTake(c) \/ CoreCheck(c) \/ CoreReset(c) \/ CoreResumed(c) \/ CoreRelock(c)
             \/ CoreSubmit(c) \/ CoreTrigger(c) \/ CoreWait(c) \/ CoreIrq(c)
             \/ CoreTimeOut(c) \/ CoreIdle(c) \/ CoreSend(c) \/ CoreUserOff(c) \/ CoreEnd(c)
    BY <2>1, <2>2, <2>4
       DEF CoreTake, CoreCheck, CoreReset, CoreResumed, CoreRelock, CoreSubmit, CoreTrigger,
           CoreWait, CoreIrq, CoreTimeOut, CoreIdle, CoreSend, CoreUserOff, CoreEnd, CoreFails
  <2>5. QED BY <2>3, <2>4 DEF CoreNext
<1>4. QED BY <1>1, <1>2, <1>3 DEF ReadyAt

(* The part of RunAt about a core without an upset, as its thread goes on. *)
LEMMA CoreRun ==
  ASSUME TypeInv, NEW c \in Cores, LockedAt(c), RunAt(c), CoreNext(c)
  PROVE  RunAt(c)'
<1>1. /\ lock \in [Cores -> Owners] /\ event \in [Cores -> Events \union {"none"}]
      /\ core \in [Cores -> CoreThreads] /\ past \in [Cores -> SUBSET Upsets]
      /\ pm \in [Cores -> Powers]
  BY DEF TypeInv, TypeOK
<1>2. \A pc \in CorePcs : CoreGoes(c, pc) => core'[c].pc = pc
  BY <1>1 DEF CoreGoes, CoreThreads
<1>3. \A e \in Events : Send(c, "core", e) =>
        event[c] = "none" /\ lock'[c] = "core" /\ event'[c] = e
  BY <1>1 DEF Send
<1>4. pm'[c].state = pm[c].state /\ past[c] \subseteq past'[c] BY CoreFrame
<1>5. Smooth(c)' => Smooth(c) BY <1>4 DEF Smooth, Never
<1>6. /\ event[c] # "none" => lock[c] # "none"
      /\ core[c].pc \in {"check", "trigger"} => event[c] = "none"
  BY DEF LockedAt
<1> USE <1>4, <1>5 DEF RunAt, Abandoned
<1>7. CASE CoreTake(c)
  <2>1. event'[c] = event[c] /\ UNCHANGED <<pm, past>> /\ event[c] = "none"
    BY <1>6, <1>7 DEF CoreTake, CoreKeeps
  <2>2. core[c].pc = "sleep" /\ core'[c].pc \in {"check", "end"}
    BY <1>1, <1>7 DEF CoreTake
  <2>3. QED BY <2>1, <2>2
<1>8. CASE CoreCheck(c)
  <2>1. UNCHANGED <<pm, past>> /\ core[c].pc = "check" /\ event[c] = "none"
    BY <1>6, <1>8 DEF CoreCheck, CoreKeeps
  <2>2. core'[c].pc \in {"reset_resume", "powered"} /\ event'[c] \in {"none", "ON"}
    BY <1>1, <1>2, <1>3, <1>6, <1>8 DEF CoreCheck
  <2>3. QED BY <2>1, <2>2
<1>9. CASE CoreReset(c) \/ CoreResumed(c)
  <2>1. UNCHANGED <<pm, past, event, lock>>
    BY <1>9 DEF CoreReset, CoreResumed, CoreKeeps
  <2>2. /\ core[c].pc \in {"reset_resume", "wait_resume"}
        /\ core'[c].pc \in {"wait_resume", "relock"}
    BY <1>2, <1>9 DEF CoreReset, CoreResumed
  <2>3. QED BY <2>1, <2>2
<1>10. CASE CoreRelock(c)
  <2>1. UNCHANGED <<pm, past>> BY <1>10 DEF CoreRelock, CoreKeeps
  <2>2. core[c].pc = "relock" /\ event'[c] = "ON" /\ core'[c].pc = "powered"
        /\ event[c] = "none"
    BY <1>2, <1>3, <1>10 DEF CoreRelock
  <2>3. QED BY <2>1, <2>2
<1>11. CASE CoreSubmit(c)
  <2>1. UNCHANGED <<pm, past>> /\ core[c].pc = "powered" /\ event[c] = "none"
    BY <1>11 DEF CoreSubmit, CoreKeeps
  <2>2. \/ event'[c] = "none" /\ core'[c].pc = "end"
        \/ event'[c] = "RUN" /\ lock'[c] = "core" /\ core'[c].pc = "submitted"
    BY <1>2, <1>3, <1>11 DEF CoreSubmit, CoreFails
  <2>3. QED BY <2>1, <2>2
<1>12. CASE CoreSubmitted(c)
  <2>1. UNCHANGED <<past, event>> /\ core[c].pc = "submitted" /\ event[c] = "none"
    BY <1>12 DEF CoreSubmitted, CoreFails, history
  <2>2. \/ pm[c].state # "RUN" /\ core'[c].pc = "end" /\ pm' = pm
        \/ pm[c].state = "RUN" /\ core'[c].pc = "trigger" /\ pm' = [pm EXCEPT ![c].idle = FALSE]
    BY <1>2, <1>12 DEF CoreSubmitted, CoreFails
  <2>3. pm' = [pm EXCEPT ![c].idle = FALSE] => ~pm'[c].idle BY <1>1 DEF Powers
  <2>4. QED BY <2>1, <2>2, <2>3
<1>13. CASE CoreTrigger(c)
  <2>1. UNCHANGED <<pm, past, event>> /\ core[c].pc = "trigger" /\ event[c] = "none"
    BY <1>6, <1>13 DEF CoreTrigger, CoreKeeps
  <2>2. core'[c].pc = "wait" BY <1>2, <1>13 DEF CoreTrigger
  <2>3. QED BY <2>1, <2>2
<1>14. CASE CoreWait(c)
  <2>1. UNCHANGED <<pm, past, event, lock>> /\ core[c].pc = "wait"
    BY <1>14 DEF CoreWait, CoreKeeps
  <2>2. core'[c].pc = IF pm[c].idle THEN "end" ELSE "irq" BY <1>2, <1>14 DEF CoreWait
  <2>3. QED BY <2>1, <2>2
<1>15. CASE CoreIrq(c)
  <2>1. UNCHANGED <<pm, past, event, lock>> /\ core[c].pc = "irq"
    BY <1>1, <1>15 DEF CoreIrq, CoreKeeps
  <2>2. core'[c].pc = "idle" BY <1>2, <1>15 DEF CoreIrq
  <2>3. QED BY <2>1, <2>2
<1>16. CASE CoreTimeOut(c)
  <2>1. UNCHANGED <<pm, lock, event>> /\ core[c].pc = "irq" /\ "timeout" \in past'[c]
    BY <1>1, <1>16 DEF CoreTimeOut, CoreKeeps
  <2>2. core'[c].pc = "end" BY <1>2, <1>16 DEF CoreTimeOut
  <2>3. QED BY <2>1, <2>2
<1>17. CASE CoreIdle(c)
  <2>1. UNCHANGED <<past, event, lock>> /\ core[c].pc = "idle"
    BY <1>17 DEF CoreIdle, work, history
  <2>2. core'[c].pc = IF pm[c].idle THEN "end" ELSE "hw_idle" BY <1>2, <1>17 DEF CoreIdle
  <2>3. QED BY <2>1, <2>2
<1>18. CASE CoreSend(c)
  <2>1. UNCHANGED <<pm, past>> /\ core[c].pc = "hw_idle" BY <1>18 DEF CoreSend, CoreKeeps
  <2>2. /\ event'[c] = "END" /\ lock'[c] = "core" /\ event[c] = "none"
        /\ core'[c].pc = "user_off"
    BY <1>2, <1>3, <1>18 DEF CoreSend
  <2>3. QED BY <2>1, <2>2
<1>19. CASE CoreUserOff(c)
  <2>1. UNCHANGED <<pm, past>> /\ core[c].pc = "user_off" /\ core'[c].pc = "end"
        /\ ~(lock[c] = "core" /\ event[c] # "none")
    BY <1>2, <1>19 DEF CoreUserOff, CoreKeeps, Returned
  <2>2. \/ event'[c] = event[c] /\ lock'[c] = lock[c]
        \/ event'[c] = "USR_OFF" /\ event[c] = "none"
    BY <1>3, <1>19 DEF CoreUserOff
  <2>3. QED BY <2>1, <2>2
<1>20. CASE CoreEnd(c)
  <2>1. UNCHANGED <<pm, past, event, lock>> /\ core[c].pc = "end"
    BY <1>1, <1>20 DEF CoreEnd, CoreKeeps
  <2>2. core'[c].pc = "sleep" BY <1>2, <1>20 DEF CoreEnd
  <2>3. ~(lock[c] = "core" /\ event[c] # "none") BY <1>20 DEF CoreEnd, Returned
  <2>4. QED BY <2>1, <2>2, <2>3
<1>21. QED
  BY <1>7, <1>8, <1>9, <1>10, <1>11, <1>12, <1>13, <1>14, <1>15, <1>16, <1>17, <1>18, <1>19,
     <1>20 DEF CoreNext

LEMMA CoreAsleep ==
  ASSUME TypeInv, NEW c \in Cores, LockedAt(c), AsleepAt(c), CoreNext(c)
  PROVE  AsleepAt(c)'
<1>1. /\ UNCHANGED <<clock_user, sys>> /\ pm'[c].state = pm[c].state /\ held'[c] = held[c]
      /\ past[c] \subseteq past'[c]
  BY CoreFrame
<1>2. event'[c] \in {event[c], "ON", "RUN", "END", "USR_OFF"} BY CoreCalls
<1>3. ClockInUse(c)' = ClockInUse(c) /\ Suspended(c)' = Suspended(c)
  BY <1>1 DEF ClockInUse, Suspended
<1>4. QED BY <1>1, <1>2, <1>3 DEF AsleepAt, Never

LEMMA CorePowered ==
  ASSUME TypeInv, Locked, Powered, NEW c \in Cores, CoreNext(c)
  PROVE  Powered'
<1>1. LockedAt(c) /\ HoldersAt(c) /\ CountedAt(c) /\ ReadyAt(c) /\ RunAt(c) /\ AsleepAt(c)
  BY DEF Powered, PowerAt, Locked
<1>2. CountedAt(c)'
  <2>1. /\ pm'[c].state = pm[c].state /\ pm'[c].count = pm[c].count /\ held'[c] = held[c]
        /\ past[c] \subseteq past'[c]
    BY CoreFrame
  <2>2. QED BY <1>1, <2>1 DEF CountedAt, Never
<1>3. PowerAt(c)' BY <1>1, <1>2, CoreHolders, CoreReady, CoreRun, CoreAsleep DEF PowerAt
<1>4. UNCHANGED <<clock_user, sys>> /\ SameFailures /\ \A d \in Cores \ {c} : SameRow(d)
  BY CoreFrame
<1>5. \A d \in Cores : ClockInUse(d)' = ClockInUse(d) BY <1>4 DEF ClockInUse
<1>6. QED BY <1>3, <1>4, <1>5, PowerHere

-----------------------------------------------------------------------------
(* Suspend and resume.                                                     *)

(* A transition leaves the holders alone and moves the count with RUN. *)
LEMMA TransitCounts ==
  ASSUME NEW h \in SUBSET {"clock"}, NEW s, NEW t, NEW n, n = Uses(h, s)
  PROVE  LET m == IF s = "RUN" THEN Dec(n) ELSE n
         IN  (IF t = "RUN" THEN Inc(m) ELSE m) = Uses(h, t)
<1>1. n \in 0 .. 2 /\ (s = "RUN" => n \in 1 .. 2) /\ (s # "RUN" => n \in 0 .. 1)
  BY DEF Uses, One
<1>2. Uses(h, t) = n + One(t = "RUN") - One(s = "RUN") BY DEF Uses, One
<1>3. CASE s = "RUN"
  <2>1. Dec(n) = n - 1 /\ n - 1 \in 0 .. 1 BY <1>1, <1>3, SmallCounts
  <2>2. Inc(n - 1) = n BY <2>1, SmallCounts
  <2>3. QED BY <1>1, <1>2, <1>3, <2>1, <2>2 DEF One
<1>4. CASE s # "RUN"
  <2>1. Inc(n) = n + 1 BY <1>1, <1>4, SmallCounts
  <2>2. QED BY <1>1, <1>2, <1>4, <2>1 DEF One
<1>5. QED BY <1>3, <1>4

(* The system touches no call: it frees or takes free locks alone. *)
LEMMA SysCalls ==
  ASSUME TypeInv, Locked, SysNext \/ \E who \in SuspendBy : SuspendBegin(who)
  PROVE  /\ UNCHANGED <<core, clock_user, event, held>>
         /\ \A d \in Cores : event[d] # "none" => lock'[d] = lock[d]
<1>1. UNCHANGED <<core, clock_user, event, held>>
  BY DEF SysNext, ResumeBegin, SuspendCore, ResumeCore, SuspendBegin, SysKeeps
<1>2. \A d \in Cores : event[d] # "none" => lock[d] \notin {"none", "sys"}
  BY DEF Locked, LockedAt
<1>3. ASSUME NEW who, SysLocks(who) PROVE \A d \in Cores : event[d] # "none" => lock'[d] = lock[d]
  BY <1>2, <1>3 DEF SysLocks
<1>4. ASSUME NEW todo, SysUnlocks(todo), sys.pc \in {"suspend", "resume"}
      PROVE  \A d \in Cores : event[d] # "none" => lock'[d] = lock[d]
  <2>1. sys.who = "debugfs" => \A d \in Cores : lock[d] = "sys" BY <1>4 DEF Locked, LockedAt
  <2>2. QED BY <1>2, <1>4, <2>1 DEF SysUnlocks
<1>5. QED
  BY <1>1, <1>3, <1>4 DEF SysNext, ResumeBegin, SuspendCore, ResumeCore, SuspendBegin

(* Which cores are suspended. *)
LEMMA SysSuspended ==
  ASSUME TypeInv, Powered, SysNext \/ \E who \in SuspendBy : SuspendBegin(who), NEW d \in Cores
  PROVE  Suspended(d)' => pm'[d].state = "SUSPEND"
<1>1. TypeOK /\ SuspendedKnown /\ sys \in Suspensions /\ pm \in [Cores -> Powers]
  BY DEF TypeInv, TypeOK
<1>2. Suspended(d) => pm[d].state = "SUSPEND" BY DEF Powered, PowerAt, AsleepAt
<1>3. ASSUME NEW who \in SuspendBy, SuspendBegin(who) PROVE ~Suspended(d)'
  BY <1>3 DEF SuspendBegin, Suspended
<1>4. CASE ResumeBegin
  <2>1. /\ sys.pc = "asleep" /\ pm' = pm /\ sys' = [sys EXCEPT !.todo = Cores, !.pc = "resume"]
    BY <1>4 DEF ResumeBegin
  <2>2. QED BY <1>2, <2>1 DEF Suspended
<1>5. ASSUME NEW c \in Cores, SuspendCore(c) PROVE Suspended(d)' => pm'[d].state = "SUSPEND"
  <2>1. sys.pc = "suspend" /\ c \in sys.todo /\ Transit(c, pm[c], "SUSPEND", TRUE)
    BY <1>5 DEF SuspendCore, IsNext
  <2>2. sys'.pc \in {"suspend", "asleep"} /\ sys'.todo = sys.todo \ {c}
        /\ (sys'.pc = "asleep" => sys'.todo = {})
    BY <1>1, <1>5, <2>1 DEF SuspendCore, Suspensions
  <2>3. pm[c].state \in Life BY <1>1, <2>1 DEF SuspendedKnown, Powers
  <2>4. pm'[c].state = "SUSPEND" /\ \A b \in Cores \ {c} : pm'[b] = pm[b]
    BY <1>1, <2>1, <2>3, TransitEffect
  <2>5. d # c /\ d \notin sys.todo => pm[d].state = "SUSPEND" BY <1>2, <2>1 DEF Suspended
  <2>6. QED BY <2>2, <2>4, <2>5 DEF Suspended
<1>6. ASSUME NEW c \in Cores, ResumeCore(c) PROVE Suspended(d)' => pm'[d].state = "SUSPEND"
  <2>1. sys.pc = "resume" BY <1>6 DEF ResumeCore
  <2>2. sys'.pc \in {"resume", "awake"} /\ sys'.todo = sys.todo \ {c}
    BY <1>1, <1>6, <2>1 DEF ResumeCore, Suspensions
  <2>3. \A b \in Cores \ {c} : pm'[b] = pm[b]
    BY <1>1, <1>6 DEF ResumeCore, Transit
  <2>4. QED BY <1>2, <2>1, <2>2, <2>3 DEF Suspended
<1>7. QED BY <1>3, <1>4, <1>5, <1>6 DEF SysNext

(* There is no holder of the clock when the suspension begins, and so none *)
(* while it lasts.                                                         *)
LEMMA SysHolders ==
  ASSUME TypeInv, Locked, Powered, SysNext \/ \E who \in SuspendBy : SuspendBegin(who),
         NEW d \in Cores, past[d] \subseteq past'[d]
  PROVE  /\ AsleepAt(d)'
         /\ Never(d, {"split", "failure"})' => held'[d] = {}
<1>1. UNCHANGED <<core, clock_user, event, held>> BY SysCalls
<1>2. HoldersAt(d) /\ ReadyAt(d) /\ AsleepAt(d) BY DEF Powered, PowerAt
<1>3. Never(d, {"split", "failure"})' => Never(d, {"split", "failure"}) BY DEF Never
<1>4. sys \in Suspensions BY DEF TypeInv, TypeOK
<1>5. Suspended(d)' => pm'[d].state = "SUSPEND" BY SysSuspended
<1>6. CASE SysNext
  <2>1. sys.pc # "awake" /\ sys'.who = sys.who
    BY <1>4, <1>6 DEF SysNext, ResumeBegin, SuspendCore, ResumeCore, Suspensions
  <2>2. QED BY <1>1, <1>2, <1>3, <1>5, <2>1 DEF AsleepAt, ClockInUse
<1>7. ASSUME NEW who \in SuspendBy, SuspendBegin(who)
      PROVE  /\ sys'.who = "system" => ~ClockInUse(d) /\ event[d] \notin {"CLK_ON", "CLK_OFF"}
             /\ Never(d, {"split", "failure"}) => held[d] = {}
  <2>1. who \in {"system", "debugfs"} /\ sys'.who = who
    BY <1>7, PowerAssumption DEF PowerAssumption, SuspendBegin
  <2>2. CASE who = "system"
    <3>1. clock_user.pc = "out" /\ lock[d] # "clock" BY <1>7, <2>2 DEF SuspendBegin, Frozen
    <3>2. ~ClockInUse(d) /\ event[d] \notin {"CLK_ON", "CLK_OFF"}
      BY <1>2, <3>1 DEF HoldersAt, ClockInUse
    <3>3. QED BY <1>2, <3>2 DEF HoldersAt
  <2>3. CASE who = "debugfs"
    <3>1. pm[d].state \notin Clock BY <1>7, <2>3 DEF SuspendBegin
    <3>2. QED BY <1>2, <2>1, <2>3, <3>1 DEF ReadyAt
  <2>4. QED BY <2>1, <2>2, <2>3
<1>8. QED BY <1>1, <1>3, <1>5, <1>6, <1>7 DEF AsleepAt, ClockInUse

(* What the system leaves of the invariant once every core is upset. *)
LEMMA SuspendedPowered ==
  ASSUME TypeInv, Locked, Powered, SysNext \/ \E who \in SuspendBy : SuspendBegin(who),
         NEW d \in Cores, past[d] \union {"suspend"} \subseteq past'[d],
         CountedAt(d)', pm'[d].state \in Clock => ~pm'[d].clock_suspended
  PROVE  PowerAt(d)'
<1>1. /\ UNCHANGED <<core, clock_user, event, held>>
      /\ event[d] # "none" => lock'[d] = lock[d]
  BY SysCalls
<1>2. HoldersAt(d) /\ RunAt(d) BY DEF Powered, PowerAt
<1>3. HoldersAt(d)' BY <1>1, <1>2 DEF HoldersAt, ClockInUse
<1>4. ~Never(d, {"split", "failure", "suspend"})' /\ ~Smooth(d)' BY DEF Never, Smooth
<1>5. AsleepAt(d)' /\ (Never(d, {"split", "failure"})' => held'[d] = {}) BY SysHolders
<1>6. ReadyAt(d)' BY <1>4, <1>5 DEF ReadyAt
<1>7. RunAt(d)' BY <1>1, <1>2, <1>4 DEF RunAt
<1>8. QED BY <1>3, <1>5, <1>6, <1>7 DEF PowerAt

LEMMA SysPowered ==
  ASSUME TypeInv, Locked, Powered, SysNext \/ \E who \in SuspendBy : SuspendBegin(who)
  PROVE  Powered'
<1>1. /\ TypeOK /\ pm \in [Cores -> Powers] /\ past \in [Cores -> SUBSET Upsets]
      /\ SuspendedKnown
  BY DEF TypeInv, TypeOK
<1>2. held' = held BY SysCalls
<1>3. \A d \in Cores : HoldersAt(d) /\ CountedAt(d) /\ ReadyAt(d) BY DEF Powered, PowerAt
<1>4. ASSUME UNCHANGED pm, SameFailures,
             \A d \in Cores : past[d] \union {"suspend"} \subseteq past'[d]
      PROVE  Powered'
  <2>1. ASSUME NEW d \in Cores PROVE PowerAt(d)'
    <3>1. CountedAt(d)' BY <1>2, <1>3, <1>4 DEF CountedAt, Never
    <3>2. pm'[d].state \in Clock => ~pm'[d].clock_suspended BY <1>3, <1>4 DEF ReadyAt
    <3>3. QED BY <1>4, <3>1, <3>2, SuspendedPowered
  <2>2. QED BY <1>4, <2>1 DEF Powered, FailureShared, SameFailures
<1>5. ASSUME NEW who \in SuspendBy, SuspendBegin(who) PROVE Powered'
  <2>1. past' = [c \in Cores |-> past[c] \union {"suspend"}] /\ pm' = pm
    BY <1>5 DEF SuspendBegin
  <2>2. QED BY <1>4, <2>1 DEF SameFailures
<1>6. CASE ResumeBegin
  <2>1. sys.pc # "awake" /\ UNCHANGED <<pm, past>> BY <1>6 DEF ResumeBegin
  <2>2. \A d \in Cores : "suspend" \in past[d] BY <1>3, <2>1 DEF ReadyAt
  <2>3. QED BY <1>4, <2>1, <2>2 DEF SameFailures
<1>7. ASSUME NEW c \in Cores, SuspendCore(c) \/ ResumeCore(c) PROVE Powered'
  <2>1. PICK to \in States, ok \in BOOLEAN :
          /\ Transit(c, pm[c], to, ok)
          /\ to = "SUSPEND" => pm[c].state \in Life
          /\ past' = Failed(ok)
    <3>1. CASE SuspendCore(c)
      <4>1. pm[c].state \in Life
        BY <1>1, <3>1 DEF SuspendCore, IsNext, SuspendedKnown, Powers
      <4>2. past' = Failed(TRUE) BY <1>1, <3>1 DEF SuspendCore, Failed
      <4>3. QED BY <3>1, <4>1, <4>2 DEF SuspendCore
    <3>2. CASE ResumeCore(c)
      <4>1. pm[c].last_state \in Life BY <1>1 DEF Powers
      <4>2. PICK ok \in PowerOnMay(pm[c].state, pm[c].last_state) :
              Transit(c, pm[c], pm[c].last_state, ok) /\ past' = Failed(ok)
        BY <3>2 DEF ResumeCore
      <4>3. ok \in BOOLEAN BY DEF PowerOnMay
      <4>4. pm[c].last_state \in States /\ pm[c].last_state # "SUSPEND" BY <4>1
      <4>5. QED BY <4>2, <4>3, <4>4
    <3>3. QED BY <1>7, <3>1, <3>2
  <2>2. /\ \A d \in Cores : past[d] \subseteq past'[d]
        /\ \A d \in Cores : "failure" \in past'[d] <=> "failure" \in past[d] \/ ~ok
    BY <1>1, <2>1 DEF Failed
  <2>3. FailureShared' BY <2>2 DEF Powered, FailureShared
  <2>4. sys.pc # "awake" BY <1>7 DEF SuspendCore, ResumeCore
  <2>5. \A d \in Cores : past[d] \union {"suspend"} \subseteq past'[d]
    BY <1>3, <2>2, <2>4 DEF ReadyAt
  <2>6. pm[c] \in Powers BY <1>1
  <2>7. /\ \A d \in Cores \ {c} : pm'[d] = pm[d]
        /\ pm'[c].state = to
        /\ ok \/ ~TurnsOn(pm[c].state, to) =>
             pm'[c].count = IF to = "RUN" THEN Inc(IF pm[c].state = "RUN" THEN Dec(pm[c].count)
                                                                     ELSE pm[c].count)
                            ELSE (IF pm[c].state = "RUN" THEN Dec(pm[c].count) ELSE pm[c].count)
        /\ to \in Clock /\ (pm[c].state \in Clock => ~pm[c].clock_suspended) =>
             ~pm'[c].clock_suspended
    BY <1>1, <2>1, <2>6, TransitEffect
  <2>8. CountedAt(c)'
    <3>1. SUFFICES ASSUME Never(c, {"split", "failure"})'
                   PROVE  pm'[c].count = Uses(held[c], to)
      BY <1>2, <2>7 DEF CountedAt
    <3>2. ok /\ Never(c, {"split", "failure"}) BY <2>2, <3>1 DEF Never
    <3>3. pm[c].count = Uses(held[c], pm[c].state) /\ held[c] \in SUBSET {"clock"}
      BY <1>3, <3>2 DEF CountedAt, HoldersAt
    <3>4. QED BY <2>7, <3>2, <3>3, TransitCounts
  <2>9. ASSUME NEW d \in Cores PROVE PowerAt(d)'
    <3>1. CASE d = c
      <4>1. pm'[d].state \in Clock => ~pm'[d].clock_suspended
        BY <1>3, <2>7, <3>1 DEF ReadyAt
      <4>2. QED BY <2>5, <2>8, <3>1, <4>1, SuspendedPowered
    <3>2. CASE d # c
      <4>1. pm'[d].state \in Clock => ~pm'[d].clock_suspended
        BY <1>3, <2>7, <3>2 DEF ReadyAt
      <4>2. CountedAt(d)'
        <5>1. pm'[d] = pm[d] /\ past[d] \subseteq past'[d] BY <2>2, <2>7, <3>2
        <5>2. QED BY <1>2, <1>3, <5>1 DEF CountedAt, Never
      <4>3. QED BY <2>5, <4>1, <4>2, SuspendedPowered
    <3>3. QED BY <3>1, <3>2
  <2>10. QED BY <2>3, <2>9 DEF Powered
<1>8. QED BY <1>5, <1>6, <1>7 DEF SysNext

-----------------------------------------------------------------------------
(* The invariant and what follows from it.                                 *)

LEMMA InitPowered == Init => Powered
<1> SUFFICES ASSUME Init PROVE Powered OBVIOUS
<1>1. FailureShared BY DEF Init, FailureShared
<1>2. ASSUME NEW c \in Cores PROVE PowerAt(c)
  <2>1. HoldersAt(c) BY DEF Init, HoldersAt
  <2>2. CountedAt(c) BY DEF Init, CountedAt, Uses, One
  <2>3. ReadyAt(c) BY DEF Init, ReadyAt
  <2>4. RunAt(c) BY DEF Init, RunAt
  <2>5. AsleepAt(c) BY DEF Init, AsleepAt, Suspended
  <2>6. QED BY <2>1, <2>2, <2>3, <2>4, <2>5 DEF PowerAt
<1>3. QED BY <1>1, <1>2 DEF Powered

LEMMA NextPowered ==
  ASSUME TypeInv, Locked, Powered, [Next]_vars
  PROVE  Powered'
<1>1. CASE UNCHANGED vars BY <1>1, QuietPowered DEF vars
<1>2. ASSUME NEW c \in Cores, Dispatch(c) \/ Submit(c) PROVE Powered'
  BY <1>2, QuietPowered DEF Dispatch, Submit, threads, history
<1>3. CASE Next
  BY <1>2, <1>3, RoundPowered, TimerFiresPowered, PmNextPowered, CorePowered,
     HardwareDonePowered, CancelPowered, ClockOnPowered, UserSendPowered, ClockNextPowered,
     SysPowered, Zenon DEF Next
<1>4. QED BY <1>1, <1>3

(* Nothing a thread, the user, the reader or the system does, in any order *)
(* and on any number of cores, breaks the books of the power management:   *)
(* who holds the clock, how often it is counted, in which states it runs.  *)
THEOREM PowerInvariant == Spec => [](TypeInv /\ Locked /\ DomainCounted /\ Powered)
<1>1. /\ TypeInv /\ Locked /\ DomainCounted /\ Powered /\ [Next]_vars
      => TypeInv' /\ Locked' /\ DomainCounted' /\ Powered'
  BY NextTypeInv, NextLocked, NextDomain, NextPowered
<1>2. Init => TypeInv /\ Locked /\ DomainCounted /\ Powered
  BY InitInv, InitLocked, InitDomain, InitPowered
<1>3. QED BY <1>1, <1>2, PTL DEF Spec

(* disable_clock_suspend counts the task of the core and every thread that *)
(* asked for the clock and has not given it back, in every order of CLK_ON,*)
(* CLK_OFF, RUN, END, suspend, resume and user power-off.                  *)
THEOREM ClockAlwaysCounted == Spec => []ClockCounted
<1>1. Powered => ClockCounted
  <2>1. SUFFICES ASSUME Powered, NEW c \in Cores, Never(c, {"split", "failure"})
                 PROVE  pm[c].count = Cardinality(held[c]) + (IF pm[c].state = "RUN" THEN 1 ELSE 0)
    BY DEF ClockCounted
  <2>2. pm[c].count = Uses(held[c], pm[c].state) /\ held[c] \in SUBSET {"clock"}
    BY <2>1 DEF Powered, PowerAt, CountedAt, HoldersAt
  <2>3. QED BY <2>2, UsesCardinality
<1>2. QED BY <1>1, PowerInvariant, PTL

(* A core in a state of CLOCK has its clock, and without a failure the     *)
(* domain has power. *)
LEMMA ClockedInClock ==
  ASSUME DomainCounted, Powered, NEW c \in Cores, pm[c].state \in Clock, Never(c, {"failure"})
  PROVE  Clocked(c)
<1>1. ~pm[c].clock_suspended BY DEF Powered, PowerAt, ReadyAt
<1>2. \A d \in Cores : Never(d, {"failure"}) BY DEF Powered, FailureShared, Never
<1>3. Cardinality({d \in Cores : pm[d].state \in On}) > 0
  <2> DEFINE S == {d \in Cores : pm[d].state \in On}
  <2>1. IsFiniteSet(S) BY PowerAssumption, FS_Subset DEF PowerAssumption
  <2>2. c \in S OBVIOUS
  <2>3. Cardinality(S) \in Nat /\ Cardinality(S) # 0
    BY <2>1, <2>2, FS_CardinalityType, FS_EmptySet
  <2>4. QED BY <2>3
<1>4. domain.powered BY <1>2, <1>3 DEF DomainCounted
<1>5. QED BY <1>1, <1>4 DEF Clocked

(* The hardware executes a job only in RUN, with the clock on and the      *)
(* domain powered, whatever the timers, the users and the other cores do,  *)
(* also a job whose wait timed out and that runs on beside later ones.     *)
THEOREM JobAlwaysPowered == Spec => []JobPowered
<1>1. DomainCounted /\ Powered => JobPowered
  <2>1. SUFFICES ASSUME DomainCounted, Powered, NEW c \in Cores, jobs[c] > 0,
                        Never(c, {"split", "failure", "suspend"})
                 PROVE  pm[c].state = "RUN" /\ Clocked(c)
    BY DEF JobPowered
  <2>2. pm[c].state = "RUN" BY <2>1 DEF Powered, PowerAt, ReadyAt
  <2>3. Never(c, {"failure"}) BY <2>1 DEF Never
  <2>4. QED BY <2>1, <2>2, <2>3, ClockedInClock
<1>2. QED BY <1>1, PowerInvariant, PTL

(* A reader of debugfs that found the core in a state of CLOCK, and whose  *)
(* CLK_ON was counted, reads the registers with the clock on, also when a  *)
(* suspension comes in between.                                            *)
THEOREM ReadAlwaysClocked == Spec => []ReadClocked
<1>1. TypeInv /\ DomainCounted /\ Powered => ReadClocked
  <2> DEFINE c == clock_user.core
  <2>1. SUFFICES ASSUME TypeInv, DomainCounted, Powered, "clock" \in held[c],
                        Never(c, {"split", "failure"})
                 PROVE  Clocked(c)
    BY DEF ReadClocked
  <2>2. c \in Cores BY <2>1 DEF TypeInv, TypeOK, ClockUsers
  <2>3. pm[c].state \in Clock BY <2>1, <2>2 DEF Powered, PowerAt, ReadyAt
  <2>4. Never(c, {"failure"}) BY <2>1 DEF Never
  <2>5. QED BY <2>1, <2>2, <2>3, <2>4, ClockedInClock
<1>2. QED BY <1>1, PowerInvariant, PTL

(* A core stays in RUN, with the clock on, only for a task whose thread    *)
(* has not finished, or because the wait for a task timed out and sent no  *)
(* END, and then only until the wait for a later task ends.                *)
THEOREM RunAlwaysHasTask == Spec => []RunHasTask
<1>1. TypeInv /\ Powered => RunHasTask
  <2>1. SUFFICES ASSUME TypeInv, Powered, NEW c \in Cores, pm[c].state = "RUN",
                        event[c] = "none", ~Abandoned(c),
                        Never(c, {"busy", "suspend"})
                 PROVE  Running(c)
    BY DEF RunHasTask
  <2>2. Smooth(c) BY <2>1 DEF Smooth
  <2>3. core[c].pc \in {"submitted", "trigger", "wait", "irq", "idle", "hw_idle"}
    BY <2>1, <2>2 DEF Powered, PowerAt, RunAt
  <2>4. core[c].pc \in CorePcs BY <2>3
  <2>5. QED BY <2>3, <2>4 DEF Running
<1>2. QED BY <1>1, PowerInvariant, PTL

=============================================================================
