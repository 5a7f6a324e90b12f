------------------------ MODULE SessionDriverProofs ------------------------
(***************************************************************************)
(* No wake-up is lost, and a ^C ends one read only, for every bound on the *)
(* bytes and the controls.                                                 *)
(***************************************************************************)
EXTENDS SessionDriver, TLAPS

\* The war is finished by the program, or by a control routine that took over.
FinishingRun == stage = "finishing" => run \in {"finishing", "left"}

\* A control routine waits for the driver, or yields where ^C has one to print;
\* only one that has yielded may meet the end of the war.  The program does not
\* run beside it, unless the routine finishes the war in its place.
Pending == controls > 0
ControlsPlaced ==
    Pending /\ ~finished =>
        /\ run # "left" => pc # "running"
        /\ pc \in {"waiting", "ready"} /\ run # "left" => trap # "none"
        /\ pc = "next" \/ trap = "none" => ~ShouldFinish

\* A routine that finishes the war stays pending till the session ends.
LeftBehind == run = "left" /\ ~finished => Pending /\ stage = "finishing"

\* A read sleeps in the program only.
SleepingRead ==
    waiting = "input" => run = "reading" /\ stage # "finishing"

\* An interrupted read returns before another session runs, or the routine of
\* the ^C is still at work, or has taken over to finish the war.
AnsweredAtOnce ==
    interrupted /\ ~finished /\ run # "left" =>
        /\ run = "reading" /\ stage # "finishing"
        /\ pc \in {"next", "running"} => ~ShouldFinish
        /\ pc \in {"waiting", "ready"} => Pending

\* The end of the war is noticed before the program runs on.
NoticedFirst == pc = "running" => ~ShouldFinish

Inv ==
    /\ TypeOK /\ SleepsOnlyWhenIdle /\ ControlsPlaced
    /\ FinishingRun /\ LeftBehind /\ SleepingRead /\ AnsweredAtOnce /\ NoticedFirst

USE DEF Requests, vars, signals, game, finished

LEMMA InvInit == Init => Inv
<1> SUFFICES ASSUME Init PROVE Inv
  OBVIOUS
<1>1. CountsOK
  BY BoundsAssumption DEF BoundsAssumption, Init, CountsOK
<1>2. TypeOK /\ SleepsOnlyWhenIdle
  BY <1>1 DEF Init, TypeOK, SleepsOnlyWhenIdle, Traps
<1>3. FinishingRun /\ LeftBehind /\ SleepingRead
  BY DEF Init, FinishingRun, LeftBehind, SleepingRead
<1>4. AnsweredAtOnce /\ NoticedFirst /\ ControlsPlaced
  BY DEF Init, AnsweredAtOnce, NoticedFirst, ControlsPlaced, Pending, ShouldFinish
<1> QED
  BY <1>1, <1>2, <1>3, <1>4 DEF Inv

\* The counts stay within their bounds.
LEMMA CountsKept == ASSUME Inv, Next PROVE CountsOK'
<1> USE BoundsAssumption DEF BoundsAssumption, Inv, TypeOK, CountsOK
<1>1. ASSUME NEW n \in 0..MaxControls, NEW k \in 0..MaxBytes, Packet(n, k)
      PROVE  CountsOK'
  BY <1>1 DEF Packet
<1>2. CASE BadInterrupt \/ Disconnect \/ Cancel \/ TimerFires \/ LockGranted \/ Latch
  BY <1>2 DEF BadInterrupt, Disconnect, Cancel, TimerFires, LockGranted, Latch
<1>3. CASE Abort \/ ControlExits \/ Exit
  BY <1>3 DEF Abort, ControlExits, Exit, Ends
<1>4. CASE ControlYields \/ Resume \/ ReadSleeps \/ FinishYields
  BY <1>4 DEF ControlYields, Resume, ReadSleeps, FinishYields
<1>5. CASE ControlReturns \/ ControlFinishes
  BY <1>5 DEF ControlReturns, ControlFinishes, Controlled
<1>6. ASSUME NEW r \in Requests, Yield(r)
      PROVE  CountsOK'
  BY <1>6 DEF Yield
<1>7. CASE ReadReturns \/ ClearInput
  BY <1>7 DEF ReadReturns, ClearInput
<1>8. CASE ToPrompt \/ ToCommand \/ ToAgain \/ EndWar \/ \E t \in Traps : SetTrap(t)
  BY <1>8 DEF ToPrompt, ToCommand, ToAgain, GoOn, EndWar, SetTrap
<1> QED
  BY <1>1, <1>2, <1>3, <1>4, <1>5, <1>6, <1>7, <1>8 DEF Next, Drive, Asks

\* What the driver knows when it goes to sleep.
LEMMA Awaited ==
    ASSUME Inv, NEW r \in Requests, Await(r)
    PROVE  \/ waiting' = "none" /\ pc' = "ready"
           \/ /\ waiting' = Request(r) /\ waiting' \in Requests /\ pc' = "waiting"
              /\ ~cancelled /\ ~controlFailed /\ (interrupted => closed)
              /\ waiting' = "input" => ~closed
              /\ waiting' \in {"input", "wakeable"} => queued = 0 \/ closed
<1>1. queued > 0 \/ queued = 0
  BY DEF Inv, TypeOK, CountsOK
<1> QED
  BY <1>1 DEF Await, NoWait, Request

LEMMA SamePending == controls' = controls => (Pending' <=> Pending)
BY DEF Pending

\* The calls from outside keep the invariant.
LEMMA CallsKeep ==
    ASSUME Inv, CountsOK',
           \/ \E n \in 0..MaxControls, k \in 0..MaxBytes : Packet(n, k)
           \/ BadInterrupt \/ Disconnect \/ Cancel \/ TimerFires \/ LockGranted \/ Latch
    PROVE  Inv'
<1> USE DEF Inv, TypeOK, SleepsOnlyWhenIdle, ControlsPlaced, ShouldFinish,
        FinishingRun, LeftBehind, SleepingRead, AnsweredAtOnce, NoticedFirst, Wake, Sleep, InterruptsRead, BytesWake
<1>1. ASSUME NEW n \in 0..MaxControls, NEW k \in 0..MaxBytes, Packet(n, k)
      PROVE  Inv'
  <2>1. /\ n = 0 \/ n > 0
        /\ k = 0 \/ k > 0
        /\ k = 0 => queued' = queued
        /\ n = 0 => controls' = controls
        /\ n > 0 => pc' = "next" /\ Pending'
    BY <1>1, BoundsAssumption DEF BoundsAssumption, CountsOK, Packet, Pending
  <2>2. CASE n > 0
    BY <1>1, <2>1, <2>2 DEF Packet
  <2>3. CASE ~(n > 0)
    BY <1>1, <2>1, <2>3, SamePending DEF Packet
  <2> QED
    BY <2>2, <2>3
<1>2. CASE BadInterrupt
  BY <1>2, SamePending DEF BadInterrupt
<1>3. CASE Disconnect
  BY <1>3, SamePending DEF Disconnect
<1>4. CASE Cancel
  BY <1>4, SamePending DEF Cancel
<1>5. CASE TimerFires
  BY <1>5, SamePending DEF TimerFires
<1>6. CASE LockGranted
  BY <1>6, SamePending DEF LockGranted
<1>7. CASE Latch
  BY <1>7, SamePending DEF Latch
<1> QED
  BY <1>1, <1>2, <1>3, <1>4, <1>5, <1>6, <1>7

\* So does the driver between two waits.
LEMMA DriveKeeps == ASSUME Inv, CountsOK', Drive PROVE Inv'
<1> USE DEF Inv, TypeOK, SleepsOnlyWhenIdle, ControlsPlaced, ShouldFinish,
        FinishingRun, LeftBehind, SleepingRead, AnsweredAtOnce, NoticedFirst, Woken, Proceeds, Controlled, Ends
<1>1. CASE Abort
  BY <1>1 DEF Abort
<1>2. CASE ControlExits
  BY <1>2, SamePending DEF ControlExits
<1>3. CASE ControlYields
  <2>1. Pending /\ run # "left" /\ ~ShouldFinish /\ trap # "none" /\ ~finished
    BY <1>3 DEF ControlYields, Pending
  <2> QED
    BY <1>3, <2>1, Awaited, SamePending DEF ControlYields, Request
<1>4. CASE ControlReturns
  <2>1. Pending
    BY <1>4 DEF ControlReturns, Pending
  <2> QED
    BY <1>4, <2>1 DEF ControlReturns
<1>5. CASE Resume
  <2>1. ~Pending \/ run = "left"
    BY <1>5 DEF Resume, Pending
  <2> QED
    BY <1>5, <2>1, SamePending DEF Resume
<1>6. CASE ControlFinishes
  <2>1. Pending
    BY <1>6 DEF ControlFinishes, Pending
  <2> QED
    BY <1>6, <2>1, SamePending DEF ControlFinishes
<1> QED
  BY <1>1, <1>2, <1>3, <1>4, <1>5, <1>6 DEF Drive

\* And the program while it runs.
LEMMA ProgramKeeps ==
    ASSUME Inv, CountsOK',
           \/ Asks \/ ReadReturns \/ ClearInput
           \/ (\E t \in Traps : SetTrap(t)) \/ ToPrompt \/ ToCommand \/ ToAgain \/ EndWar
    PROVE  Inv'
<1> USE DEF Inv, TypeOK, SleepsOnlyWhenIdle, ControlsPlaced, ShouldFinish,
        FinishingRun, LeftBehind, SleepingRead, AnsweredAtOnce, NoticedFirst, Running, Plays, Finishing, Ends, GoOn
<1>1. CASE ReadSleeps
  <2>1. Await("input") /\ ~closed /\ ~finished
    BY <1>1 DEF ReadSleeps
  <2>2. stage # "finishing" /\ ~ShouldFinish
    BY <1>1 DEF ReadSleeps
  <2> QED
    BY <1>1, <2>1, <2>2, Awaited, SamePending DEF ReadSleeps, Request
<1>2. CASE FinishYields
  BY <1>2, Awaited, SamePending DEF FinishYields, Request
<1>3. CASE Exit
  BY <1>3, SamePending DEF Exit
<1>4. ASSUME NEW r \in Requests, Yield(r)
      PROVE  Inv'
  BY <1>4, Awaited, SamePending DEF Yield, Request
<1>5. CASE ReadReturns
  BY <1>5, SamePending DEF ReadReturns
<1>6. CASE ClearInput
  BY <1>6, SamePending DEF ClearInput
<1>7. CASE ToPrompt
  BY <1>7, SamePending DEF ToPrompt
<1>8. CASE ToCommand \/ ToAgain
  BY <1>8, SamePending DEF ToCommand, ToAgain
<1>9. CASE EndWar
  BY <1>9, SamePending DEF EndWar
<1>10. ASSUME NEW t \in Traps, SetTrap(t)
       PROVE  Inv'
  BY <1>10, SamePending DEF SetTrap
<1> QED
  BY <1>1, <1>2, <1>3, <1>4, <1>5, <1>6, <1>7, <1>8, <1>9, <1>10 DEF Asks

LEMMA Invariance == Spec => []Inv
<1>1. Inv /\ [Next]_vars => Inv'
  <2> SUFFICES ASSUME Inv, [Next]_vars PROVE Inv'
    OBVIOUS
  <2>1. CASE Next
    BY <2>1, CountsKept, CallsKeep, DriveKeeps, ProgramKeeps DEF Next
  <2>2. CASE UNCHANGED vars
    BY <2>2 DEF Inv, TypeOK, CountsOK, SleepsOnlyWhenIdle, ControlsPlaced, Pending, ShouldFinish,
                FinishingRun, LeftBehind, SleepingRead, AnsweredAtOnce, NoticedFirst
  <2> QED
    BY <2>1, <2>2
<1> QED
  BY InvInit, <1>1, PTL DEF Spec

\* Type correctness of the driver (GameSession of session.ts).
THEOREM DriverTypeCorrect == Spec => []TypeOK
BY Invariance, PTL DEF Inv

\* No wake-up is lost: wait never stores a wake function when there is work.
THEOREM NoLostWakeUp == Spec => []SleepsOnlyWhenIdle
BY Invariance, PTL DEF Inv

\* In play, where ^C has no routine, the war is never to be finished inside one
\* (GameSession.drive and shouldFinish of playable-ending.ts); where it has one,
\* in SETUP and up to the prompt, the routine may have to.
THEOREM EndInProgramOnly == Spec => []EndMeetsNoControl
<1>1. Inv => EndMeetsNoControl
  BY DEF Inv, ControlsPlaced, LeftBehind, Pending, EndMeetsNoControl
<1> QED
  BY Invariance, <1>1, PTL

\* The flag of a ^C never outlives the read it was meant for: no later read of
\* the program meets it (terminal.read and interrupt of GameSession).
THEOREM OneReadPerInterrupt == Spec => []InterruptEndsOneRead
<1>1. Inv => InterruptEndsOneRead
  BY DEF Inv, AnsweredAtOnce, InterruptEndsOneRead
<1> QED
  BY Invariance, <1>1, PTL
=============================================================================
