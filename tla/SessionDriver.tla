--------------------------- MODULE SessionDriver ---------------------------
(***************************************************************************)
(* One terminal session as the event loop sees it.  The game program and   *)
(* the control routines (the trap of ^C) are generators: they run without  *)
(* a break until they ask for a wait.  The driver either resumes them at   *)
(* once, or stores a wake function and sleeps until input, a timer, a      *)
(* control, another session or the end of the server calls it.  Between    *)
(* that call and the resumed generator lies a turn of the microtask queue. *)
(*                                                                         *)
(* The program is abstracted to what it may ask for, and to its place in   *)
(* the game, which decides whether the end of the war finishes it.         *)
(***************************************************************************)
EXTENDS Naturals

CONSTANTS
    MaxBytes,       \* bound on the bytes that are queued
    MaxControls     \* bound on the controls that are pending

ASSUME BoundsAssumption == MaxBytes \in Nat /\ MaxControls \in Nat

VARIABLES
    queued,         \* how many bytes have not been read
    closed,         \* the terminal is gone
    interrupted,    \* a ^C arrived during the suspended read
    cancelled,      \* the server ends
    controlFailed,  \* a control routine could not even start
    controls,       \* how many control routines have not ended
    waiting,        \* what the stored wake function waits for
    pc,             \* the driver: waiting, woken (next, ready), running, done
    run,            \* the program: inside read, finishing the war, or elsewhere;
                    \* or left, for a ^C routine that finishes the war instead
    stage,          \* the program's place in the game
    trap,           \* the routine that a ^C calls, if any
    ended           \* the war of its galaxy has ended

vars == <<queued, closed, interrupted, cancelled, controlFailed, controls,
          waiting, pc, run, stage, trap, ended>>
signals == <<closed, cancelled, controlFailed>>
game    == <<run, stage, trap, ended>>

Requests == {"input", "delay", "wakeable", "cooperate"}

\* CC1 and CC2 cancel the admission, CLRBUF rings the bell.
Traps == {"none", "cancel", "bells"}

Init ==
    /\ queued = 0 /\ controls = 0
    /\ closed = FALSE /\ interrupted = FALSE /\ ended = FALSE
    /\ cancelled = FALSE /\ controlFailed = FALSE
    /\ waiting = "none" /\ pc = "next"
    /\ run = "elsewhere" /\ stage = "admission" /\ trap = "none"

finished == pc = "done"

-----------------------------------------------------------------------------
(* Calls from outside.  What comes out of the event loop's own queues finds *)
(* every microtask done: the driver waits or has ended.                     *)

\* Slip: the stored wait is not forgotten.
WakeOnly(then) ==
    /\ pc' = IF pc = "waiting" THEN then ELSE pc
    /\ UNCHANGED waiting

Wake(then) ==
    /\ waiting' = "none"
    /\ pc' = IF pc = "waiting" THEN then ELSE pc

Sleep == UNCHANGED <<waiting, pc>>

\* Slip: any wait counts as a suspended read.
InterruptsWait == TRUE

InterruptsRead == waiting = "input"

BytesWake == waiting \in {"input", "wakeable"}

\* A packet with n interrupts and k bytes: the interrupts are delivered first,
\* and the first of them uses up the wait.
Packet(n, k) ==
    /\ pc = "waiting" /\ ~closed /\ n + k > 0
    /\ controls + n <= MaxControls /\ queued + k <= MaxBytes
    /\ interrupted' = (interrupted \/ (n > 0 /\ InterruptsRead))
    /\ controls' = controls + n
    /\ queued' = queued + k
    /\ IF n > 0 \/ BytesWake THEN Wake("next") ELSE Sleep
    /\ UNCHANGED <<signals, game>>

\* The routine for ^C throws before it has become a generator.
BadInterrupt ==
    /\ pc = "waiting" /\ ~closed
    /\ interrupted' = (interrupted \/ InterruptsRead)
    /\ controlFailed' = TRUE
    /\ Wake("next")
    /\ UNCHANGED <<queued, closed, cancelled, controls, game>>

\* End, error or close of the socket, or nobody answered in admission.
Disconnect ==
    /\ pc = "waiting" /\ ~closed
    /\ closed' = TRUE
    /\ Wake("next")
    /\ UNCHANGED <<queued, interrupted, cancelled, controlFailed, controls, game>>

\* Slip: the flag is set, and the wait goes on.
CancelQuietly ==
    /\ pc = "waiting"
    /\ closed' = TRUE /\ cancelled' = TRUE
    /\ Sleep
    /\ UNCHANGED <<queued, interrupted, controlFailed, controls, game>>

\* The server ends: disconnect, then cancel.
Cancel ==
    /\ pc = "waiting"
    /\ closed' = TRUE /\ cancelled' = TRUE
    /\ Wake("next")
    /\ UNCHANGED <<queued, interrupted, controlFailed, controls, game>>

TimerFires ==
    /\ pc = "waiting" /\ waiting \in {"delay", "wakeable", "cooperate"}
    /\ Wake("next")
    /\ UNCHANGED <<queued, interrupted, signals, controls, game>>

\* Another session releases a lock this one had asked for.
LockGranted ==
    /\ pc = "waiting"
    /\ Wake("ready")
    /\ UNCHANGED <<queued, interrupted, signals, controls, game>>

\* Slip: the latch wakes nobody.
LatchQuietly ==
    /\ pc \in {"waiting", "ready"} /\ ~ended
    /\ ended' = TRUE
    /\ Sleep
    /\ UNCHANGED <<queued, interrupted, signals, controls, run, stage, trap>>

\* Another session ends the war: every listener is woken.
Latch ==
    /\ pc \in {"waiting", "ready"} /\ ~ended
    /\ ended' = TRUE
    /\ Wake("ready")
    /\ UNCHANGED <<queued, interrupted, signals, controls, run, stage, trap>>

-----------------------------------------------------------------------------
(* The driver.                                                             *)

\* After end of file a read only cooperates.
Request(r) == IF closed /\ r = "input" THEN "cooperate" ELSE r

\* Slip: queued bytes do not keep a wait from sleeping.
NoWaitButBytes(r) == cancelled \/ controlFailed \/ (~closed /\ interrupted)

\* Reasons not to sleep at all.
NoWait(r) ==
    \/ cancelled \/ controlFailed
    \/ ~closed /\ interrupted
    \/ ~closed /\ queued > 0 /\ r \in {"input", "wakeable"}

Await(r) ==
    IF NoWait(Request(r))
    THEN waiting' = "none" /\ pc' = "ready"
    ELSE waiting' = Request(r) /\ pc' = "waiting"

Ends ==
    /\ pc' = "done" /\ waiting' = "none"
    /\ queued' = 0
    /\ UNCHANGED <<interrupted, signals, ended>>

Woken == pc \in {"next", "ready"}
Proceeds == Woken /\ ~cancelled /\ ~controlFailed

\* A failed control or the cancellation ends the session before anything runs.
Abort ==
    /\ Woken /\ (cancelled \/ controlFailed)
    /\ Ends
    /\ controls' = 0
    /\ UNCHANGED <<run, stage, trap>>

\* The war is over, and this captain is not in the middle of a command: he is in
\* GETCMD, or lost his ship and is before the game or in SETUP once more.
ShouldFinish == ended /\ stage \in {"prompt", "again"}

\* The routine of a ^C is due, before the program.
Controlled == Proceeds /\ controls > 0 /\ run # "left"

\* CC1 and CC2 end the session.
ControlExits ==
    /\ Controlled /\ ~ShouldFinish /\ trap = "cancel"
    /\ Ends
    /\ UNCHANGED <<controls, run, stage, trap>>

\* They print, and so does CLRBUF.
ControlYields ==
    /\ Controlled /\ ~ShouldFinish /\ trap # "none"
    /\ Await("cooperate")
    /\ UNCHANGED <<queued, interrupted, signals, controls, game>>

\* The routine returns, and the driver goes on in the same turn.
ControlReturns ==
    /\ Controlled /\ ~ShouldFinish
    /\ controls' = controls - 1
    /\ pc' = "next"
    /\ UNCHANGED <<queued, interrupted, signals, waiting, game>>

\* The war is finished inside the routine; the program is never resumed.
ControlFinishes ==
    /\ Controlled /\ ShouldFinish
    /\ pc' = "running"
    /\ run' = "left" /\ stage' = "finishing"
    /\ UNCHANGED <<queued, interrupted, signals, controls, waiting, trap, ended>>

\* The program runs on, or the routine that finishes the war in its place; the
\* end of the war is noticed first.
Resume ==
    /\ Proceeds /\ (controls = 0 \/ run = "left")
    /\ pc' = "running"
    /\ IF ShouldFinish
       THEN run' = "finishing" /\ stage' = "finishing"
       ELSE UNCHANGED <<run, stage>>
    /\ UNCHANGED <<queued, interrupted, signals, controls, waiting, trap, ended>>

-----------------------------------------------------------------------------
(* The program, until it asks for a wait.                                  *)

Running == pc = "running"
Plays   == Running /\ run = "elsewhere"
Finishing == run \in {"finishing", "left"}

\* terminal.read: it sleeps while there is nothing to return.
ReadSleeps ==
    /\ Running /\ ~Finishing
    /\ queued = 0 /\ ~closed /\ ~interrupted
    /\ run' = "reading"
    /\ Await("input")
    /\ UNCHANGED <<queued, interrupted, signals, controls, stage, trap, ended>>

\* Slip: the interrupt stays.
ReadReturnsAgain ==
    /\ Running /\ ~Finishing
    /\ queued > 0 \/ closed \/ interrupted
    /\ queued' = IF interrupted \/ queued = 0 THEN queued ELSE queued - 1
    /\ run' = "elsewhere"
    /\ UNCHANGED <<interrupted, signals, controls, waiting, pc, stage, trap, ended>>

\* It returns nothing for an interrupt, then a byte, then nothing for the end.
ReadReturns ==
    /\ Running /\ ~Finishing
    /\ queued > 0 \/ closed \/ interrupted
    /\ interrupted' = FALSE
    /\ queued' = IF interrupted \/ queued = 0 THEN queued ELSE queued - 1
    /\ run' = "elsewhere"
    /\ UNCHANGED <<signals, controls, waiting, pc, stage, trap, ended>>

Yield(r) ==
    /\ Plays /\ r # "input"
    /\ Await(r)
    /\ UNCHANGED <<queued, interrupted, signals, controls, game>>

ClearInput ==
    /\ Plays
    /\ queued' = 0
    /\ UNCHANGED <<interrupted, signals, controls, waiting, pc, game>>

\* SETUP sets a routine for ^C at every step, GETCMD sets none.
SetTrap(t) ==
    /\ Plays
    /\ stage \in {"admission", "again"} \/ (stage = "prompt" /\ t = "none")
    /\ trap' = t
    /\ UNCHANGED <<queued, interrupted, signals, controls, waiting, pc, run, stage, ended>>

\* GETCMD begins, and it returns: the end of the war is looked at twice.
GoOn(here) ==
    /\ IF ended THEN run' = "finishing" /\ stage' = "finishing"
                ELSE run' = run /\ stage' = here
    /\ UNCHANGED <<queued, interrupted, signals, controls, waiting, pc, trap, ended>>

\* The routine SETUP set last stays until GETCMD has shown the news.
ToPrompt == Plays /\ stage \in {"admission", "again", "command"} /\ GoOn("prompt")

ToCommand == Plays /\ stage = "prompt" /\ trap = "none" /\ GoOn("command")

\* GETCMD found the ship destroyed: back to PREGAM.
ToAgain == Plays /\ stage = "prompt" /\ trap = "none" /\ GoOn("again")

\* A command of this captain ends the war.
EndWar ==
    /\ Plays /\ stage = "command" /\ ~ended
    /\ ended' = TRUE
    /\ UNCHANGED <<queued, interrupted, signals, controls, waiting, pc, run, stage, trap>>

\* Quit, fault, or monitor exit.
Exit ==
    /\ Running /\ run # "reading"
    /\ Ends
    /\ UNCHANGED <<controls, run, stage, trap>>

FinishYields ==
    /\ Running /\ Finishing
    /\ Await("cooperate")
    /\ UNCHANGED <<queued, interrupted, signals, controls, game>>

-----------------------------------------------------------------------------
Drive ==
    \/ Abort \/ Resume
    \/ ControlExits \/ ControlYields \/ ControlReturns \/ ControlFinishes

Asks == ReadSleeps \/ FinishYields \/ Exit \/ \E r \in Requests : Yield(r)

Next ==
    \/ \E n \in 0..MaxControls, k \in 0..MaxBytes : Packet(n, k)
    \/ BadInterrupt \/ Disconnect \/ Cancel \/ TimerFires \/ LockGranted \/ Latch
    \/ Drive
    \/ Asks \/ ReadReturns \/ ClearInput
    \/ (\E t \in Traps : SetTrap(t)) \/ ToPrompt \/ ToCommand \/ ToAgain \/ EndWar

Spec == Init /\ [][Next]_vars

\* Microtasks and timers run, and a read that may return does.  The program and
\* the control routines ask for a wait again and again, and finishing the war
\* comes to an end.
Fairness ==
    /\ WF_vars(Drive) /\ WF_vars(TimerFires)
    /\ WF_vars(ReadReturns /\ run = "reading") /\ SF_vars(Asks)
    /\ SF_vars(ControlReturns) /\ SF_vars(ControlExits) /\ SF_vars(Resume)
    /\ SF_vars(Exit /\ Finishing)

FairSpec == Spec /\ Fairness

-----------------------------------------------------------------------------
CountsOK == queued \in 0..MaxBytes /\ controls \in 0..MaxControls

TypeOK ==
    /\ CountsOK
    /\ closed \in BOOLEAN /\ interrupted \in BOOLEAN /\ ended \in BOOLEAN
    /\ cancelled \in BOOLEAN /\ controlFailed \in BOOLEAN
    /\ waiting \in Requests \cup {"none"}
    /\ pc \in {"waiting", "next", "ready", "running", "done"}
    /\ waiting = "none" <=> pc # "waiting"
    /\ run \in {"reading", "finishing", "left", "elsewhere"}
    /\ stage \in {"admission", "prompt", "command", "again", "finishing"}
    /\ trap \in Traps

\* No wake-up is lost: whoever sleeps has nothing to do, neither a byte to read,
\* nor an end of file, nor a ^C, nor a cancellation, nor the end of the war.
SleepsOnlyWhenIdle ==
    pc = "waiting" =>
        /\ ~cancelled /\ ~controlFailed
        /\ interrupted => closed
        /\ waiting = "input" => ~closed
        /\ waiting \in {"input", "wakeable"} => queued = 0 \/ closed
        /\ ~ShouldFinish

\* A ^C ends the read it found suspended, and no later one: "A HIBER wake must
\* not inject an empty read into a later prompt".  If its routine finishes the
\* war, that read was the last.
InterruptEndsOneRead ==
    interrupted /\ ~finished => run \in {"reading", "left"}

\* In play, where ^C calls nothing, no routine of one is pending when a captain
\* is to finish the war: he does it from where the program waits.  In SETUP and
\* in the news that follow it the routine prints, and may be left for the end.
EndMeetsNoControl ==
    controls > 0 /\ trap = "none" /\ ~finished => ~ShouldFinish

\* A ^C at a prompt is answered: the read returns, or the session ends.
InterruptAnswered == interrupted ~> (~interrupted \/ finished)

\* A captain at a prompt, or back in SETUP, when the war ends sees the end,
\* whatever he types, unless he types ^C for ever where it has a routine.
WarEndSeen ==
    []<>(controls > 0 /\ trap # "none") \/ ((ended /\ stage \in {"prompt", "again"}) ~> finished)

\* The end of the server ends the session.
CancelFinishes == cancelled ~> finished
=============================================================================
