# DECWAR in TLA+

A formal companion of the TypeScript port of DECWAR (`src/`), the multi-player
space war written in FORTRAN and MACRO-10 in 1978. The port keeps the original
statement by statement: 36-bit words, COMMON blocks that all sessions share,
ENQ/DEQ locks, linked queues, 25 ms sleeps. One Node process runs every session
as a generator, so what was preemptive on the PDP-10 is now atomic between two
`yield`s, and what can go wrong is what can happen *at* a yield. That is what
the modules here are about.

The modules are written from the code. The Austin variant, the one with a
single global lock, is modelled; where the CompuServe variant differs this is
said below.

## 1. The system

### Components

| Component | State | Operations |
|---|---|---|
| Monitor resource locks (`runtime/resource-locks.ts`) | owner and FIFO of waiters per name | request, release, dequeue, releaseJob |
| LOCK/UNLO (`compat/lock.ts`, `compat/unlock.ts`) | LKFAIL, the job's claims | one request; on refusal a 25 ms sleep with the claim left queued; UNLO drops everything of the job |
| Galaxy: SETUP, FREE (`game/setup-*`, `game/free-*`) | NUMPLY, NUMSID, ALIVE, JOB, KILQUE, HITIME, TIM0 | count in, create, ask side/defection/ship, commission, cancel, free, remember the killed |
| War ending (`runtime/playable-ending.ts`, `runtime/war-ending-state.ts`) | NPLNET, NBASE, ENDFLG, outcome, retired | detection in a hook on the counts, latch, finalisation of each session |
| World directory (`runtime/world-directory.ts`) | the published galaxy | load, withdraw |
| Session driver (`runtime/session.ts`) | byte queue, flags, control routines, the stored wake function | wait, wake, receive, interrupt, disconnect, cancel, drive |
| Live session (`runtime/game-session.ts`) | binding of all of these, phase | run, boot, control traps, release at exit |
| Message queue (`compat/queue-*`, `compat/*message*`) | 32 slots, links, recipients, MSGFLG | reserve (with eviction), publish, search, remove |
| Hit queue (`compat/make-hit-*`, `compat/get-hit-*`, `game/out-hit-*`) | a ring of 40 slots per ship, serials, recipients, HITFLG | MAKHIT, GETHIT, OUTHIT, SETQH |
| Board, movement, tractor beams (`game/move-*`, `game/jump-*`, `game/tractor-*`, `compat/board-runtime.ts`) | BOARD, SHPCON, ALIVE, TRSTAT | MOVE, JUMP, PLACE, SETDSP, TRACTOR, TRCOFF, SHIELD |
| Planets and bases (`game/build-*`, `game/capture-*`, `game/remove-planet-*`) | LOCPLN, NPLNET, NUMCAP, BASE, NBASE, their codes on BOARD | BUILD, CAPTURE, PLNRMV, DOCK |
| Weapons (`game/phaser-*`, `game/torpedo-*`, `game/nova-*`, `game/weapon-damage-*`) | SHPCON, SHPDAM, BASE, LOCPLN | PHASER, TORP, NOVA, TORDAM, PHADAM |
| Romulan (`game/romulan-*`) | ROM, LOCR, EROM | moves, fires and speaks in the turn of some captain |
| Turns, repair, shields, energy, status | clocks and device words of one ship | sequential bookkeeping |
| Command loop, parser, terminal input | command line, tokens | GETCMD, PROMPT, GTKN |
| Telnet transport (`transport/*`) | sockets, admission timers | accept, limits, shutdown |
| Output, scans, lists, points, files, arithmetic, generated tables | - | conversions, reports, file I/O |

`PROJECT.json` ("components") says of each whether it is modelled, partly or
not, and why.

### Interactions

* **Shared words.** All sessions of a galaxy read and write the same COMMON
  block. There is no copy and no transaction: a routine that yields between a
  test and a store has to live with what others did meanwhile.
* **Locks.** GLOBAL (FRELOK, PLNLOK and every other LOCK argument of the Austin
  variant) and INTERNAL (queues, statistics). A refused LOCK is not withdrawn.
* **Queues.** Hits and messages are how a command of one session reaches the
  terminal of another; HITFLG and MSGFLG are its doorbells.
* **Hooks.** Stores to NBASE, NPLNET run the detection of the end; the latch
  wakes every session of the galaxy.
* **Events.** Sockets, timers, ^C routines and the latch call the driver, which
  resumes a generator one microtask turn later.

### What is hard here

Interleavings at yields (a refused LOCK, a pause, a prompt, every output);
claims that are granted behind a program's back; captains that leave at any
prompt, by ^C, hangup or the admission limit; doorbells that count too much or
too little; slots reused under a reader; the end of the war in the middle of
anything; wake-ups that arrive between a wake and the continuation. Nothing is
persisted but statistics files, and no message can be lost on the way: there is
no crash recovery and no unreliable delivery to model. `PROJECT.json`
("hazards") lists each place with the properties that guard it.

## 2. Modules

| Module | Models | Used by |
|---|---|---|
| `ResourceLocks` | the monitor's lock table, as operators for its callers and as a specification of its own | `AustinLock` |
| `AustinLock` | LOCK, UNLO and every routine that uses them, by its kind | `MCAustinLock` |
| `Galaxy` | SETUP, FREE, KILQUE, the ending, publication | `MCGalaxy` |
| `SessionDriver` | the event loop's view of one session | run directly |
| `MessageQueue` | RSRV, UPDT, SRCH, REMV, GETMSG, TELL, OUTMSG, with their LOCKs granted or refused | `MCMessageQueue` |
| `Mailboxes` | what messages promise (abstract) | `MessageQueue` |
| `HitQueue` | MAKHIT, GETHIT, OUTHIT's loop, FREE's drain, SETQH | `MCHitQueue` |
| `HitBoxes` | what hits promise (abstract) | `HitQueue` |
| `Planets` | the planet table, the bases, their codes and counts: BUILD, CAPTURE, PLNRMV, weapons at planets and bases | `MCPlanets` |
| `Fleet` | the ships on the board, ALIVE, tractor beams: MOVE, SHIELD, TRACTOR, FREE, weapons at ships; the Romulan among them: ROMDRV, DIST, TOROM, PHAROM | `MCFleet` |
| `*Proofs` | theorems about `ResourceLocks`, `AustinLock`, `Galaxy`, `SessionDriver`, `MessageQueue` and `Mailboxes`, `HitQueue` and `HitBoxes`, `Planets`, `Fleet` | |

"Slip" marks an operator that is a plausible mistake in the definition below
it; `PROJECT.json` ("mutants") pairs each property with the slip that breaks it.

### ResourceLocks and AustinLock

`owner` and `waiters` are the Map of `resource-locks.ts`; an absent entry is
`NoJob` with an empty queue. `Request`, `Release`, `Dequeue`, `ReleaseJob`
follow its methods, `ReleaseJob` with the code's order (all claims withdrawn,
then everything owned handed over).

`AustinLock` adds the program of each session: `pc`, the call site it last
asked from, `held`, the locks the program *believes* in (LKFAIL was 0 and no
UNLO since), and the place in FREE's drain of messages. Callers fall into two
kinds, those that repeat LOCK and those that give up. All routines but SETUP,
STAZAP and FREE run from LOCK to UNLO without a yield; these three are modelled
with their sections open. The nesting matters: GETMSG inside FREE ends with an
UNLO, which gives FREE's own lock away; if GETMSG then finds INTERNAL refused,
the rest of FREE (REMV and the last writes) runs beside a captain whom that UNLO
has let into SETUP. `Unguarded` names this FREE, the one exception of
`SetupUndisturbed`. It takes three sessions: INTERNAL was granted to the first by
an old claim of its own, a second waits behind it, and UNLO hands INTERNAL to
the second and GLOBAL to the third. GETCMD is in two stages: it zaps the locks,
reads the messages (`reading`, where SRCH may be refused again), zaps once more
and prompts. A captain turned to his ending in the middle of FREE is in `Galaxy`
only.

### Galaxy

Sessions go through `away`, `pregame`, the prompts of SETUP, `ready`,
`command`, `dying` or `leaving`, one of the `Endings`, `gone`. NUMPLY, NUMSID, ALIVE,
KILQUE, HITIME and the count words are there under their names; ALIVE's three
values are "free", "taken" and "dead". FRELOK appears as the session that holds
it across a yield. What a command does is its effect on these words (`Effects`):
destroy a ship, a base, a planet, build a base. A phaser is in two actions
(`Aim`, `Fire`), since PHADAM does not ask after the pause whether the ship is
still alive: it may make a wreck of a ship that is back in the pool, which
`adrift` remembers. `Detect` is the hook; `Over` is `shouldFinish()` looked at
before a session is resumed. The admission limit is the flag `limit`;
`DropLimit` is the timer that fires during play.

FREE is in four actions. It tests ALIVE and asks for its lock (`AskToFree`), has
it and counts its captain out (`StartFree`), may lose it to the UNLO of a GETMSG
(`GiveAway`) and puts the ship back when the drain is over (`LeaveShip`). Between
the two last another session may look, and the end of the war may come: the
session is turned to its ending, whose own FREE finds ALIVE as it was and counts
the captain out a second time. The same happens to one who interrupts the report
of the ending by ^C when the routine that SETUP set at a prompt (CC1, CC2) is
still his: that routine counts him out, after FREE has. `torn` remembers the two
things that can come between the halves of a FREE: "twice", such a second count,
and "clearing", SETUP's clearing of the galaxy while a FREE that has brought
NUMPLY to 0 still drains; its last write then falls into the next galaxy.
`OneCaptainPerShip`, `HeadCount` and `ShipsAccountedFor` hold as long as neither
has happened. Without that condition TLC finds the last two violated in the
instance of `galaxy`, and the first with three sessions whose commands may end the
war.

A name that no ship has leaves WHO at KNPLAY+1 (`Nameless`). ALIVE of that is the
word COMKNT, GETCMD's count of commands, taken for positive: then FREE has
nothing to do. In the turn in which GETCMD has just set it to 0, FREE would go on
over the words beside its tables; that is left out.

### SessionDriver

The generator is what it may ask for (`input`, `delay`, `wakeable`,
`cooperate`) and its place in the game. `pc` separates `waiting`, `next` or
`ready` (a wake function was called, the continuation is due; `next` when it
came from the event loop's own queues), `running` and `done`. Input packets are
one step with all their interrupts, as `transport/server.ts` delivers them.
`trap` is what ^C calls: nothing, the cancellation that SETUP sets, or the
bells. After a death the session is in SETUP again (stage `again`), armed but not
active, and SETUP sets its routine again. There the end of the war can be raised
inside a ^C routine whose output had yielded; the program is then left to its
ending from within it (`run` is "left"). `EndMeetsNoControl` therefore speaks of
places without a routine.

### MessageQueue and Mailboxes

Links, recipients and the header word are as in the code, the header as link
-1. Texts are message identities. RSRV, UPDT, SRCH and REMV each run from LOCK to
UNLO without a yield, and between two of them nothing yields but a LOCK that is
refused. So MAKMSG and GETMSG are one step when their LOCKs are granted, and
stop where one may be refused: with a slot reserved and its text in it
(`publish`), with a message copied and not yet unlinked (`remove`), and with
MSGFLG counted down and nothing searched (`refused`). A refusal of RSRV changes
nothing, so there `Send` is merely not taken yet. Whose lock it is does not
matter here, and a LOCK is refused or not as it likes: `AustinLock` shows that
after a refusal a captain may own INTERNAL unknowingly, until his next UNLO
hands it to the next waiter. That is how SRCH can be granted and the REMV right
behind it refused.

REMV asks again with the place SRCH found before the sleep; GETMSG takes a
refused SRCH for an empty mailbox. `OnlyStaleBreaks` and `OnlyRefusedUncounts`
say that nothing else can harm the list (`ListWellFormed`) or leave a message
that no count announces (`NothingUncounted`). Each needs its exceptions; without
them TLC shows, for instance:

* A captain's SRCH is refused; he sleeps, MSGFLG becomes 0, his messages stay in
  the list. He quits, and the next captain of the ship reads them once
  somebody writes to him.
* A captain has found the second entry of the list and sleeps in REMV. The first
  entry is read by its recipient and its slot is free again. REMV unlinks the
  second entry by writing to the link of the free one: the header still leads to
  the slot REMV has cleared, and a search that follows it may run in a circle.

`Interrupted` and `UseX2` are the cancellation of a message by ^C, which
removes whatever register X2 names; they are only in `SpecInterrupted`.
`Mailboxes` says: a message joins all boxes of its recipients, each captain
reads his own in order and once, and when the store is full whole boxes are
lost, never parts of them. `MailboxSpec` is that, until a REMV is stale. What
OUTMSG prints when GETMSG found nothing, the buffer's old text once more, is not
a delivery of a message and is left out.

### HitQueue and HitBoxes

`to` and `serial` are the two halves of HITQL, `hitq` the report (its number),
`hitflg` the counts. MAKHIT takes the first slot nobody has to read, else the
lowest serial, and overwrites its recipients; their counts stay. GETHIT counts
down before it looks and reads in the order of the slots. FREE drains as often
as the count says, and may sleep before ALIVE = 1 (`FreeSleeps`). `HitBoxes`
says: a report joins the boxes of its recipients, each sees it once, in any
order, and only the oldest report of a sender with a full ring is lost as long
as the 18-bit serials have not wrapped; after that any one may be.

### Planets

`board` holds the codes of BOARD (100 * kind + index) for planets and bases,
`locpln` the rows of LOCPLN with the rows above NPLNET left as they were,
`base` the slots of BASE with "strength above 0" as a flag. PLNRMV is written
as the code has it: rows move up, and the codes of the cells they name are
lowered, whatever stands there. Everything between two yields is one action.
BUILD yields where it announces a build (`Build`, `FinishBuild`) and PHASER
where it waits for its bank (`Aim`, `Fire`); both go on with the index they
read before. `PlanetsAgree` and `BasesAgree` say that table, board and counts
tell the same story, `Stale` when an index does not name what it named.
`OnlyStaleDisturbs` is the result: nothing but a stale BUILD or PHASER ends the
agreement. Two scenarios TLC produces when `Stale` is dropped from it:

* Two captains build on the last planet. The first announces its build; the
  second makes the fifth and the base, and PLNRMV leaves the old last row with
  its five builds. The first goes on, reads five, and makes a second base in
  another slot and the same cell.
* A captain waits for his bank; the base he aimed at is destroyed by another.
  He fires, the base is destroyed again and NBASE counts it twice: it reaches 0
  with a base standing.

### Fleet

`board` holds the ship a cell shows, `pos`, `up`, `alive`, `trstat` are the
words of SHPCON, ALIVE and TRSTAT, and `cmd` is where each captain's command
stands. Commands that sleep are in several actions: MOVE (`MoveWaits`,
`MoveOn`), PHASER (`Aim`, `Fire`), SHIELD UP (`RaiseShields`, `ShieldsAreUp`),
dying and FREE (`Leave`, `Free`). GETCMD asks whether the ship is alive and
nobody does after that, so a command may run for a wreck. Weapons are actions
of anybody at any time; whether a hit destroys, pushes or only damages is a free
choice, since the arithmetic of damage depends on random numbers. A tow is
written to one cell (truncated step) and stored as another (truncated
difference), both chosen freely. `BoardTrue` says that the board shows every
live ship where it is and nothing else; `OnlyCareless` that only the steps
listed in `Careless`, those that act on what they found before a wait, end that.
FREE is one step here; that it may sleep in its drain is in `AustinLock`,
`Galaxy` and `HitQueue`.

The Romulan is a craft of its own: ROM is `alive[Rom]`, LOCR `pos[Rom]`. ROMDRV
runs in the turn that follows a captain's command (`HasTurn`) and sleeps twice:
after the Romulan has come it may speak (`RomulanArrives`), and after it has
moved a captain with the password is told where (`RomulanMoves`). It then fires
(`RomulanFires`) without asking again whether it, or the ship it found, is still
there. When it fires and how far it moves are free choices (its pauses, counter
and energy are left out). Its targets are those of DIST, which asks ALIVE of the
Federation's ships and only the position of the Empire's (`Candidate`); if DIST
finds none it returns what an earlier search left (`Sighted`). So the careless
steps have two of the Romulan's: it shoots at an Empire wreck in whose last cell
something else stands by now, the Romulan itself perhaps, and takes that off the
board; and a captain who waits for his bank shoots at a Romulan that is gone, and
takes off what stands at LOCR.

## 3. Runs

| Run | Instance | Shows |
|---|---|---|
| `austin_lock` | 3 sessions, 2 LOCK calls a command, one routine of each kind | who counts on a lock owns it (`HoldersOwn`), SETUP and STAZAP have one session each and FREE excludes SETUP until its first message, no claim survives the prompt or the session, SETUP is disturbed by nobody but the tail of a FREE whose lock GETMSG gave away; locks pass in order and nobody is overtaken; a repeated LOCK succeeds, except in a crossed wait |
| `galaxy` | 3 sessions, 1 ship a side, 2 rows of KILQUE, symmetric | one captain per ship, counts equal to captains, no ship lost (as long as no FREE was torn in two), one row per killed captain, no galaxy cleared under captains unless one was counted out twice |
| `galaxy_war` | 2 sessions; bases and planets fall, are built; silent captains | the end is noticed, the galaxy is withdrawn first, no galaxy cleared under captains while bases and planets fall either, and every captain who is not inside a command gets his ending |
| `message_queue` | 3 slots, 3 ships, 2 of them senders, counts of 3 in all, one refused LOCK at a time | only a stale REMV breaks the list, only that or a refused SRCH leaves a message uncounted; refinement of `Mailboxes` until then |
| `hit_queue` | 2 ships, 2 slots each, 5 hits, serials modulo 4 | counts suffice, nothing is inherited, refinement of `HitBoxes` |
| `planets` | 2 captains of one side, 2 planets, a base a side, a free cell, symmetric | base counts are never too high, and table, board and counts agree but for stale commands |
| `fleet` | 2 ships of one side, 1 of the other and the Romulan, 3 cells, symmetric | beams have two ends, and the board is true but for careless steps |
| `session_driver` | 3 bytes, 3 controls | no lost wake-up, ^C ends one read, the end of the war meets no ^C routine in play; every ^C, end of the war and cancellation is answered |

The crossed wait of `austin_lock` takes three sessions. One captain's nova is
refused GLOBAL by another who is at the prompts of SETUP; when that one is done,
the first owns GLOBAL without knowing. A user begins to clear the statistics
(INTERNAL), and the second captain's SRCH is refused. Now the Romulan speaks in
the turn of the first, which repeats LOCK on INTERNAL, and the second captain's
ship is found destroyed, so that FREE repeats GLOBAL. The user finishes: INTERNAL
passes to the second captain. Each repeats what the other owns, and nobody comes
to an UNLO until one hangs up. `InsistentProceeds` names this as its only
exception; without STAZAP there is none.

Four more runs show where the code does not do what the repository says of it;
TLC's counterexample is the scenario (`PROJECT.json`, "findings"):

| Run | Property | Scenario |
|---|---|---|
| `galaxy_limit` | `SetupLockReleased` | the admission limit fires during play and is off for good; its captain dies, re-enters SETUP and keeps the global lock at a prompt for ever |
| `galaxy_keeps` | `CommandKeepsShip` | a captain names a taken ship in SETUP, the war ends, and finalisation frees that ship in the middle of its captain's command |
| `galaxy_undecided` | `NewGalaxyUndecided` | a connection that played before sets up the empty galaxy again; clearing the counts is taken for the end of the war |
| `message_cancel` | `NeverHangs` | ^C at "Msg:" removes an entry named by an old X2; the list becomes a cycle and a search runs for ever |

### Bounds, and why they are enough

* Locks: three sessions are a holder, one that is refused and one that is
  granted a lock behind its back; or an owner and two waiters, the first of which
  leaves. Two of them can cross their waits. `MaxCalls` bounds the calls of a
  command, which is finite, and the searches of FREE's drain after the first; with
  2 a FREE can sleep in REMV beside a captain in SETUP.
* Planets: two rows are what moving up needs, one slot a side is the smallest
  table that can be full. `FullBuild` is 2 instead of 5, `MaxBuild` lets a planet
  be built past it. Stars, other rows and ships are cells out of sight.
* Fleet: two ships make a beam, the third is whoever fires or is in the way;
  cells have no geometry. `Orders` gives one captain MOVE and beams, one no
  command of these, so that he is whoever is in the way, and one phasers and the
  Romulan's turns. `OnUntrue` = FALSE lets nothing begin on an untrue board until
  all captains have left; what has begun goes on. It loses nothing of
  `OnlyCareless`, since that speaks of steps from a true board. The captain in
  whose turn the Romulan moves has the password, for whom its new place is
  printed, so that its phaser may always come after a wait. The proofs have
  neither bound: they hold for every `Orders` and both values of `OnUntrue`.
* Galaxy: with one ship a side, three captains already collide on a ship, on a
  side and on the galaxy; two rows of KILQUE wrap with three captains. Two
  sessions suffice for the war: one is in a command while the other is anywhere.
  `OnCleared` = FALSE lets nobody come, be let in or give a command once a galaxy
  was cleared while a FREE drained; NUMPLY could grow without end after that, and
  the three properties about captains speak of the time before. The proofs hold
  for both its values. Three sessions with falling bases and planets pass as
  well, but take longer (2.3 million states).
* Messages: three slots with two senders leave the list one entry or three;
  eviction, unlinking of the first, a middle and the last entry all happen.
  `SlotsAssumption` (more slots than senders) is 32 > 18 in the program.
  `MaxCount` bounds the sum of MSGFLG, `Addressed` whom a sender writes to (one
  both others, one the first), `Sleepers` how many sleep after a refusal: one is
  enough for a stale place or an uncounted message, since the others go on
  meanwhile. `Next` stops once the list is broken or a message is
  uncounted; the properties speak of the first step that does so. What follows
  on a broken list, the search that never ends, is `message_cancel`'s. The view
  `Seen` identifies states that differ in words that are overwritten before they
  are read.
* Hits: five hits on two slots overwrite unread ones, and pass the wrap at 4 of
  the serials. The view `Seen` hides the words of free slots.
* Driver: three bytes and three controls allow packets that mix both, at every
  place of the program; the proofs of its invariants have no bound.

Symmetry is used in safety runs only. Deadlock is not checked where sessions
end and the system may stop (all instances with sessions that leave), nor for
`planets`, where everything may be destroyed; it is checked for the fleet and
the hit queue.

### Fairness

* `AustinLock`: a session that can go on does, since timers fire and silent
  captains in SETUP are cut off. It is strong because FREE, in several steps
  here, keeps the others out meanwhile. Without the limit it fails: `galaxy_limit`.
* `Galaxy`: a session that is to be turned to its ending is; FREE's LOCK succeeds
  in the end (that is `InsistentProceeds`) and its drain ends; a captain silent at
  a prompt of SETUP is cut off as long as his limit runs. Nobody is assumed to
  answer anything, and nothing is assumed of captains inside a command: nobody
  cuts off a silent one at QUIT's question or TELL's "Msg:", so
  `WarEndingCompletes` speaks of a captain from when his command is over.
* `SessionDriver`: microtasks and timers run, reads that can return do, and the
  program and the ^C routines ask for a wait again and again, as every loop of
  the bound routines does. Finishing the war comes to an end. A captain who
  presses ^C without end where ^C has a routine is the exception of `WarEndSeen`.

## 4. Proofs

All for arbitrary constants.

* **ResourceLocksProofs.** `LocksInv`, that is types and `QueueWellFormed`, is
  inductive; the work is in lemmas about `Without`, `HeirOf` and `RestOf` (a
  queue without duplicates stays so, and does not hold the new owner). Each
  operation has a lemma that says what it does to the table *and* to the claims
  of the others, which is what `AustinLockProofs` cites. The order in which
  waiters are served is the table's alone: `LocksPassInOrder` (a lock goes to the
  first who waits), `NobodyOvertaken` (who waits before another does so until
  either is served or withdraws).
* **AustinLockProofs.** `HoldersOwn` is not inductive: a section says nothing
  about the table. The invariant `IInv` adds `SectionsHeld` (which lock each
  section counts on), `DrainConsistent` (when FREE's is still among them),
  `NothingLeftBehind` and the table's `LocksInv`. From it: one session in SETUP
  and STAZAP each, FREE excludes SETUP (`SectionsExclusive`), and SETUP is
  undisturbed but for the tail of an `Unguarded` FREE (an action property). Every
  step is one of the table's operations (the lemma `ImplementsLocks`), so that
  both order theorems hold for the sessions (`SessionsServedInOrder`,
  `SessionsNeverOvertaken`).
* **GalaxyProofs.** The invariant `Inv` has layers, each inductive given those
  before it. `Kinds`: types, and KILQUE names nobody twice. `Standing`: whoever
  is at a prompt holds FRELOK, and what WHO, TEAM, FREE's place and the ending's
  words are at each place. `CountInv`: as long as nobody was counted out twice,
  NUMPLY is never below the number of those who still have to count out
  (`Counted`); it may be above, because a session turned from a prompt to its
  ending without a ship does not. So SETUP, which clears a galaxy at NUMPLY = 0,
  does so under captains only after such a second count (`NeverCleared`).
  `HeadCount` and `NoUnnoticedEnd` follow along with it. Two layers hold until a
  FREE is torn in two. `Owning`: those who have a ship (`Owners`: captains, and
  those at their ending whom FREE has not counted out) have distinct ones, and each his
  own, unless the war is over and a session that had named a taken ship at the
  prompt has freed it (the finding `CommandKeepsShip`); `StolenInv` says why
  nobody can then board that ship: those at a prompt are turned to their ending
  before they answer. Only with this is `OneCaptainPerShip` inductive.
  `ShipsInv`: who a ship that is out of the pool belongs to, `adrift` for the
  wrecks that belong to nobody; `Barren` is the gap between the clearing of a
  galaxy and its setting up, in which no ship is in the pool. The proofs need
  that `Sessions` is finite, which the counting rests on, and that `None` is no
  session and no outcome.
* **SessionDriverProofs.** `SleepsOnlyWhenIdle` needs to know what may be
  pending while the driver does not wait: `AnsweredAtOnce` (an interrupted read
  returns before another session runs), `NoticedFirst` (the program never runs
  with the end of the war unnoticed), `ControlsPlaced` (a ^C routine sleeps only
  where ^C has one), `LeftBehind` (a program left from within such a routine is at
  its ending), `SleepingRead`, `FinishingRun`. `EndMeetsNoControl`
  (`EndInProgramOnly`) follows from the two about routines.
* **HitQueueProofs.** `NothingUncounted` compares a cardinality with a count;
  per step at most one slot of a ship becomes unread when its count goes up
  (`OneAdded`), and exactly one is read when it goes down (`OneRemoved`). It is
  what makes FREE's drain complete (`DrainEmpties`), hence `NothingInherited`.
  In the same module `HitQueue` is shown to implement `HitBoxes` (`ImplementsBoxes`, the
  property `BoxesSpec`). The invariant it adds is `Numbered`: the reports in used
  slots have different numbers, none above the last one given, and the serial a
  slot holds is its report's number modulo `SerialLimit`, so that the smallest
  serial is the oldest report while they have not wrapped. A sender's ring is an interval of `KNHSHP` slots
  (`RingSize`, from the division by which GETHIT finds the sender), so that his
  unseen reports are as many as his used slots (`UnseenCount`) and MAKHIT loses
  one only when that ring is full. MAKHIT is a report, GETHIT sees one or none,
  and FREE's drain is a discard because `NothingUncounted` makes it complete.
* **MessageQueueProofs.** A walk along the links is given as a sequence (`Follows`),
  and a walk that ends is the list of the queue (`Lists`), of which there is one
  only (`ListsUnique`) and without repetitions (`ListsInjective`); `Iterates` and
  `UpTo` stand for induction, which with an operator as a parameter no prover
  here can use. `LeftOf` says what a removal leaves of such a list; RSRV's
  eviction is a series of removals, and comes to a free slot in `KNPLAY` rounds at
  the most because each round has one reader less left and `SlotsAssumption` keeps
  one slot out of the senders' hands (`EvictLeft`, `RoomFor`, `MakeRoomOf`). The
  inductive invariant `IInv` is the types and three facts about the registers:
  who composes and for whom (`Composing`), what X2 names where it matters
  (`Places`), and that a reserved slot still names its captain (`Claims`), which
  even a REMV at a stale place leaves so, since it takes none but its own captain
  out of a slot. With `ListWellFormed`, which the bound in `Next` provides, each
  step keeps the list (`ListKept`). `MessagesCounted` compares hits with MSGFLG:
  per step and ship at most one entry comes when the count goes up, one goes
  when it goes down. `QueueIsMailboxes` is the refinement of `Mailboxes`
  (`MailboxSpec`): a mailbox is the increasing enumeration of the places of its
  messages, UPDT appends, REMV takes the head, and a table without a free slot
  holds at least `Slots` less the senders unread messages (`Crowded`).
* **PlanetsProofs.** `NoPhantomBase` needs nothing of the board, which stale
  commands may have wrong: only that NBASE goes up with a slot that was down,
  and goes down by one when one slot does (`UpChanged`, on the cardinality of the
  slots that are up). Type correctness needs NPLNET between 0 and
  the rows, which is PLNRMV's early return. `TablesAgreeAtFirst` and
  `TablesAgreeUntilStale` are the agreement of board, planet table and bases: it
  holds initially, and every step but a stale BUILD or PHASER keeps it. PLNRMV's
  moving up of the rows is the case that needs care: codes and indices on the
  board move together, and the indices fit because they have two digits, an
  assumption of the module (60 planets and 10 bases a side in the program).
* **FleetProofs.** `BeamsPaired` is inductive with the types and with who may be
  free; the case that needs care is TRCOFF of both ends at once. `OnlyCareless`
  is proved action by action from the types and `BeamsPaired`: a careful MOVE,
  with or without a tow, moves the marks with the ships; a weapon takes a craft
  off the cell the board shows it in. The Romulan is one more member of `Craft`,
  so that its moves and ends are cases of the same lemmas (`RomulanTrue`,
  `PhaseredTrue`).

`OnlyCareless`, `OnlyStaleDisturbs`, `OnlyStaleBreaks` and `OnlyRefusedUncounts` speak
of one step at a time and name their exceptions. Their consequences for whole
behaviours are theorems too: where the exceptions do not happen, the board is true
(`BoardTrueWithCare`), the tables agree (`TablesAgreeUnlessStale`), the list is well
formed (`ListWellFormedUnlessStale`) and no message is uncounted
(`NothingUncountedUnlessRefused`), always, and the message queue implements `Mailboxes`
outright (`MailboxesUnlessStale`). Where neither exception of the queue happens, the
guard of `MessageQueue`'s `Next` therefore cuts nothing off.

Only model-checked: liveness, which like `ENABLED` the prover cannot do, and
`NeverHangs` and the other findings, whose runs show counterexamples. Every
other property of the passing runs is a theorem. The bounds of the runs
(`MaxCalls`, `MaxBuild`, `MaxCount`, `Sleepers` and the rest) are constants of the
specifications, so the theorems hold for all their values, and with them for
every bound. What they do not lift is a bound that is a guard: `Next` of
`MessageQueue` takes no step from a broken list or an uncounted message.

## 5. Not modelled, and the plan

In this order:

1. **Composition** of `Fleet` with `Planets` on one board. `MessageQueue` has the
   refusals of `AustinLock`, but not its table.
2. **Telnet codec and admission**; **command prompt** with its doorbells.
3. **CompuServe LOCK** with its LOKTAB and diagnostics.

Left out for good: output, formatting and parsing (conversions of data that no
other part depends on), scans and lists (they only read), damage arithmetic and
random numbers, files, and the component-level formulations (`game/*.ts` beside
the `*-statements.ts`), which unit tests use and the live runtime does not bind.
About 40,000 of the repository's lines are generated tables (`generated/`:
layouts, source listings, character bits): data without behaviour, which no
definition can translate. What remains is mostly such conversions; the modules
cover the statements that keep shared state.
