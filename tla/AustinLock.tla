----------------------------- MODULE AustinLock -----------------------------
(***************************************************************************)
(* How the sessions of an Austin game use the two global locks.            *)
(*                                                                         *)
(* LOCK (src/compat/lock.ts) asks the monitor once: granted, LKFAIL is     *)
(* cleared; queued, LKFAIL is set and the caller sleeps 25 ms, but its     *)
(* claim STAYS queued, so the lock may pass to it later behind its back.   *)
(* UNLO (src/compat/unlock.ts) gives back everything the job owns and      *)
(* withdraws everything it has claimed, whatever the caller meant to       *)
(* release.  A routine either repeats LOCK until it has it (SETUP, FREE,   *)
(* MOVE, the writers of the message queue) or gives up after one refusal   *)
(* (CAPTURE, BUILD, torpedoes, novas, the reader of the message queue),    *)
(* leaving its claim behind until the next UNLO; GETCMD does an UNLO on    *)
(* entry, and another before it waits for a command, for that reason.      *)
(*                                                                         *)
(* Sessions are generators on one event loop: code between two yields is   *)
(* atomic.  Only SETUP (it prompts), STAZAP (it prints) and FREE (it reads *)
(* the ship's messages, which needs the other lock) yield between a LOCK   *)
(* that succeeded and their UNLO; every other routine takes, uses and      *)
(* gives back its lock in one step (Brief).                                *)
(***************************************************************************)
EXTENDS ResourceLocks

CONSTANTS
    Called,     \* the routines a command may call, among those that LOCK
    MaxCalls    \* bound on the LOCK calls of one command (commands are finite)

ASSUME CallsAssumption == MaxCalls \in Nat \ {0}

VARIABLES
    pc,         \* where each session stands
    site,       \* the routine whose LOCK it last called
    held,       \* the locks the session's program counts on: LKFAIL was 0, no UNLO since
    drain,      \* the call of GETMSG due next, while inside FREE's section
    calls       \* LOCK calls made since the last GETCMD

vars == <<owner, waiters, pc, site, held, drain, calls>>

\* The two keys: every LOCK(...) argument means GLOBAL, the internal queue and
\* statistics locks mean INTERNAL.
GLOBAL == "global"
INTERNAL == "internal"

ASSUME KeysAssumption == Keys = {GLOBAL, INTERNAL}

\* Routines that repeat LOCK until it succeeds, and those that give up at once.
Insistent == {"SETUP", "FREE", "MOVE", "STAZAP", "RSRV", "UPDT", "REMV"}
GivingUp  == {"CAPTURE", "BUILD", "NOVA", "TORP", "ROMTOR", "SRCH"}
Sites == Insistent \cup GivingUp

KeyOf(s) == IF s \in {"STAZAP", "RSRV", "UPDT", "REMV", "SRCH"} THEN INTERNAL ELSE GLOBAL

\* Two routines with the same key, patience and (absence of) yields behave
\* alike here, so an instance may take one of each kind.
ASSUME CalledAssumption == Called \subseteq Sites \ {"SETUP", "STAZAP"}

\* Routines of a command whose section contains no yield.
Brief == Sites \ {"SETUP", "FREE", "STAZAP"}

\* GETCMD reads the messages before it prompts; only there, and in FREE, are
\* messages searched for and removed.
Reading == {"SRCH", "REMV"}

States == {"pregame", "running", "asleep", "setup", "stazap", "free", "reading", "prompt", "gone"}

Init ==
    /\ LocksInit
    /\ pc = [j \in Jobs |-> "pregame"]
    /\ site = [j \in Jobs |-> "SETUP"]
    /\ held = [j \in Jobs |-> {}]
    /\ drain = [j \in Jobs |-> "none"]
    /\ calls = [j \in Jobs |-> 0]

Goto(j, here) == pc' = [pc EXCEPT ![j] = here]

\* Where an awake session last called LOCK does not matter any more.
Forget(j) == site' = [site EXCEPT ![j] = "SETUP"]

\* j is inside FREE's section; its LOCK calls are those of GETMSG.
Freeing(j) == drain[j] # "none"

\* Where routine s of j returns to once its lock business is over.
Caller(j, s) ==
    IF Freeing(j) THEN "free" ELSE IF s \in Reading THEN "reading" ELSE "running"

\* What GETMSG, called by FREE, does after its call of s: it removes what SRCH
\* found, or gives up when SRCH found nothing, and FREE may call it again.
AfterCall(j, s) ==
    IF ~Freeing(j) THEN {"none"}
    ELSE IF s = "SRCH" THEN {"remove", "done"} ELSE {"again"}

-----------------------------------------------------------------------------
\* UNLO and ZAPLOK: releaseJob, whatever was to be released.
Unlo(j) ==
    /\ ReleaseJob(j)
    /\ held' = [held EXCEPT ![j] = {}]

\* LOCK refused: the claim is queued and the routine sleeps 25 ms.
Refused(j, s) ==
    /\ ~Grantable(KeyOf(s), j)
    /\ Request(KeyOf(s), j)
    /\ Goto(j, "asleep")
    /\ site' = [site EXCEPT ![j] = s]
    /\ UNCHANGED <<held, drain>>

\* Slip: LKFAIL is not looked at.
EnterRegardless(j, s, here) ==
    /\ Request(KeyOf(s), j)
    /\ Goto(j, here)
    /\ site' = [site EXCEPT ![j] = s]
    /\ held' = [held EXCEPT ![j] = @ \cup {KeyOf(s)}]
    /\ drain' = [drain EXCEPT ![j] = IF s = "FREE" THEN "search" ELSE @]

\* LOCK granted to a routine that yields inside its section.
Enter(j, s, here) ==
    /\ Grantable(KeyOf(s), j)
    /\ Request(KeyOf(s), j)
    /\ Goto(j, here)
    /\ site' = [site EXCEPT ![j] = s]
    /\ held' = [held EXCEPT ![j] = @ \cup {KeyOf(s)}]
    /\ drain' = [drain EXCEPT ![j] = IF s = "FREE" THEN "search" ELSE @]

\* Slip: LKFAIL is not looked at.
TakeRegardless(j, s) ==
    /\ Unlo(j)
    /\ Goto(j, Caller(j, s))
    /\ site' = [site EXCEPT ![j] = s]
    /\ \E next \in AfterCall(j, s) : drain' = [drain EXCEPT ![j] = next]

\* LOCK granted to a brief routine: lock, use, UNLO and return in one step.
\* The request only matters to the release that follows it: a resource that
\* was free has no waiters, so it is free again afterwards.
TakeAndGiveBack(j, s) ==
    /\ Grantable(KeyOf(s), j)
    /\ Unlo(j)
    /\ Goto(j, Caller(j, s))
    /\ site' = [site EXCEPT ![j] = s]
    /\ \E next \in AfterCall(j, s) : drain' = [drain EXCEPT ![j] = next]

\* One LOCK call of routine s.
Lock(j, s) ==
    \/ Refused(j, s)
    \/ s \in Brief /\ TakeAndGiveBack(j, s)
    \/ s = "SETUP" /\ Enter(j, s, "setup")
    \/ s = "STAZAP" /\ Enter(j, s, "stazap")
    \/ s = "FREE" /\ Enter(j, s, "free")

-----------------------------------------------------------------------------
\* Before the game: SETUP for a captain, STAZAP for a privileged user.
PregameCall(j) ==
    /\ pc[j] = "pregame"
    /\ \E s \in {"SETUP", "STAZAP"} : Lock(j, s)
    /\ UNCHANGED calls

\* A routine of the running command, or of GETCMD before it prompts, calls LOCK
\* for the first time.  FREE is called when the captain quits or the war has
\* ended, and by GETCMD when it finds the ship destroyed.
CommandCall(j) ==
    /\ calls[j] < MaxCalls
    /\ \E s \in Called :
        /\ \/ pc[j] = "running" /\ s \notin Reading
           \/ pc[j] = "reading" /\ s \in Reading \cup {"FREE"}
        /\ Lock(j, s)
    /\ calls' = [calls EXCEPT ![j] = @ + 1]

\* FREE drains the ship's messages: GETMSG searches, and removes what it found;
\* a search that finds nothing clears MSGFLG, which ends FREE's loop.  The bound
\* on calls limits the searches after the first.
DrainCall(j) ==
    /\ pc[j] = "free"
    /\ \/ drain[j] = "search" /\ Lock(j, "SRCH") /\ UNCHANGED calls
       \/ drain[j] = "remove" /\ Lock(j, "REMV") /\ UNCHANGED calls
       \/ /\ drain[j] = "again" /\ calls[j] < MaxCalls
          /\ Lock(j, "SRCH")
          /\ calls' = [calls EXCEPT ![j] = @ + 1]

\* The 25 ms are over: an insistent routine asks again.
Retry(j) ==
    /\ pc[j] = "asleep"
    /\ site[j] \in Insistent
    /\ Lock(j, site[j])
    /\ UNCHANGED calls

\* ... another returns to its caller, its claim still with the monitor.  GETMSG
\* takes the refusal for an empty queue, which ends FREE's loop.
GiveUp(j) ==
    /\ pc[j] = "asleep"
    /\ site[j] \in GivingUp
    /\ Goto(j, Caller(j, site[j]))
    /\ drain' = [drain EXCEPT ![j] = IF Freeing(j) THEN "done" ELSE @]
    /\ Forget(j)
    /\ UNCHANGED <<owner, waiters, held, calls>>

\* The last statement of the section of SETUP or STAZAP: UNLO.
FinishSection(j) ==
    /\ pc[j] \in {"setup", "stazap"}
    /\ Unlo(j)
    /\ Goto(j, IF pc[j] = "setup" THEN "running" ELSE "pregame")
    /\ Forget(j)
    /\ UNCHANGED <<drain, calls>>

\* FREE's own UNLO; the captain is back before the game.
FinishFree(j) ==
    /\ pc[j] = "free"
    /\ drain[j] # "remove"
    /\ Unlo(j)
    /\ Goto(j, "pregame")
    /\ drain' = [drain EXCEPT ![j] = "none"]
    /\ calls' = [calls EXCEPT ![j] = 0]
    /\ Forget(j)

\* GETCMD begins: ZAPLOK, then the ship's messages.
GetCommand(j) ==
    /\ pc[j] = "running"
    /\ Unlo(j)
    /\ Goto(j, "reading")
    /\ calls' = [calls EXCEPT ![j] = 0]
    /\ Forget(j)
    /\ UNCHANGED drain

\* Slip: GETCMD prompts without its second ZAPLOK.
PromptWithoutZap(j) ==
    /\ pc[j] = "reading"
    /\ Goto(j, "prompt")
    /\ calls' = [calls EXCEPT ![j] = 0]
    /\ UNCHANGED <<owner, waiters, held, site, drain>>

\* ... once more ZAPLOK, then the wait for a command.
Prompt(j) ==
    /\ pc[j] = "reading"
    /\ Unlo(j)
    /\ Goto(j, "prompt")
    /\ calls' = [calls EXCEPT ![j] = 0]
    /\ Forget(j)
    /\ UNCHANGED drain

\* A command was entered, or the wait timed out and HITFLG or MSGFLG is set.
StartCommand(j) ==
    /\ pc[j] = "prompt"
    /\ Goto(j, "running") \/ Goto(j, "reading")
    /\ UNCHANGED <<owner, waiters, site, held, drain, calls>>

\* The session ends at any yield: EXIT, a hangup or the operator's shutdown.
\* The transport's end-of-session callback releases everything of the job.
EndSession(j) ==
    /\ pc[j] # "gone"
    /\ Unlo(j)
    /\ Goto(j, "gone")
    /\ drain' = [drain EXCEPT ![j] = "none"]
    /\ calls' = [calls EXCEPT ![j] = 0]
    /\ Forget(j)

\* What the program of a session does by itself.
Step(j) ==
    \/ PregameCall(j) \/ CommandCall(j) \/ DrainCall(j)
    \/ Retry(j) \/ GiveUp(j)
    \/ FinishSection(j) \/ FinishFree(j) \/ GetCommand(j) \/ Prompt(j)

\* FREE runs on without a yield until a nested LOCK puts it to sleep, so no
\* other session runs while one is awake inside it.
MayRun(j) == \A i \in Jobs \ {j} : pc[i] # "free"

Next ==
    \E j \in Jobs :
        /\ MayRun(j)
        /\ \/ Step(j)
           \/ StartCommand(j)
           \/ EndSession(j)

Spec == Init /\ [][Next]_vars

\* A session that can go on is resumed by the event loop: 25 ms timers fire,
\* and a captain at the prompts of SETUP answers or leaves: a silent one is cut
\* off by the transport's admission limit while that limit is armed (Galaxy
\* models the limit, and the case in which it is not).  Fairness is strong only
\* because FREE, run in several steps here, keeps the others out meanwhile.
Fairness == \A j \in Jobs : SF_vars(MayRun(j) /\ Step(j))

FairSpec == Spec /\ Fairness

-----------------------------------------------------------------------------
TypeOK ==
    /\ LocksTypeOK
    /\ pc \in [Jobs -> States]
    /\ site \in [Jobs -> Sites]
    /\ held \in [Jobs -> SUBSET Keys]
    /\ drain \in [Jobs -> {"none", "search", "remove", "again", "done"}]
    /\ calls \in [Jobs -> 0..MaxCalls]

\* A program that saw LKFAIL = 0 and has not called UNLO since owns the lock:
\* hand-overs behind a job's back never take a lock from one that counts on it.
HoldersOwn ==
    \A j \in Jobs : \A k \in held[j] : owner[k] = j

\* At most one captain is in SETUP and one user in STAZAP.  FREE keeps captains
\* out of SETUP until GETMSG has found a message for the ship: GETMSG's UNLO
\* gives up FREE's lock too, and only then can FREE be asleep in a later LOCK
\* while a captain is in SETUP.
SectionsExclusive ==
    \A i, j \in Jobs :
        /\ pc[i] \in {"setup", "stazap"} /\ pc[i] = pc[j] => i = j
        /\ pc[j] = "setup" => drain[i] # "search"

\* A session waiting for a command or ended has no lock and no claim: what a
\* refused LOCK left behind was withdrawn by GETCMD or by the end of session.
NothingLeftBehind ==
    \A j \in Jobs : \A k \in Keys :
        pc[j] \in {"prompt", "gone"} => ~Owns(k, j) /\ ~Waits(k, j)

\* FREE goes on without its lock: the UNLO of a GETMSG that searched, or removed
\* what it found, gave up FREE's lock with GETMSG's own.
Unguarded(i) == Freeing(i) /\ GLOBAL \notin held[i]

\* Session i does something of a section under the global lock: it runs through
\* one, or goes on in FREE's.
RunsGlobalSection(i) ==
    \/ /\ pc'[i] \in {"running", "free", "setup"}
       /\ \/ pc[i] = "asleep" /\ site[i] \in Insistent /\ KeyOf(site[i]) = GLOBAL
          \/ pc[i] \in {"running", "reading"} /\ calls'[i] > calls[i] /\ KeyOf(site'[i]) = GLOBAL
    \/ /\ Freeing(i)
       /\ pc'[i] # "gone"
       /\ <<pc[i], drain[i], calls[i]>>' # <<pc[i], drain[i], calls[i]>>

\* While a captain stays at the prompts of SETUP, no other session moves a
\* ship, frees one, or takes, builds up or destroys a planet; with one exception,
\* which the code has: a FREE that called GETMSG has lost its lock to the nested
\* UNLO, and its tail (the next messages, DBITS, IWHAT, and ALIVE of the freed
\* ship, free-statements.ts:55-57) runs beside the captain who got the lock.
\* Until that UNLO, FREE is no exception.
SetupUndisturbed ==
    [][ \A i, j \in Jobs :
            /\ i # j
            /\ pc[j] = "setup" /\ pc'[j] = "setup"
            /\ RunsGlobalSection(i)
            => Unguarded(i) ]_vars

\* Two sessions repeat LOCK, each the owner, by a claim it left behind, of what
\* the other asks for.  It is reachable (README, section 3).
CrossedWait ==
    \E i, j \in Jobs :
        /\ i # j
        /\ pc[i] = "asleep" /\ site[i] \in Insistent
        /\ pc[j] = "asleep" /\ site[j] \in Insistent
        /\ Owns(KeyOf(site[i]), j)
        /\ Owns(KeyOf(site[j]), i)

\* A routine that repeats LOCK until it succeeds does not repeat it for ever:
\* claims that others left behind hold it up for a while only.  The one way to
\* be stuck is a crossed wait; it needs a claim left behind on each lock, hence
\* a user in STAZAP, the only one to be seen with the internal lock.
InsistentProceeds ==
    \A j \in Jobs :
        (pc[j] = "asleep" /\ site[j] \in Insistent) ~> (pc[j] # "asleep" \/ CrossedWait)
=============================================================================
