-------------------------- MODULE AustinLockProofs --------------------------
(***************************************************************************)
(* For every number of sessions, and whatever routines they call: a        *)
(* program that counts on a lock owns it, at most one captain is in SETUP  *)
(* and one user in STAZAP, FREE keeps captains out of SETUP until its      *)
(* first message, and nobody who waits for a command or has left holds up  *)
(* a lock.                                                                 *)
(*                                                                         *)
(* The sections of the routines say nothing about the table of locks, so   *)
(* the invariants are not inductive by themselves: SectionsHeld says which *)
(* lock each section counts on, DrainConsistent when FREE's is still       *)
(* among them, and LocksInv is the service's own invariant.                *)
(***************************************************************************)
EXTENDS AustinLock, ResourceLocksProofs

\* A section counts on the lock its routine asked for.
SectionsHeld ==
    \A j \in Jobs :
        /\ pc[j] = "setup" => GLOBAL \in held[j]
        /\ pc[j] = "stazap" => INTERNAL \in held[j]

\* Where FREE stands with the ship's messages, and what it still counts on.
DrainConsistent ==
    \A j \in Jobs :
        /\ drain[j] # "none" => pc[j] \in {"free", "asleep"}
        /\ drain[j] # "none" /\ pc[j] = "asleep" => site[j] \in {"SRCH", "REMV"}
        /\ drain[j] = "search" => GLOBAL \in held[j]

IInv ==
    /\ TypeOK
    /\ LocksInv
    /\ HoldersOwn
    /\ SectionsHeld
    /\ DrainConsistent
    /\ NothingLeftBehind

-----------------------------------------------------------------------------
LEMMA KeyOfSite == \A s \in Sites : KeyOf(s) \in Keys
BY KeysAssumption DEF KeyOf

\* A refused LOCK leaves a claim and changes nothing anyone counts on.
LEMMA RefusedStep ==
  ASSUME IInv, NEW j \in Jobs, NEW s \in Sites, Refused(j, s),
         drain[j] # "none" => s \in {"SRCH", "REMV"},
         calls' \in [Jobs -> 0..MaxCalls]
  PROVE  IInv'
<1> USE DEF IInv
<1>1. KeyOf(s) \in Keys
  BY KeyOfSite
<1>2. /\ LocksInv'
      /\ \A l \in Keys : \A i \in Jobs : owner[l] = i => owner'[l] = i
      /\ \A l \in Keys : \A i \in Jobs \ {j} :
            /\ owner'[l] = i => owner[l] = i
            /\ i \in Range(waiters'[l]) => i \in Range(waiters[l])
  BY <1>1, RequestStep DEF Refused
<1>3. /\ pc' = [pc EXCEPT ![j] = "asleep"]
      /\ site' = [site EXCEPT ![j] = s]
      /\ held' = held /\ drain' = drain
  BY DEF Refused, Goto
<1>4. TypeOK'
  BY <1>2, <1>3 DEF TypeOK, LocksInv, States
<1>5. HoldersOwn'
  BY <1>2, <1>3 DEF HoldersOwn, TypeOK
<1>6. SectionsHeld' /\ DrainConsistent'
  BY <1>3 DEF SectionsHeld, DrainConsistent, TypeOK
<1>7. NothingLeftBehind'
  BY <1>2, <1>3 DEF NothingLeftBehind, Owns, Waits, TypeOK
<1> QED BY <1>2, <1>4, <1>5, <1>6, <1>7

\* A granted LOCK of a routine that stays in its section: the lock is now the
\* job's, and it was nobody else's.
LEMMA EnterStep ==
  ASSUME IInv, NEW j \in Jobs, NEW s \in Sites, NEW here \in {"setup", "stazap", "free"},
         Enter(j, s, here),
         drain[j] = "none",
         here = "setup" => s = "SETUP",
         here = "stazap" => s = "STAZAP",
         here = "free" <=> s = "FREE",
         calls' \in [Jobs -> 0..MaxCalls]
  PROVE  IInv'
<1> USE DEF IInv
<1>1. KeyOf(s) \in Keys
  BY KeyOfSite
<1>2. /\ LocksInv'
      /\ \A l \in Keys : \A i \in Jobs : owner[l] = i => owner'[l] = i
      /\ \A l \in Keys : \A i \in Jobs \ {j} :
            /\ owner'[l] = i => owner[l] = i
            /\ i \in Range(waiters'[l]) => i \in Range(waiters[l])
      /\ owner'[KeyOf(s)] = j
  BY <1>1, RequestStep DEF Enter
<1>3. /\ pc' = [pc EXCEPT ![j] = here]
      /\ site' = [site EXCEPT ![j] = s]
      /\ held' = [held EXCEPT ![j] = held[j] \cup {KeyOf(s)}]
      /\ drain' = [drain EXCEPT ![j] = IF s = "FREE" THEN "search" ELSE drain[j]]
  BY DEF Enter, Goto
<1>4. TypeOK'
  BY <1>1, <1>2, <1>3 DEF TypeOK, LocksInv, States
<1>5. HoldersOwn'
  BY <1>2, <1>3 DEF HoldersOwn, TypeOK
<1>6. SectionsHeld'
  BY <1>3 DEF SectionsHeld, TypeOK, KeyOf
<1>7. DrainConsistent'
  BY <1>3 DEF DrainConsistent, TypeOK, KeyOf
<1>8. NothingLeftBehind'
  BY <1>2, <1>3 DEF NothingLeftBehind, Owns, Waits, TypeOK
<1> QED BY <1>2, <1>4, <1>5, <1>6, <1>7, <1>8

\* An UNLO leaves the job without lock, claim or section; what it gave up goes
\* to jobs that were waiting, and those are not at a prompt or gone.
LEMMA UnloStep ==
  ASSUME IInv, NEW j \in Jobs, Unlo(j),
         NEW here \in States \ {"setup", "stazap"}, Goto(j, here),
         NEW s \in Sites, site' = [site EXCEPT ![j] = s],
         NEW d \in {"none", "remove", "again", "done"}, drain' = [drain EXCEPT ![j] = d],
         d # "none" => here = "free",
         calls' \in [Jobs -> 0..MaxCalls]
  PROVE  IInv'
<1> USE DEF IInv
<1>1. /\ LocksInv'
      /\ \A k \in Keys : owner'[k] # j /\ j \notin Range(waiters'[k])
      /\ \A k \in Keys : \A i \in Jobs \ {j} : owner[k] = i => owner'[k] = i
      /\ \A k \in Keys : \A i \in Jobs :
            /\ owner'[k] = i => owner[k] = i \/ i \in Range(waiters[k])
            /\ i \in Range(waiters'[k]) => i \in Range(waiters[k])
  BY ReleaseJobStep DEF Unlo
<1>2. /\ pc' = [pc EXCEPT ![j] = here]
      /\ held' = [held EXCEPT ![j] = {}]
  BY DEF Unlo, Goto
<1>3. TypeOK'
  BY <1>1, <1>2 DEF TypeOK, LocksInv
<1>4. HoldersOwn'
  BY <1>1, <1>2 DEF HoldersOwn, TypeOK
<1>5. SectionsHeld' /\ DrainConsistent'
  BY <1>2 DEF SectionsHeld, DrainConsistent, TypeOK
<1>6. NothingLeftBehind'
  BY <1>1, <1>2 DEF NothingLeftBehind, Owns, Waits, TypeOK
<1> QED BY <1>1, <1>3, <1>4, <1>5, <1>6

\* One LOCK call, whatever its outcome.
LEMMA LockStep ==
  ASSUME IInv, NEW j \in Jobs, NEW s \in Sites, Lock(j, s),
         drain[j] # "none" => s \in {"SRCH", "REMV"},
         calls' \in [Jobs -> 0..MaxCalls]
  PROVE  IInv'
<1>1. CASE Refused(j, s)
  BY <1>1, RefusedStep
<1>2. CASE s \in Brief /\ TakeAndGiveBack(j, s)
  <2>1. PICK d \in AfterCall(j, s) : drain' = [drain EXCEPT ![j] = d]
    BY <1>2 DEF TakeAndGiveBack
  <2>2. /\ Unlo(j) /\ Goto(j, Caller(j, s))
        /\ site' = [site EXCEPT ![j] = s]
    BY <1>2 DEF TakeAndGiveBack
  <2>3. /\ d \in {"none", "remove", "again", "done"}
        /\ d # "none" => Caller(j, s) = "free"
        /\ Caller(j, s) \in States \ {"setup", "stazap"}
    BY DEF AfterCall, Caller, Freeing, States
  <2> QED BY <2>1, <2>2, <2>3, UnloStep
<1>3. CASE s = "SETUP" /\ Enter(j, s, "setup")
  BY <1>3, EnterStep
<1>4. CASE s = "STAZAP" /\ Enter(j, s, "stazap")
  BY <1>4, EnterStep
<1>5. CASE s = "FREE" /\ Enter(j, s, "free")
  BY <1>5, EnterStep
<1> QED BY <1>1, <1>2, <1>3, <1>4, <1>5 DEF Lock

\* A routine that gives up keeps its claim and changes nothing of the locks.
LEMMA GiveUpStep ==
  ASSUME IInv, NEW j \in Jobs, GiveUp(j)
  PROVE  IInv'
<1> USE DEF IInv
<1> DEFINE d == IF Freeing(j) THEN "done" ELSE drain[j]
<1>1. /\ pc[j] = "asleep" /\ site[j] \in {"CAPTURE", "BUILD", "NOVA", "TORP", "ROMTOR", "SRCH"}
      /\ pc' = [pc EXCEPT ![j] = Caller(j, site[j])]
      /\ drain' = [drain EXCEPT ![j] = d]
      /\ owner' = owner /\ waiters' = waiters
      /\ site' = [site EXCEPT ![j] = "SETUP"]
      /\ held' = held /\ calls' = calls
  BY DEF GiveUp, Goto, Forget, GivingUp
<1>2. /\ d \in {"none", "done"}
      /\ d # "none" => Caller(j, site[j]) = "free"
      /\ Caller(j, site[j]) \in {"free", "reading", "running"}
  BY DEF Caller, Freeing
<1> HIDE DEF d
<1>3. LocksInv'
  BY <1>1 DEF LocksInv, LocksTypeOK, QueueWellFormed
<1>4. TypeOK'
  BY <1>1, <1>2, <1>3 DEF TypeOK, LocksInv, States, Sites, Insistent
<1>5. HoldersOwn' /\ SectionsHeld' /\ DrainConsistent'
  BY <1>1, <1>2 DEF HoldersOwn, SectionsHeld, DrainConsistent, TypeOK
<1>6. NothingLeftBehind'
  BY <1>1, <1>2 DEF NothingLeftBehind, Owns, Waits, TypeOK
<1> QED BY <1>3, <1>4, <1>5, <1>6

\* Every step of one session preserves the invariant.
LEMMA SessionStep ==
  ASSUME IInv, NEW j \in Jobs, Step(j) \/ StartCommand(j) \/ EndSession(j)
  PROVE  IInv'
<1> USE DEF IInv
<1>a. /\ site[j] \in Sites /\ "SETUP" \in Sites
      /\ calls[j] \in 0..MaxCalls
      /\ drain[j] # "none" => pc[j] \in {"free", "asleep"}
      /\ site' = site => site' = [site EXCEPT ![j] = site[j]]
      /\ drain' = drain => drain' = [drain EXCEPT ![j] = drain[j]]
      /\ calls' = calls => calls' \in [Jobs -> 0..MaxCalls]
  BY DEF TypeOK, DrainConsistent, Sites, Insistent
<1>b. \A c \in 0..MaxCalls : calls' = [calls EXCEPT ![j] = c] => calls' \in [Jobs -> 0..MaxCalls]
  BY DEF TypeOK
<1>c. /\ calls[j] < MaxCalls => calls[j] + 1 \in 0..MaxCalls
      /\ 0 \in 0..MaxCalls
  <2>1. MaxCalls \in Nat /\ calls[j] \in Nat
    BY <1>a, CallsAssumption
  <2> QED BY <2>1
<1>1. CASE PregameCall(j)
  <2>1. PICK s \in {"SETUP", "STAZAP"} : Lock(j, s)
    BY <1>1 DEF PregameCall
  <2>2. drain[j] = "none" /\ calls' = calls
    BY <1>1, <1>a DEF PregameCall
  <2>3. s \in Sites
    BY DEF Sites, Insistent
  <2> QED BY <2>1, <2>2, <2>3, <1>a, LockStep
<1>2. CASE CommandCall(j)
  <2>1. PICK s \in Called : Lock(j, s)
    BY <1>2 DEF CommandCall
  <2>2. drain[j] = "none" /\ s \in Sites
    BY <1>2, <1>a, CalledAssumption DEF CommandCall
  <2>3. calls' \in [Jobs -> 0..MaxCalls]
    BY <1>2, <1>b, <1>c DEF CommandCall
  <2> QED BY <2>1, <2>2, <2>3, LockStep
<1>3. CASE DrainCall(j)
  <2>1. calls' \in [Jobs -> 0..MaxCalls]
    <3>1. CASE calls' = calls
      BY <3>1, <1>a
    <3>2. CASE calls[j] < MaxCalls /\ calls' = [calls EXCEPT ![j] = @ + 1]
      BY <3>2, <1>b, <1>c
    <3> QED BY <3>1, <3>2, <1>3 DEF DrainCall
  <2>2. PICK s \in {"SRCH", "REMV"} : Lock(j, s)
    BY <1>3 DEF DrainCall
  <2>3. s \in Sites
    BY DEF Sites, Insistent, GivingUp
  <2> QED BY <2>1, <2>2, <2>3, LockStep
<1>4. CASE Retry(j)
  <2>1. Lock(j, site[j]) /\ calls' = calls /\ pc[j] = "asleep"
    BY <1>4 DEF Retry
  <2>2. drain[j] # "none" => site[j] \in {"SRCH", "REMV"}
    BY <2>1 DEF DrainConsistent
  <2> QED BY <2>1, <2>2, <1>a, LockStep
<1>5. CASE GiveUp(j)
  BY <1>5, GiveUpStep
<1>6. CASE FinishSection(j)
  <2> DEFINE here == IF pc[j] = "setup" THEN "running" ELSE "pregame"
  <2>1. /\ Unlo(j) /\ Goto(j, here) /\ site' = [site EXCEPT ![j] = "SETUP"] /\ drain' = drain
        /\ drain[j] = "none" /\ calls' = calls
    BY <1>6, <1>a DEF FinishSection, Forget
  <2>2. here \in States \ {"setup", "stazap"}
    BY DEF States
  <2> HIDE DEF here
  <2> QED BY <2>1, <2>2, <1>a, UnloStep
<1>7. CASE FinishFree(j)
  <2>1. /\ Unlo(j) /\ Goto(j, "pregame") /\ site' = [site EXCEPT ![j] = "SETUP"]
        /\ drain' = [drain EXCEPT ![j] = "none"]
        /\ calls' \in [Jobs -> 0..MaxCalls]
    BY <1>7, <1>b, <1>c DEF FinishFree, Forget
  <2>2. "pregame" \in States \ {"setup", "stazap"}
    BY DEF States
  <2> QED BY <2>1, <2>2, <1>a, UnloStep
<1>8. CASE GetCommand(j) \/ Prompt(j)
  <2>1. PICK here \in {"reading", "prompt"} : Goto(j, here)
    BY <1>8 DEF GetCommand, Prompt
  <2>2. /\ Unlo(j) /\ site' = [site EXCEPT ![j] = "SETUP"] /\ drain' = drain
        /\ drain[j] = "none"
        /\ calls' \in [Jobs -> 0..MaxCalls]
    BY <1>8, <1>a, <1>b, <1>c DEF GetCommand, Prompt, Forget
  <2>3. here \in States \ {"setup", "stazap"}
    BY <2>1 DEF States
  <2> QED BY <2>1, <2>2, <2>3, <1>a, UnloStep
<1>9. CASE StartCommand(j)
  <2>1. /\ pc[j] = "prompt"
        /\ \E here \in {"running", "reading"} : pc' = [pc EXCEPT ![j] = here]
        /\ owner' = owner /\ waiters' = waiters /\ site' = site
        /\ held' = held /\ drain' = drain /\ calls' = calls
    BY <1>9 DEF StartCommand, Goto
  <2>2. LocksInv'
    BY <2>1 DEF LocksInv, LocksTypeOK, QueueWellFormed
  <2>3. TypeOK'
    BY <2>1, <2>2 DEF TypeOK, LocksInv, States
  <2>4. HoldersOwn' /\ SectionsHeld' /\ DrainConsistent' /\ NothingLeftBehind'
    BY <2>1 DEF HoldersOwn, SectionsHeld, DrainConsistent, NothingLeftBehind, Owns, Waits, TypeOK
  <2> QED BY <2>2, <2>3, <2>4
<1>10. CASE EndSession(j)
  <2>1. /\ Unlo(j) /\ Goto(j, "gone") /\ site' = [site EXCEPT ![j] = "SETUP"]
        /\ drain' = [drain EXCEPT ![j] = "none"]
        /\ calls' \in [Jobs -> 0..MaxCalls]
    BY <1>10, <1>b, <1>c DEF EndSession, Forget
  <2>2. "gone" \in States \ {"setup", "stazap"}
    BY DEF States
  <2> QED BY <2>1, <2>2, <1>a, UnloStep
<1> QED BY <1>1, <1>2, <1>3, <1>4, <1>5, <1>6, <1>7, <1>8, <1>9, <1>10 DEF Step

-----------------------------------------------------------------------------
LEMMA InitIInv == Init => IInv
<1> SUFFICES ASSUME Init PROVE IInv
  OBVIOUS
<1>1. LocksInv
  BY NoLocksHeld DEF Init
<1>2. TypeOK
  BY <1>1, CallsAssumption DEF Init, TypeOK, LocksInv, States, Sites, Insistent
<1>3. HoldersOwn /\ SectionsHeld /\ DrainConsistent /\ NothingLeftBehind
  BY DEF Init, HoldersOwn, SectionsHeld, DrainConsistent, NothingLeftBehind
<1> QED BY <1>1, <1>2, <1>3 DEF IInv

\* The invariant the other results follow from: every state of every game.
THEOREM AustinLockInvariant == Spec => []IInv
<1>1. IInv /\ [Next]_vars => IInv'
  <2> SUFFICES ASSUME IInv, [Next]_vars PROVE IInv'
    OBVIOUS
  <2>1. CASE Next
    BY <2>1, SessionStep DEF Next
  <2>2. CASE UNCHANGED vars
    BY <2>2 DEF vars, IInv, TypeOK, LocksInv, LocksTypeOK, QueueWellFormed,
                HoldersOwn, SectionsHeld, DrainConsistent, NothingLeftBehind, Owns, Waits
  <2> QED BY <2>1, <2>2
<1> QED BY <1>1, InitIInv, PTL DEF Spec

\* Every variable keeps its type (in particular no queue of the monitor's holds
\* anything but sessions).
THEOREM TypeCorrect == Spec => []TypeOK
<1>1. IInv => TypeOK
  BY DEF IInv
<1> QED BY <1>1, AustinLockInvariant, PTL

\* A program that counts on a lock owns it: neither the claims refused LOCK
\* calls leave queued nor the release of everything by UNLO takes a lock from
\* a session that believes it holds it (lock.ts, unlock.ts).
THEOREM CountedOnIsOwned == Spec => []HoldersOwn
<1>1. IInv => HoldersOwn
  BY DEF IInv
<1> QED BY <1>1, AustinLockInvariant, PTL

\* Two captains are never in SETUP together, nor two users in STAZAP, however
\* many sessions there are; FREE and SETUP exclude each other until FREE's first
\* message (setup-prefix-statements.ts, clear-statistics, free-statements.ts).
THEOREM OneInSetup == Spec => []SectionsExclusive
<1>1. IInv => SectionsExclusive
  <2> SUFFICES ASSUME IInv, NEW i \in Jobs, NEW j \in Jobs
               PROVE  /\ pc[i] \in {"setup", "stazap"} /\ pc[i] = pc[j] => i = j
                      /\ pc[j] = "setup" => drain[i] # "search"
    BY DEF SectionsExclusive
  <2>1. pc[i] \in {"setup", "stazap"} /\ pc[i] = pc[j] => i = j
    BY KeysAssumption DEF IInv, TypeOK, HoldersOwn, SectionsHeld
  <2>2. ASSUME pc[j] = "setup", drain[i] = "search" PROVE FALSE
    <3>1. GLOBAL \in held[i] /\ GLOBAL \in held[j]
      BY <2>2 DEF IInv, SectionsHeld, DrainConsistent
    <3>2. i = j
      BY <3>1 DEF IInv, HoldersOwn
    <3> QED BY <2>2, <3>2 DEF IInv, DrainConsistent
  <2> QED BY <2>1, <2>2
<1> QED BY <1>1, AustinLockInvariant, PTL

\* No session holds up a lock while it waits for a command, or after it left
\* (get-command-statements.ts, resource-locks.ts).
THEOREM PromptHoldsNothing == Spec => []NothingLeftBehind
<1>1. IInv => NothingLeftBehind
  BY DEF IInv
<1> QED BY <1>1, AustinLockInvariant, PTL

-----------------------------------------------------------------------------
\* Which LOCK calls run a section under the global lock: the lock was to be had.
LEMMA GlobalSectionTaken ==
  ASSUME IInv, NEW i \in Jobs, NEW s \in Sites, Lock(i, s),
         KeyOf(s) = GLOBAL, pc'[i] # "asleep"
  PROVE  owner[GLOBAL] \in {NoJob, i}
<1>1. ~Refused(i, s)
  BY DEF IInv, TypeOK, Refused, Goto
<1>2. Grantable(KeyOf(s), i)
  BY <1>1 DEF Lock, TakeAndGiveBack, Enter
<1> QED BY <1>2 DEF Grantable

\* The site a LOCK call leaves behind is the routine that called it.
LEMMA LockSetsSite ==
  ASSUME IInv, NEW i \in Jobs, NEW s \in Sites, Lock(i, s)
  PROVE  site'[i] = s
BY DEF IInv, TypeOK, Lock, Refused, TakeAndGiveBack, Enter

\* While a captain stays at the prompts of SETUP no other session runs a
\* section under the global lock, or goes on in FREE's, unless a nested UNLO of
\* GETMSG has given that FREE's lock away (setup-admission-statements.ts,
\* free-statements.ts).
THEOREM NobodyDisturbsSetup == Spec => SetupUndisturbed
<1>1. ASSUME IInv, [Next]_vars, NEW i \in Jobs, NEW j \in Jobs,
             i # j, pc[j] = "setup", pc'[j] = "setup", RunsGlobalSection(i), ~Unguarded(i)
      PROVE  FALSE
  <2> USE <1>1 DEF IInv
  <2>1. owner[GLOBAL] = j /\ j # NoJob
    BY NoJobAssumption DEF SectionsHeld, HoldersOwn
  <2>a. CASE Freeing(i)
    <3>1. owner[GLOBAL] = i
      BY <2>a, KeysAssumption DEF Unguarded, HoldersOwn
    <3> QED BY <3>1, <2>1
  <2>2. Next
    BY DEF vars, RunsGlobalSection, TypeOK
  <2>3. PICK m \in Jobs : Step(m) \/ StartCommand(m) \/ EndSession(m)
    BY <2>2 DEF Next
  <2>4. drain[i] # "none" /\ pc[i] = "asleep" => site[i] \in {"SRCH", "REMV"}
    BY DEF DrainConsistent
  <2>5. CASE /\ pc'[i] \in {"running", "free", "setup"}
             /\ pc[i] = "asleep" /\ site[i] \in Insistent /\ KeyOf(site[i]) = GLOBAL
    <3>1. \A s \in Sites : Lock(m, s) => m = i \/ pc'[i] = pc[i]
      BY DEF Lock, Refused, TakeAndGiveBack, Enter, Goto, TypeOK
    <3>2. site[i] \in Sites /\ pc'[i] \in {"running", "free", "setup"}
      BY <2>5 DEF TypeOK
    <3>3. CASE Retry(i)
      BY <3>3, <3>2, <2>1, <2>5, GlobalSectionTaken DEF Retry
    <3>4. CASE Retry(m) /\ m # i
      BY <3>4, <3>1, <3>2, <2>5 DEF Retry, TypeOK
    <3>5. CASE PregameCall(m)
      <4>1. PICK s \in Sites : Lock(m, s) /\ pc[m] # pc[i]
        BY <3>5, <2>5 DEF PregameCall, Sites, Insistent
      <4> QED BY <4>1, <3>1, <3>2, <2>5
    <3>6. CASE CommandCall(m)
      <4>1. PICK s \in Sites : Lock(m, s) /\ pc[m] # pc[i]
        BY <3>6, <2>5, CalledAssumption DEF CommandCall
      <4> QED BY <4>1, <3>1, <3>2, <2>5
    <3>7. CASE DrainCall(m)
      <4>1. PICK s \in Sites : Lock(m, s) /\ pc[m] # pc[i]
        BY <3>7, <2>5 DEF DrainCall, Sites, Insistent, GivingUp
      <4> QED BY <4>1, <3>1, <3>2, <2>5
    <3>8. CASE GiveUp(m)
      BY <3>8, <3>2, <2>5 DEF GiveUp, Goto, TypeOK, Insistent, GivingUp
    <3>9. CASE FinishSection(m) \/ FinishFree(m) \/ GetCommand(m) \/ Prompt(m) \/ StartCommand(m)
      BY <3>9, <3>2, <2>5 DEF FinishSection, FinishFree, GetCommand, Prompt, StartCommand, Goto, TypeOK
    <3>10. CASE EndSession(m)
      BY <3>10, <3>2, <2>5 DEF EndSession, Goto, TypeOK
    <3> QED BY <2>3, <3>3, <3>4, <3>5, <3>6, <3>7, <3>8, <3>9, <3>10 DEF Step
  <2>6. CASE /\ pc'[i] \in {"running", "free", "setup"}
             /\ pc[i] \in {"running", "reading"} /\ calls'[i] > calls[i] /\ KeyOf(site'[i]) = GLOBAL
    <3>1. calls[i] \in Nat
      BY CallsAssumption DEF TypeOK
    <3>2. CASE CommandCall(m)
      <4>1. PICK s \in Sites : Lock(m, s)
        BY <3>2, CalledAssumption DEF CommandCall
      <4>2. m = i
        BY <3>2, <2>6, <3>1 DEF CommandCall, TypeOK
      <4>3. KeyOf(s) = GLOBAL
        BY <4>1, <4>2, <2>6, LockSetsSite
      <4> QED BY <4>1, <4>2, <4>3, <2>1, <2>6, GlobalSectionTaken
    <3>3. CASE DrainCall(m)
      BY <3>3, <2>6, <3>1 DEF DrainCall, TypeOK
    <3>4. CASE ~CommandCall(m) /\ ~DrainCall(m)
      <4>1. calls' = calls \/ calls' = [calls EXCEPT ![m] = 0]
        BY <3>4, <2>3 DEF Step, PregameCall, Retry, GiveUp, FinishSection,
                          FinishFree, GetCommand, Prompt, StartCommand, EndSession
      <4>2. calls' = calls => FALSE
        BY <4>1, <2>6, <3>1
      <4>3. calls' = [calls EXCEPT ![m] = 0] => calls'[i] \in {0, calls[i]}
        BY DEF TypeOK
      <4> QED BY <4>1, <4>2, <4>3, <2>6, <3>1
    <3> QED BY <3>2, <3>3, <3>4
  <2> QED BY <2>a, <2>5, <2>6 DEF RunsGlobalSection
<1>2. IInv /\ [Next]_vars =>
        [ \A i, j \in Jobs :
            /\ i # j
            /\ pc[j] = "setup" /\ pc'[j] = "setup"
            /\ RunsGlobalSection(i)
            => Unguarded(i) ]_vars
  BY <1>1
<1> QED BY <1>2, AustinLockInvariant, PTL DEF Spec, SetupUndisturbed

\* Every step is an operation of the lock service or leaves its table alone, so
\* what is proved of the service holds of the sessions.
LEMMA ImplementsLocks == Spec => LocksSpec
<1>1. Init => LocksInit
  BY DEF Init
<1>2. [Next]_vars => [LocksNext]_lockVars
  <2> SUFFICES ASSUME Next PROVE [LocksNext]_lockVars
    BY DEF vars, lockVars
  <2>1. PICK j \in Jobs : Step(j) \/ StartCommand(j) \/ EndSession(j)
    BY DEF Next
  <2>2. ASSUME NEW s \in Sites, Lock(j, s) PROVE LocksNext
    BY <2>2, KeyOfSite DEF Lock, Refused, Enter, TakeAndGiveBack, Unlo, LocksNext
  <2>3. {"SETUP", "STAZAP", "SRCH", "REMV"} \subseteq Sites /\ Insistent \subseteq Sites
    BY DEF Sites, Insistent, GivingUp
  <2>4. CASE PregameCall(j) \/ CommandCall(j) \/ DrainCall(j) \/ Retry(j)
    BY <2>4, <2>2, <2>3, CalledAssumption DEF PregameCall, CommandCall, DrainCall, Retry
  <2>5. CASE GiveUp(j) \/ StartCommand(j)
    BY <2>5 DEF GiveUp, StartCommand, lockVars
  <2>6. CASE FinishSection(j) \/ FinishFree(j) \/ GetCommand(j) \/ Prompt(j) \/ EndSession(j)
    BY <2>6 DEF FinishSection, FinishFree, GetCommand, Prompt, EndSession, Unlo, LocksNext
  <2> QED BY <2>1, <2>4, <2>5, <2>6 DEF Step
<1> QED BY <1>1, <1>2, PTL DEF Spec, LocksSpec

\* Hence the sessions get their locks in order, and nobody is pushed back, refused
\* claims that are granted behind a program's back included.
THEOREM SessionsServedInOrder == Spec => FifoHandOver
BY ImplementsLocks, LocksPassInOrder, PTL

THEOREM SessionsNeverOvertaken == Spec => NobodyPushedBack
BY ImplementsLocks, NobodyOvertaken, PTL
=============================================================================
