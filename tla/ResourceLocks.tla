--------------------------- MODULE ResourceLocks ---------------------------
(***************************************************************************)
(* The monitor's named locks (src/runtime/resource-locks.ts), the service  *)
(* every LOCK and UNLO of the game reaches through MonitorResources.  A    *)
(* resource is absent from the service's map exactly when it has no owner; *)
(* then it has no waiters either.                                          *)
(*                                                                         *)
(* The module defines the operations as actions on the two variables, for  *)
(* the modules of the callers, and a specification in which a set of jobs  *)
(* uses the service in any order.                                          *)
(***************************************************************************)
EXTENDS Naturals, Sequences, Functions

CONSTANTS
    Keys,       \* the resource names (request keys)
    Jobs,       \* the monitor job numbers of the sessions
    NoJob       \* owner of an absent resource

ASSUME NoJobAssumption == NoJob \notin Jobs

VARIABLES
    owner,      \* the owner of each resource
    waiters     \* the FIFO of jobs queued for each resource

lockVars == <<owner, waiters>>

LocksInit ==
    /\ owner = [k \in Keys |-> NoJob]
    /\ waiters = [k \in Keys |-> <<>>]

-----------------------------------------------------------------------------
\* A queue after the claim of j is taken out; a job has at most one claim.
Without(queue, j) ==
    IF j \in Range(queue)
    THEN LET i == CHOOSE n \in DOMAIN queue : queue[n] = j
         IN  SubSeq(queue, 1, i - 1) \o SubSeq(queue, i + 1, Len(queue))
    ELSE queue

\* request() answers 'granted' to j.
Grantable(k, j) == owner[k] \in {NoJob, j}

\* Slips used to test the properties: the resource's name is queued instead of
\* the job's number, a second claim is queued, a claim is put in front.
RequestQueuesName(k, j) ==
    IF Grantable(k, j)
    THEN owner' = [owner EXCEPT ![k] = j] /\ UNCHANGED waiters
    ELSE waiters' = [waiters EXCEPT ![k] = Append(@, k)] /\ UNCHANGED owner

RequestQueuesTwice(k, j) ==
    IF Grantable(k, j)
    THEN owner' = [owner EXCEPT ![k] = j] /\ UNCHANGED waiters
    ELSE waiters' = [waiters EXCEPT ![k] = Append(@, j)] /\ UNCHANGED owner

RequestInFront(k, j) ==
    IF Grantable(k, j)
    THEN owner' = [owner EXCEPT ![k] = j] /\ UNCHANGED waiters
    ELSE /\ waiters' = [waiters EXCEPT ![k] = IF j \in Range(@) THEN @ ELSE <<j>> \o @]
         /\ UNCHANGED owner

Request(k, j) ==
    \/ /\ Grantable(k, j)
       /\ owner' = [owner EXCEPT ![k] = j]
       /\ UNCHANGED waiters
    \/ /\ ~Grantable(k, j)
       /\ waiters' = [waiters EXCEPT ![k] =
                        IF j \in Range(@) THEN @ ELSE Append(@, j)]
       /\ UNCHANGED owner

\* Slip: the last of the queue inherits.
LastOf(queue) == IF queue = <<>> THEN NoJob ELSE queue[Len(queue)]

\* Whom a resource passes to, and what stays queued, when its owner lets go.
HeirOf(queue) == IF queue = <<>> THEN NoJob ELSE Head(queue)
RestOf(queue) == IF queue = <<>> THEN <<>> ELSE Tail(queue)

\* release() by the owner; anyone else's call changes nothing.
Release(k, j) ==
    IF owner[k] = j
    THEN /\ owner' = [owner EXCEPT ![k] = HeirOf(waiters[k])]
         /\ waiters' = [waiters EXCEPT ![k] = RestOf(@)]
    ELSE UNCHANGED lockVars

\* dequeue(): the owner releases, a waiter withdraws.
Dequeue(k, j) ==
    IF owner[k] = j
    THEN Release(k, j)
    ELSE /\ waiters' = [waiters EXCEPT ![k] = Without(@, j)]
         /\ UNCHANGED owner

\* Slip: the job's pending claims count as owned.
ReleaseClaims(j) ==
    LET mine(k) == owner[k] = j \/ j \in Range(waiters[k])
    IN  /\ owner' = [k \in Keys |-> IF mine(k) THEN HeirOf(Without(waiters[k], j)) ELSE owner[k]]
        /\ waiters' = [k \in Keys |-> IF mine(k) THEN RestOf(Without(waiters[k], j)) ELSE waiters[k]]

\* releaseJob(): every claim of j is withdrawn before anything j owns passes on.
ReleaseJob(j) ==
    LET kept(k) == Without(waiters[k], j)
        mine(k) == owner[k] = j
    IN  /\ owner' = [k \in Keys |-> IF mine(k) THEN HeirOf(kept(k)) ELSE owner[k]]
        /\ waiters' = [k \in Keys |-> IF mine(k) THEN RestOf(kept(k)) ELSE kept(k)]

-----------------------------------------------------------------------------
\* Claims of j, granted or pending.
Owns(k, j) == owner[k] = j
Waits(k, j) == j \in Range(waiters[k])

LocksNext ==
    \E j \in Jobs :
        \/ ReleaseJob(j)
        \/ \E k \in Keys : Request(k, j) \/ Release(k, j) \/ Dequeue(k, j)

LocksSpec == LocksInit /\ [][LocksNext]_lockVars

-----------------------------------------------------------------------------
LocksTypeOK ==
    /\ owner \in [Keys -> Jobs \cup {NoJob}]
    /\ waiters \in [Keys -> Seq(Jobs)]

\* The table stays consistent whatever the callers do (the Map of
\* resource-locks.ts): a resource without an owner is absent, nobody queues
\* twice, the owner does not queue.
QueueWellFormed ==
    \A k \in Keys :
        /\ owner[k] = NoJob => waiters[k] = <<>>
        /\ IsInjective(waiters[k])
        /\ owner[k] \notin Range(waiters[k])

\* Locks pass in order (release(), releaseJob()): when one goes from a job to
\* another, the new owner was the first still queued behind the one that left.
FifoHandOver ==
    [][ \A k \in Keys :
            owner[k] # NoJob /\ owner'[k] \notin {owner[k], NoJob} =>
                owner'[k] = Head(Without(waiters[k], owner[k])) ]_lockVars

\* Nobody is pushed back: before a job that goes on waiting for a lock stand
\* only jobs that stood before it already (push, splice and filter in
\* resource-locks.ts).
NobodyPushedBack ==
    [][ \A k \in Keys : \A m, n \in DOMAIN waiters'[k] :
            /\ m < n
            /\ waiters'[k][n] \in Range(waiters[k])
            => \E a, b \in DOMAIN waiters[k] :
                  /\ a < b
                  /\ waiters[k][a] = waiters'[k][m]
                  /\ waiters[k][b] = waiters'[k][n] ]_lockVars
=============================================================================
