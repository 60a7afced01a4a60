---------------------------- MODULE LockTracker ----------------------------
(***************************************************************************)
(* The switch lock of a business (workflow/lock_tracker.go) and the etcd   *)
(* mutex below it (workflow/metadata.go acquireLock,                       *)
(* pkg/discovery/concurrency_mutex.go).                                    *)
(*                                                                         *)
(* Every pass of popAndSwitchForBiz takes the lock of its business.  The   *)
(* first pass of a process pays for an etcd mutex, the concurrent ones     *)
(* share it by a reference count, the last one gives it back.  The tracker *)
(* calls etcd outside its own mutex, so its critical sections are steps of *)
(* their own here, and so are the etcd calls between them.                 *)
(*                                                                         *)
(* Each TryLock runs in a fresh etcd session whose lease the client renews *)
(* in the background.  A lease that is not renewed in time is dropped by   *)
(* etcd, and the mutex with it; nothing in the process watches for that.   *)
(***************************************************************************)
EXTENDS Naturals, FiniteSets

CONSTANTS
    Am,         \* the analysis processes
    Biz,        \* the businesses
    Pass,       \* the goroutines that run popAndSwitchForBiz
    AmOf,       \* the process each goroutine belongs to
    Session,    \* etcd sessions; one is reused once nothing refers to it
    NoSession,  \* no session
    NoAm,       \* no process
    LeaseLoss   \* may the lease of a living process expire?

ASSUME ConstantAssumption ==
    /\ IsFiniteSet(Pass)
    /\ AmOf \in [Pass -> Am]
    /\ NoSession \notin Session
    /\ NoAm \notin Am
    /\ LeaseLoss \in BOOLEAN

VARIABLES
    owner,   \* owner[b]: the session that has the etcd key "switch:b"
    keeper,  \* keeper[s]: the process renewing the lease of session s
    holds,   \* holds[a][b]: the heldLock of the tracker of a; refCnt 0: no entry
    pc,      \* pc[p]: where pass p is
    biz,     \* biz[p]: the business of pass p
    sess     \* sess[p]: the session pass p alone knows of

vars == <<owner, keeper, holds, pc, biz, sess>>

MaybeSession == Session \cup {NoSession}
NoHold == [session |-> NoSession, refCnt |-> 0]

TypeOK ==
    /\ owner \in [Biz -> MaybeSession]
    /\ keeper \in [Session -> Am \cup {NoAm}]
    /\ holds \in [Am -> [Biz -> [session : MaybeSession, refCnt : Nat]]]
    /\ pc \in [Pass -> {"idle", "slow", "record", "inside", "unlock"}]
    /\ biz \in [Pass -> Biz]
    /\ sess \in [Pass -> MaybeSession]

Init ==
    /\ owner = [b \in Biz |-> NoSession]
    /\ keeper = [s \in Session |-> NoAm]
    /\ holds = [a \in Am |-> [b \in Biz |-> NoHold]]
    /\ pc = [p \in Pass |-> "idle"]
    /\ biz \in [Pass -> Biz]
    /\ sess = [p \in Pass |-> NoSession]

-----------------------------------------------------------------------------
(* acquireWith *)

Hold(p) == holds[AmOf[p]][biz[p]]

\* The tracker of a with n users counted for business b.
WithUsers(a, b, n) ==
    [holds EXCEPT ![a][b] = [session |-> holds[a][b].session, refCnt |-> n]]

\* Mutant: the fast path forgets to count its user.
AcquireSharedUncounted(p, b) ==
    /\ pc[p] = "idle"
    /\ holds[AmOf[p]][b].refCnt > 0
    /\ pc' = [pc EXCEPT ![p] = "inside"]
    /\ biz' = [biz EXCEPT ![p] = b]
    /\ UNCHANGED <<owner, keeper, holds, sess>>

\* Fast path, under t.mu: the process has the lock already.
AcquireShared(p, b) ==
    /\ pc[p] = "idle"
    /\ holds[AmOf[p]][b].refCnt > 0
    /\ holds' = WithUsers(AmOf[p], b, holds[AmOf[p]][b].refCnt + 1)
    /\ pc' = [pc EXCEPT ![p] = "inside"]
    /\ biz' = [biz EXCEPT ![p] = b]
    /\ UNCHANGED <<owner, keeper, sess>>

\* No entry: t.mu is released before the call to etcd.
AcquireMiss(p, b) ==
    /\ pc[p] = "idle"
    /\ holds[AmOf[p]][b].refCnt = 0
    /\ pc' = [pc EXCEPT ![p] = "slow"]
    /\ biz' = [biz EXCEPT ![p] = b]
    /\ UNCHANGED <<owner, keeper, holds, sess>>

FreeSession ==
    {s \in Session :
        /\ keeper[s] = NoAm
        /\ \A b \in Biz : owner[b] # s
        /\ \A p \in Pass : sess[p] # s
        /\ \A a \in Am, b \in Biz : holds[a][b].session # s}

\* CreateMutex opens a session, TryLock finds the key free.
TryLockOk(p, s) ==
    /\ pc[p] = "slow"
    /\ owner[biz[p]] = NoSession
    /\ s \in FreeSession
    /\ owner' = [owner EXCEPT ![biz[p]] = s]
    /\ keeper' = [keeper EXCEPT ![s] = AmOf[p]]
    /\ sess' = [sess EXCEPT ![p] = s]
    /\ pc' = [pc EXCEPT ![p] = "record"]
    /\ UNCHANGED <<holds, biz>>

\* etcd grants the key but its answer is lost: TryLock fails, Close stops the
\* renewal, and the key is left to its lease.
TryLockLost(p, s) ==
    /\ pc[p] = "slow"
    /\ owner[biz[p]] = NoSession
    /\ s \in FreeSession
    /\ owner' = [owner EXCEPT ![biz[p]] = s]
    /\ pc' = [pc EXCEPT ![p] = "idle"]
    /\ UNCHANGED <<keeper, holds, biz, sess>>

\* Mutant: the error of the acquirer is dropped.
TryLockFailIgnored(p) ==
    /\ pc[p] = "slow"
    /\ pc' = [pc EXCEPT ![p] = "inside"]
    /\ UNCHANGED <<owner, keeper, holds, biz, sess>>

\* The key is taken, or etcd cannot be reached: the pass is skipped.
TryLockFail(p) ==
    /\ pc[p] = "slow"
    /\ pc' = [pc EXCEPT ![p] = "idle"]
    /\ UNCHANGED <<owner, keeper, holds, biz, sess>>

\* Under t.mu again: the entry is written without looking at it.
Record(p) ==
    /\ pc[p] = "record"
    /\ holds' = [holds EXCEPT ![AmOf[p]][biz[p]] =
                    [session |-> sess[p], refCnt |-> 1]]
    /\ sess' = [sess EXCEPT ![p] = NoSession]
    /\ pc' = [pc EXCEPT ![p] = "inside"]
    /\ UNCHANGED <<owner, keeper, biz>>

-----------------------------------------------------------------------------
(* release *)

\* "release called but no lock held": a warning is logged.
ReleaseNotHeld(p) ==
    /\ pc[p] = "inside"
    /\ Hold(p).refCnt = 0
    /\ pc' = [pc EXCEPT ![p] = "idle"]
    /\ UNCHANGED <<owner, keeper, holds, biz, sess>>

\* Mutants: the count is taken below zero; the count is not taken down.
ReleaseSharedUnguarded(p) ==
    /\ pc[p] = "inside"
    /\ Hold(p).refCnt # 1
    /\ holds' = WithUsers(AmOf[p], biz[p], Hold(p).refCnt - 1)
    /\ pc' = [pc EXCEPT ![p] = "idle"]
    /\ UNCHANGED <<owner, keeper, biz, sess>>

ReleaseSharedUncounted(p) ==
    /\ pc[p] = "inside"
    /\ Hold(p).refCnt > 1
    /\ pc' = [pc EXCEPT ![p] = "idle"]
    /\ UNCHANGED <<owner, keeper, holds, biz, sess>>

\* Other passes of the process still use the lock.
ReleaseShared(p) ==
    /\ pc[p] = "inside"
    /\ Hold(p).refCnt > 1
    /\ holds' = WithUsers(AmOf[p], biz[p], Hold(p).refCnt - 1)
    /\ pc' = [pc EXCEPT ![p] = "idle"]
    /\ UNCHANGED <<owner, keeper, biz, sess>>

\* Mutants: any release gives the lock back; the last one does not.
ReleaseLastEarly(p) ==
    /\ pc[p] = "inside"
    /\ Hold(p).refCnt >= 1
    /\ sess' = [sess EXCEPT ![p] = Hold(p).session]
    /\ holds' = [holds EXCEPT ![AmOf[p]][biz[p]] = NoHold]
    /\ pc' = [pc EXCEPT ![p] = "unlock"]
    /\ UNCHANGED <<owner, keeper, biz>>

ReleaseLastNoUnlock(p) ==
    /\ pc[p] = "inside"
    /\ Hold(p).refCnt = 1
    /\ holds' = [holds EXCEPT ![AmOf[p]][biz[p]] = NoHold]
    /\ pc' = [pc EXCEPT ![p] = "idle"]
    /\ UNCHANGED <<owner, keeper, biz, sess>>

\* The final reference: the entry goes under t.mu, etcd is called after it.
ReleaseLast(p) ==
    /\ pc[p] = "inside"
    /\ Hold(p).refCnt = 1
    /\ sess' = [sess EXCEPT ![p] = Hold(p).session]
    /\ holds' = [holds EXCEPT ![AmOf[p]][biz[p]] = NoHold]
    /\ pc' = [pc EXCEPT ![p] = "unlock"]
    /\ UNCHANGED <<owner, keeper, biz>>

\* Mutant: a failed Unlock returns before Close, so the renewal goes on.
EtcdUnlockNoClose(p) ==
    /\ pc[p] = "unlock"
    /\ \/ /\ owner' = [owner EXCEPT ![biz[p]] =
                            IF @ = sess[p] THEN NoSession ELSE @]
          /\ keeper' = [keeper EXCEPT ![sess[p]] = NoAm]
       \/ UNCHANGED <<owner, keeper>>
    /\ sess' = [sess EXCEPT ![p] = NoSession]
    /\ pc' = [pc EXCEPT ![p] = "idle"]
    /\ UNCHANGED <<holds, biz>>

\* cleanup: Unlock deletes the key of this session only, and Close stops the
\* renewal.  If etcd cannot be reached the key is left to its lease.
EtcdUnlock(p) ==
    /\ pc[p] = "unlock"
    /\ \/ owner' = [owner EXCEPT ![biz[p]] =
                        IF @ = sess[p] THEN NoSession ELSE @]
       \/ UNCHANGED owner
    /\ keeper' = [keeper EXCEPT ![sess[p]] = NoAm]
    /\ sess' = [sess EXCEPT ![p] = NoSession]
    /\ pc' = [pc EXCEPT ![p] = "idle"]
    /\ UNCHANGED <<holds, biz>>

-----------------------------------------------------------------------------
(* The environment *)

\* etcd drops the key of a session whose lease ran out.
LeaseExpire(b) ==
    /\ owner[b] # NoSession
    /\ LeaseLoss \/ keeper[owner[b]] = NoAm
    /\ owner' = [owner EXCEPT ![b] = NoSession]
    /\ keeper' = [keeper EXCEPT ![owner[b]] = NoAm]
    /\ UNCHANGED <<holds, pc, biz, sess>>

\* The session that has the key of b is renewed by nobody.
Orphaned(b) == owner[b] # NoSession /\ keeper[owner[b]] = NoAm

\* A process dies: its memory and its renewals are gone, its keys are not.
Crash(a) ==
    /\ pc' = [p \in Pass |-> IF AmOf[p] = a THEN "idle" ELSE pc[p]]
    /\ sess' = [p \in Pass |-> IF AmOf[p] = a THEN NoSession ELSE sess[p]]
    /\ holds' = [holds EXCEPT ![a] = [b \in Biz |-> NoHold]]
    /\ keeper' = [s \in Session |-> IF keeper[s] = a THEN NoAm ELSE keeper[s]]
    /\ UNCHANGED <<owner, biz>>

-----------------------------------------------------------------------------
Acquire(p) == \E b \in Biz : AcquireShared(p, b) \/ AcquireMiss(p, b)

\* What a pass does once it has begun.
Continue(p) ==
    \/ \E s \in Session : TryLockOk(p, s) \/ TryLockLost(p, s)
    \/ TryLockFail(p)
    \/ Record(p)
    \/ ReleaseNotHeld(p) \/ ReleaseShared(p) \/ ReleaseLast(p)
    \/ EtcdUnlock(p)

Next ==
    \/ \E p \in Pass : Acquire(p) \/ Continue(p)
    \/ \E b \in Biz : LeaseExpire(b)
    \/ \E a \in Am : Crash(a)

Spec == Init /\ [][Next]_vars

\* A started pass goes on (the switching work in it is bounded by
\* SwitchTimeout), and etcd drops a lease nobody renews.
Fairness ==
    /\ \A p \in Pass : WF_vars(Continue(p))
    /\ \A b \in Biz : WF_vars(Orphaned(b) /\ LeaseExpire(b))

FairSpec == Spec /\ Fairness

-----------------------------------------------------------------------------
(* Properties *)

Inside(a, b) == {p \in Pass : pc[p] = "inside" /\ AmOf[p] = a /\ biz[p] = b}

\* As long as living processes keep their leases, passes of two processes are
\* never at work on one business at the same time, whatever the order of the
\* tracker's and etcd's steps, errors and crashes.  (AcquireSwitchLock,
\* popAndSwitchForBiz)
MutualExclusion ==
    \A p, q \in Pass :
        (pc[p] = "inside" /\ pc[q] = "inside" /\ biz[p] = biz[q])
            => AmOf[p] = AmOf[q]

\* The reference count of an entry is the number of passes at work, so the
\* etcd mutex is given back by the last of them and not before.  (acquireWith
\* and release)
RefCountExact ==
    \A a \in Am, b \in Biz : holds[a][b].refCnt = Cardinality(Inside(a, b))

\* Passes between the tracker and etcd: their session is in no entry.
Between == {p \in Pass : pc[p] \in {"record", "unlock"}}

EntriesVouch ==
    \A a \in Am, b \in Biz :
        IF holds[a][b].refCnt = 0
          THEN holds[a][b] = NoHold
          ELSE /\ holds[a][b].session \in Session
               /\ owner[b] = holds[a][b].session
               /\ keeper[owner[b]] = a

BetweenVouch ==
    \A p \in Between :
        /\ sess[p] \in Session
        /\ owner[biz[p]] = sess[p]
        /\ keeper[sess[p]] = AmOf[p]

OneVoucher ==
    \A p \in Between :
        /\ \A a \in Am : holds[a][biz[p]].refCnt = 0
        /\ \A q \in Between : biz[q] = biz[p] => q = p

OneKey ==
    \A b, c \in Biz : owner[b] = owner[c] /\ owner[b] # NoSession => b = c

\* Why the two hold, while living processes keep their leases: an entry, or a
\* pass between the tracker and etcd, vouches for the session that has the key
\* of its business, that session is renewed by its own process, and nothing
\* else vouches for it.  (acquireWith, release, acquireLock)
LockInv ==
    /\ TypeOK
    /\ RefCountExact
    /\ EntriesVouch
    /\ \A p \in Pass \ Between : sess[p] = NoSession
    /\ BetweenVouch
    /\ OneVoucher
    /\ OneKey

\* Even when leases are lost, an entry never counts more users than there
\* are: no business stays locked inside a process that is done with it.
\* (acquireWith and release)
NoPhantomHold ==
    \A a \in Am, b \in Biz : holds[a][b].refCnt <= Cardinality(Inside(a, b))

\* An etcd key whose lease is renewed is known to someone who will give it
\* back: a tracker entry or a pass about to write or to unlock one.  A key
\* that nobody knows of would disable failover of its business for as long
\* as the process lives.  (acquireWith and release)
NoLeakedLock ==
    \A b \in Biz :
        (owner[b] # NoSession /\ ~Orphaned(b)) =>
            \/ holds[keeper[owner[b]]][b].session = owner[b]
            \/ \E p \in Pass : sess[p] = owner[b] /\ biz[p] = b

\* Once no pass begins or works on a business any more, its lock comes free,
\* also after crashes and failed unlocks.  (release, cleanup of acquireLock)
LockDrains ==
    \A b \in Biz :
        <>[](\A p \in Pass : pc[p] # "idle" => biz[p] # b)
            => <>[](owner[b] = NoSession)

\* The tracker over etcd keeps the promise of BizLock.
AtWorkOn == [b \in Biz |-> {p \in Pass : pc[p] = "inside" /\ biz[p] = b}]
Promise == INSTANCE BizLock WITH inside <- AtWorkOn
RefinesBizLock == Promise!Spec
=============================================================================
