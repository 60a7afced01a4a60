------------------------- MODULE LockTracker_proofs -------------------------
(***************************************************************************)
(* What LockTracker guarantees for any number of processes, businesses,    *)
(* passes and sessions.                                                    *)
(***************************************************************************)
EXTENDS LockTracker, FiniteSetTheorems, TLAPS

-----------------------------------------------------------------------------
(* Types *)

\* Every variable keeps its type, whether or not leases are lost: in
\* particular no release takes a reference count below zero.
THEOREM TypeCorrect == Spec => []TypeOK
<1> USE ConstantAssumption DEF TypeOK, MaybeSession, NoHold
<1>1. Init => TypeOK
  BY DEF Init
<1>2. TypeOK /\ [Next]_vars => TypeOK'
  <2> SUFFICES ASSUME TypeOK, [Next]_vars
               PROVE  TypeOK'
    OBVIOUS
  <2>1. ASSUME NEW p \in Pass, NEW b \in Biz, AcquireShared(p, b)
        PROVE  TypeOK'
    <3>1. AmOf[p] \in Am /\ holds[AmOf[p]][b].refCnt + 1 \in Nat
      OBVIOUS
    <3>2. holds' \in [Am -> [Biz -> [session : MaybeSession, refCnt : Nat]]]
      BY <2>1, <3>1 DEF AcquireShared, WithUsers
    <3>3. QED
      BY <2>1, <3>2 DEF AcquireShared
  <2>2. ASSUME NEW p \in Pass, NEW b \in Biz, AcquireMiss(p, b)
        PROVE  TypeOK'
    BY <2>2 DEF AcquireMiss
  <2>3. ASSUME NEW p \in Pass, NEW s \in Session,
               TryLockOk(p, s) \/ TryLockLost(p, s)
        PROVE  TypeOK'
    <3>1. CASE TryLockOk(p, s)
      BY <3>1 DEF TryLockOk
    <3>2. CASE TryLockLost(p, s)
      BY <3>2 DEF TryLockLost
    <3>3. QED
      BY <2>3, <3>1, <3>2
  <2>4. ASSUME NEW p \in Pass, TryLockFail(p)
        PROVE  TypeOK'
    BY <2>4 DEF TryLockFail
  <2>5. ASSUME NEW p \in Pass, Record(p)
        PROVE  TypeOK'
    BY <2>5 DEF Record
  <2>6. ASSUME NEW p \in Pass, ReleaseNotHeld(p)
        PROVE  TypeOK'
    BY <2>6 DEF ReleaseNotHeld
  <2>7. ASSUME NEW p \in Pass, ReleaseShared(p)
        PROVE  TypeOK'
    <3>1. AmOf[p] \in Am /\ biz[p] \in Biz /\ Hold(p).refCnt - 1 \in Nat
      BY <2>7 DEF ReleaseShared, Hold
    <3>2. holds' \in [Am -> [Biz -> [session : MaybeSession, refCnt : Nat]]]
      BY <2>7, <3>1 DEF ReleaseShared, WithUsers
    <3>3. QED
      BY <2>7, <3>2 DEF ReleaseShared
  <2>8. ASSUME NEW p \in Pass, ReleaseLast(p)
        PROVE  TypeOK'
    BY <2>8 DEF ReleaseLast, Hold
  <2>9. ASSUME NEW p \in Pass, EtcdUnlock(p)
        PROVE  TypeOK'
    BY <2>9 DEF EtcdUnlock
  <2>10. ASSUME NEW b \in Biz, LeaseExpire(b)
         PROVE  TypeOK'
    BY <2>10 DEF LeaseExpire
  <2>11. ASSUME NEW a \in Am, Crash(a)
         PROVE  TypeOK'
    BY <2>11 DEF Crash
  <2>12. CASE UNCHANGED vars
    BY <2>12 DEF vars
  <2>13. QED
    BY <2>1, <2>2, <2>3, <2>4, <2>5, <2>6, <2>7, <2>8, <2>9, <2>10, <2>11,
       <2>12 DEF Next, Acquire, Continue
<1>3. QED
  BY <1>1, <1>2, PTL DEF Spec

-----------------------------------------------------------------------------
(* How a step changes the set of passes at work *)

\* The passes at work are finitely many.
LEMMA InsideFinite ==
    \A a \in Am, b \in Biz :
        IsFiniteSet(Inside(a, b)) /\ Cardinality(Inside(a, b)) \in Nat
<1> TAKE a \in Am, b \in Biz
<1>1. Inside(a, b) \in SUBSET Pass
  BY DEF Inside
<1>2. IsFiniteSet(Inside(a, b))
  BY <1>1, ConstantAssumption, FS_Subset
<1>3. QED
  BY <1>2, FS_CardinalityType

\* A pass that gets the lock of b adds one to the passes at work on b in its
\* process, and changes no other count.
LEMMA CountEnter ==
    ASSUME TypeOK, NEW p \in Pass, NEW b \in Biz, pc[p] # "inside",
           pc' = [pc EXCEPT ![p] = "inside"],
           biz' = [biz EXCEPT ![p] = b]
    PROVE  \A a \in Am, c \in Biz :
             Cardinality(Inside(a, c)') =
               IF a = AmOf[p] /\ c = b THEN Cardinality(Inside(a, c)) + 1
                                       ELSE Cardinality(Inside(a, c))
<1> TAKE a \in Am, c \in Biz
<1>1. IsFiniteSet(Inside(a, c)) /\ p \notin Inside(a, c)
  BY InsideFinite DEF Inside
<1>2. CASE a = AmOf[p] /\ c = b
  <2>1. Inside(a, c)' = Inside(a, c) \cup {p}
    BY <1>2 DEF Inside, TypeOK
  <2>2. Cardinality(Inside(a, c) \cup {p}) = Cardinality(Inside(a, c)) + 1
    BY <1>1, FS_AddElement
  <2>3. QED
    BY <1>2, <2>1, <2>2
<1>3. CASE ~(a = AmOf[p] /\ c = b)
  <2>1. Inside(a, c)' = Inside(a, c)
    BY <1>3 DEF Inside, TypeOK
  <2>2. QED
    BY <1>3, <2>1
<1>4. QED
  BY <1>2, <1>3

\* A pass that stops working takes one from the count of its process and
\* business, and changes no other count.
LEMMA CountLeave ==
    ASSUME TypeOK, NEW p \in Pass, pc[p] = "inside",
           NEW next, next # "inside",
           pc' = [pc EXCEPT ![p] = next], biz' = biz
    PROVE  /\ Cardinality(Inside(AmOf[p], biz[p])) > 0
           /\ \A a \in Am, c \in Biz :
                Cardinality(Inside(a, c)') =
                  IF a = AmOf[p] /\ c = biz[p]
                    THEN Cardinality(Inside(a, c)) - 1
                    ELSE Cardinality(Inside(a, c))
<1>1. AmOf[p] \in Am /\ biz[p] \in Biz /\ p \in Inside(AmOf[p], biz[p])
  BY ConstantAssumption DEF Inside, TypeOK
<1>2. Cardinality(Inside(AmOf[p], biz[p])) > 0
  BY <1>1, InsideFinite, FS_EmptySet
<1>3. ASSUME NEW a \in Am, NEW c \in Biz, a = AmOf[p] /\ c = biz[p]
      PROVE  Cardinality(Inside(a, c)') = Cardinality(Inside(a, c)) - 1
  <2>1. Inside(a, c)' = Inside(a, c) \ {p}
    BY <1>3 DEF Inside, TypeOK
  <2>2. IsFiniteSet(Inside(a, c)) /\ p \in Inside(a, c)
    BY <1>1, <1>3, InsideFinite
  <2>3. Cardinality(Inside(a, c) \ {p}) = Cardinality(Inside(a, c)) - 1
    BY <2>2, FS_RemoveElement
  <2>4. QED
    BY <2>1, <2>3
<1>4. ASSUME NEW a \in Am, NEW c \in Biz, ~(a = AmOf[p] /\ c = biz[p])
      PROVE  Cardinality(Inside(a, c)') = Cardinality(Inside(a, c))
  <2>1. Inside(a, c)' = Inside(a, c)
    BY <1>4 DEF Inside, TypeOK
  <2>2. QED
    BY <2>1
<1>5. QED
  BY <1>2, <1>3, <1>4

\* Any other step of a pass leaves the counts alone.
LEMMA CountSame ==
    ASSUME TypeOK, NEW p \in Pass, pc[p] # "inside",
           NEW next, next # "inside",
           pc' = [pc EXCEPT ![p] = next],
           \A q \in Pass \ {p} : biz'[q] = biz[q]
    PROVE  \A a \in Am, c \in Biz : Inside(a, c)' = Inside(a, c)
BY DEF Inside, TypeOK

\* A crash empties the counts of the process that dies, and no other.
LEMMA CountCrash ==
    ASSUME NEW a \in Am, Crash(a)
    PROVE  /\ \A c \in Biz : Inside(a, c)' = {}
           /\ \A d \in Am \ {a}, c \in Biz : Inside(d, c)' = Inside(d, c)
BY DEF Inside, Crash

-----------------------------------------------------------------------------
(* How an action changes the counts *)

Users(a, b) == holds[a][b].refCnt
AtWork(a, b) == Cardinality(Inside(a, b))

\* Only the counts of one process and business change, to these two values.
CountsBecome(p, b, users, atWork) ==
    \A a \in Am, c \in Biz :
        IF a = AmOf[p] /\ c = b
          THEN Users(a, c)' = users /\ AtWork(a, c)' = atWork
          ELSE Users(a, c)' = Users(a, c) /\ AtWork(a, c)' = AtWork(a, c)

CountsStay ==
    \A a \in Am, c \in Biz :
        Users(a, c)' = Users(a, c) /\ AtWork(a, c)' = AtWork(a, c)

\* The two counts are natural numbers.
LEMMA CountsNat ==
    TypeOK => \A a \in Am, c \in Biz : Users(a, c) \in Nat /\ AtWork(a, c) \in Nat
BY InsideFinite DEF TypeOK, Users, AtWork

\* AcquireShared adds one user and one pass at work.
LEMMA SharedCounts ==
    ASSUME TypeOK, NEW p \in Pass, NEW b \in Biz, AcquireShared(p, b)
    PROVE  CountsBecome(p, b, Users(AmOf[p], b) + 1, AtWork(AmOf[p], b) + 1)
<1>1. \A a \in Am, c \in Biz :
        AtWork(a, c)' = IF a = AmOf[p] /\ c = b THEN AtWork(a, c) + 1
                                                ELSE AtWork(a, c)
  BY CountEnter DEF AcquireShared, AtWork
<1>2. \A a \in Am, c \in Biz :
        Users(a, c)' = IF a = AmOf[p] /\ c = b THEN Users(a, c) + 1
                                               ELSE Users(a, c)
  BY ConstantAssumption DEF TypeOK, AcquireShared, WithUsers, Users
<1>3. QED
  BY <1>1, <1>2 DEF CountsBecome

\* Record leaves one user, whatever the entry said, and adds a pass at work.
LEMMA RecordCounts ==
    ASSUME TypeOK, NEW p \in Pass, Record(p)
    PROVE  CountsBecome(p, biz[p], 1, AtWork(AmOf[p], biz[p]) + 1)
<1>1. biz[p] \in Biz /\ biz' = [biz EXCEPT ![p] = biz[p]]
  BY DEF Record, TypeOK
<1>2. \A a \in Am, c \in Biz :
        AtWork(a, c)' = IF a = AmOf[p] /\ c = biz[p] THEN AtWork(a, c) + 1
                                                     ELSE AtWork(a, c)
  BY <1>1, CountEnter DEF Record, AtWork
<1>3. \A a \in Am, c \in Biz :
        Users(a, c)' = IF a = AmOf[p] /\ c = biz[p] THEN 1 ELSE Users(a, c)
  BY ConstantAssumption DEF TypeOK, Record, Users
<1>4. QED
  BY <1>2, <1>3 DEF CountsBecome

\* A release takes one pass from work; the count of users goes down with it
\* unless there is no entry any more.
LEMMA ReleaseCounts ==
    ASSUME TypeOK, NEW p \in Pass,
           ReleaseNotHeld(p) \/ ReleaseShared(p) \/ ReleaseLast(p)
    PROVE  /\ AtWork(AmOf[p], biz[p]) > 0
           /\ CountsBecome(p, biz[p],
                IF Users(AmOf[p], biz[p]) = 0 THEN 0
                ELSE Users(AmOf[p], biz[p]) - 1,
                AtWork(AmOf[p], biz[p]) - 1)
<1>1. /\ AtWork(AmOf[p], biz[p]) > 0
      /\ \A a \in Am, c \in Biz :
           AtWork(a, c)' = IF a = AmOf[p] /\ c = biz[p] THEN AtWork(a, c) - 1
                                                        ELSE AtWork(a, c)
  <2>1. CASE ReleaseLast(p)
    BY <2>1, CountLeave DEF ReleaseLast, AtWork
  <2>2. CASE ReleaseNotHeld(p) \/ ReleaseShared(p)
    BY <2>2, CountLeave DEF ReleaseNotHeld, ReleaseShared, AtWork
  <2>3. QED
    BY <2>1, <2>2
<1>2. \A a \in Am, c \in Biz :
        Users(a, c)' = IF a = AmOf[p] /\ c = biz[p]
                         THEN IF Users(a, c) = 0 THEN 0 ELSE Users(a, c) - 1
                         ELSE Users(a, c)
  <2>1. CASE ReleaseNotHeld(p)
    BY <2>1 DEF ReleaseNotHeld, Hold, Users
  <2>2. CASE ReleaseShared(p)
    BY <2>2, ConstantAssumption DEF TypeOK, ReleaseShared, WithUsers, Hold, Users
  <2>3. CASE ReleaseLast(p)
    BY <2>3, ConstantAssumption DEF TypeOK, ReleaseLast, NoHold, Hold, Users
  <2>4. QED
    BY <2>1, <2>2, <2>3
<1>3. QED
  BY <1>1, <1>2 DEF CountsBecome

\* The other actions of a pass change no count.
LEMMA OtherCounts ==
    ASSUME TypeOK, NEW p \in Pass,
           \/ \E b \in Biz : AcquireMiss(p, b)
           \/ \E s \in Session : TryLockOk(p, s) \/ TryLockLost(p, s)
           \/ TryLockFail(p)
           \/ EtcdUnlock(p)
    PROVE  CountsStay
<1>1. ASSUME NEW b \in Biz, AcquireMiss(p, b)
      PROVE  CountsStay
  BY <1>1, CountSame DEF AcquireMiss, TypeOK, CountsStay, Users, AtWork
<1>2. ASSUME NEW s \in Session, TryLockOk(p, s) \/ TryLockLost(p, s)
      PROVE  CountsStay
  BY <1>2, CountSame DEF TryLockOk, TryLockLost, CountsStay, Users, AtWork
<1>3. CASE TryLockFail(p)
  BY <1>3, CountSame DEF TryLockFail, CountsStay, Users, AtWork
<1>4. CASE EtcdUnlock(p)
  BY <1>4, CountSame DEF EtcdUnlock, CountsStay, Users, AtWork
<1>5. QED
  BY <1>1, <1>2, <1>3, <1>4

\* The loss of a lease changes no count.
LEMMA LeaseCounts ==
    ASSUME NEW b \in Biz, LeaseExpire(b)
    PROVE  CountsStay
BY DEF LeaseExpire, CountsStay, Users, AtWork, Inside

\* A crash sets the counts of its process to zero.
LEMMA CrashCounts ==
    ASSUME TypeOK, NEW a \in Am, Crash(a)
    PROVE  \A d \in Am, c \in Biz :
             IF d = a THEN Users(d, c)' = 0 /\ AtWork(d, c)' = 0
             ELSE Users(d, c)' = Users(d, c) /\ AtWork(d, c)' = AtWork(d, c)
<1>1. /\ \A c \in Biz : Inside(a, c)' = {}
      /\ \A d \in Am \ {a}, c \in Biz : Inside(d, c)' = Inside(d, c)
  BY CountCrash
<1>2. \A d \in Am, c \in Biz :
        Users(d, c)' = IF d = a THEN 0 ELSE Users(d, c)
  BY DEF TypeOK, Crash, NoHold, Users
<1>3. QED
  BY <1>1, <1>2, FS_EmptySet DEF AtWork

-----------------------------------------------------------------------------
(* What holds even when leases are lost *)

\* An entry never counts more users than there are, so no process keeps a
\* business locked after its last pass is done with it.
THEOREM NoPhantomHolds == Spec => []NoPhantomHold
<1> DEFINE Fewer == \A a \in Am, b \in Biz : Users(a, b) <= AtWork(a, b)
<1>0. Fewer <=> NoPhantomHold
  BY DEF NoPhantomHold, Users, AtWork
<1>1. Init => NoPhantomHold
  BY InsideFinite DEF Init, NoPhantomHold, NoHold
<1>2. TypeOK /\ Fewer /\ [Next]_vars => Fewer'
  <2> SUFFICES ASSUME TypeOK, Fewer, [Next]_vars
               PROVE  Fewer'
    OBVIOUS
  <2>1. \A a \in Am, c \in Biz : Users(a, c) \in Nat /\ AtWork(a, c) \in Nat
    BY CountsNat
  <2>2. ASSUME NEW p \in Pass, NEW b \in Biz, AcquireShared(p, b)
        PROVE  Fewer'
    BY <2>1, <2>2, SharedCounts DEF CountsBecome
  <2>3. ASSUME NEW p \in Pass, Record(p)
        PROVE  Fewer'
    BY <2>1, <2>3, RecordCounts DEF CountsBecome
  <2>4. ASSUME NEW p \in Pass,
               ReleaseNotHeld(p) \/ ReleaseShared(p) \/ ReleaseLast(p)
        PROVE  Fewer'
    BY <2>1, <2>4, ReleaseCounts DEF CountsBecome
  <2>5. ASSUME CountsStay
        PROVE  Fewer'
    BY <2>5 DEF CountsStay
  <2>6. ASSUME NEW a \in Am, Crash(a)
        PROVE  Fewer'
    BY <2>6, CrashCounts
  <2>7. CASE UNCHANGED vars
    BY <2>7 DEF vars, Users, AtWork, Inside
  <2>8. ASSUME NEW p \in Pass, Acquire(p) \/ Continue(p)
        PROVE  Fewer'
    BY <2>2, <2>3, <2>4, <2>5, <2>8, OtherCounts DEF Acquire, Continue
  <2>9. QED
    BY <2>5, <2>6, <2>7, <2>8, LeaseCounts DEF Next
<1>3. QED
  BY <1>0, <1>1, <1>2, TypeCorrect, PTL DEF Spec

-----------------------------------------------------------------------------
(* What holds as long as living processes keep their leases *)

\* A pass at work is counted by the entry of its process.
LEMMA AtWorkIsHeld ==
    ASSUME TypeOK, RefCountExact, NEW p \in Pass, pc[p] = "inside"
    PROVE  /\ Hold(p).refCnt > 0
           /\ Hold(p).refCnt \in Nat
           /\ AmOf[p] \in Am /\ biz[p] \in Biz
<1>1. AmOf[p] \in Am /\ biz[p] \in Biz /\ p \in Inside(AmOf[p], biz[p])
  BY ConstantAssumption DEF Inside, TypeOK
<1>2. Cardinality(Inside(AmOf[p], biz[p])) > 0
  BY <1>1, InsideFinite, FS_EmptySet
<1>3. QED
  BY <1>1, <1>2, InsideFinite DEF RefCountExact, Hold

\* The counts stay equal in every step that keeps the sharing invariant.
LEMMA RefCountStep ==
    ASSUME LockInv, [Next]_vars
    PROVE  RefCountExact'
<1> DEFINE Equal == \A a \in Am, b \in Biz : Users(a, b) = AtWork(a, b)
<1>0. (Equal <=> RefCountExact) /\ (Equal <=> RefCountExact)'
  BY DEF RefCountExact, Users, AtWork
<1>1. /\ Equal
      /\ \A a \in Am, c \in Biz : Users(a, c) \in Nat /\ AtWork(a, c) \in Nat
  BY <1>0, CountsNat DEF LockInv
<1>2. ASSUME NEW p \in Pass, NEW b \in Biz, AcquireShared(p, b)
      PROVE  Equal'
  BY <1>1, <1>2, SharedCounts DEF CountsBecome, LockInv
<1>3. ASSUME NEW p \in Pass, Record(p)
      PROVE  Equal'
  <2>1. Users(AmOf[p], biz[p]) = 0 /\ AmOf[p] \in Am /\ biz[p] \in Biz
    BY <1>3, ConstantAssumption
    DEF Record, LockInv, OneVoucher, Between, Users, TypeOK
  <2>2. QED
    BY <1>1, <1>3, <2>1, RecordCounts DEF CountsBecome, LockInv
<1>4. ASSUME NEW p \in Pass,
             ReleaseNotHeld(p) \/ ReleaseShared(p) \/ ReleaseLast(p)
      PROVE  Equal'
  <2>1. AmOf[p] \in Am /\ biz[p] \in Biz
    BY ConstantAssumption DEF LockInv, TypeOK
  <2>2. QED
    BY <1>1, <1>4, <2>1, ReleaseCounts DEF CountsBecome, LockInv
<1>5. ASSUME CountsStay
      PROVE  Equal'
  BY <1>1, <1>5 DEF CountsStay
<1>6. ASSUME NEW a \in Am, Crash(a)
      PROVE  Equal'
  BY <1>1, <1>6, CrashCounts DEF LockInv
<1>7. CASE UNCHANGED vars
  <2>1. CountsStay
    BY <1>7 DEF vars, CountsStay, Users, AtWork, Inside
  <2>2. QED
    BY <1>0, <1>5, <2>1
<1>8. ASSUME NEW p \in Pass, Acquire(p) \/ Continue(p)
      PROVE  Equal'
  BY <1>2, <1>3, <1>4, <1>5, <1>8, OtherCounts DEF Acquire, Continue, LockInv
<1>9. QED
  BY <1>0, <1>5, <1>6, <1>7, <1>8, LeaseCounts DEF Next

\* A key has one voucher: an entry, or a pass between the tracker and etcd.
Vouching ==
    /\ EntriesVouch
    /\ \A p \in Pass \ Between : sess[p] = NoSession
    /\ BetweenVouch
    /\ OneVoucher
    /\ OneKey

\* Every step keeps one voucher for each key.
LEMMA VouchingStep ==
    ASSUME LeaseLoss = FALSE, LockInv, [Next]_vars
    PROVE  Vouching'
<1> USE ConstantAssumption
    DEF LockInv, TypeOK, MaybeSession, NoHold, Vouching, EntriesVouch,
        BetweenVouch, OneVoucher, OneKey, Between
<1>1. ASSUME NEW p \in Pass, NEW b \in Biz, AcquireShared(p, b)
      PROVE  Vouching'
  BY <1>1 DEF AcquireShared, WithUsers
<1>2. ASSUME NEW p \in Pass, NEW b \in Biz, AcquireMiss(p, b)
      PROVE  Vouching'
  BY <1>2 DEF AcquireMiss
<1>3. ASSUME NEW p \in Pass, NEW s \in Session,
             TryLockOk(p, s) \/ TryLockLost(p, s)
      PROVE  Vouching'
  <2>1. CASE TryLockOk(p, s)
    BY <2>1 DEF TryLockOk, FreeSession
  <2>2. CASE TryLockLost(p, s)
    BY <2>2 DEF TryLockLost, FreeSession
  <2>3. QED
    BY <1>3, <2>1, <2>2
<1>4. ASSUME NEW p \in Pass, TryLockFail(p)
      PROVE  Vouching'
  BY <1>4 DEF TryLockFail
<1>5. ASSUME NEW p \in Pass, Record(p)
      PROVE  Vouching'
  BY <1>5 DEF Record
<1>6. ASSUME NEW p \in Pass, ReleaseNotHeld(p)
      PROVE  Vouching'
  BY <1>6 DEF ReleaseNotHeld
<1>7. ASSUME NEW p \in Pass, ReleaseShared(p)
      PROVE  Vouching'
  BY <1>7 DEF ReleaseShared, WithUsers, Hold
<1>8. ASSUME NEW p \in Pass, ReleaseLast(p)
      PROVE  Vouching'
  BY <1>8 DEF ReleaseLast, Hold
<1>9. ASSUME NEW p \in Pass, EtcdUnlock(p)
      PROVE  Vouching'
  <2>1. owner[biz[p]] = sess[p] /\ biz[p] \in Biz /\ sess[p] \in Session
    BY <1>9 DEF EtcdUnlock
  <2>2. CASE owner' = [owner EXCEPT ![biz[p]] = NoSession]
    BY <1>9, <2>1, <2>2 DEF EtcdUnlock
  <2>3. CASE UNCHANGED owner
    <3>1. \A a \in Am, b \in Biz :
            holds[a][b].refCnt # 0 => keeper'[owner[b]] = a
      <4> SUFFICES ASSUME NEW a \in Am, NEW b \in Biz, holds[a][b].refCnt # 0
                   PROVE  keeper'[owner[b]] = a
        OBVIOUS
      <4>1. owner[b] \in Session /\ keeper[owner[b]] = a
        OBVIOUS
      <4>2. p \in Between /\ b # biz[p]
        BY <1>9 DEF EtcdUnlock
      <4>3. owner[b] # sess[p]
        BY <2>1, <4>1, <4>2
      <4>4. QED
        BY <1>9, <4>1, <4>3 DEF EtcdUnlock
    <3>2. \A q \in Between \ {p} :
            keeper'[sess[q]] = AmOf[q] /\ Between' = Between \ {p}
      BY <1>9, <2>1, <2>3 DEF EtcdUnlock
    <3>3. QED
      BY <1>9, <2>1, <2>3, <3>1, <3>2 DEF EtcdUnlock
  <2>4. QED
    BY <1>9, <2>1, <2>2, <2>3 DEF EtcdUnlock
<1>10. ASSUME NEW b \in Biz, LeaseExpire(b)
      PROVE  Vouching'
  BY <1>10 DEF LeaseExpire, Orphaned
<1>11. ASSUME NEW a \in Am, Crash(a)
      PROVE  Vouching'
  BY <1>11 DEF Crash
<1>12. CASE UNCHANGED vars
  BY <1>12 DEF vars
<1>13. QED
  BY <1>1, <1>2, <1>3, <1>4, <1>5, <1>6, <1>7, <1>8, <1>9, <1>10, <1>11,
     <1>12 DEF Next, Acquire, Continue

\* The sharing invariant: every key has one voucher in the process that renews
\* it, and every entry counts its users exactly.
THEOREM LockInvariant == LeaseLoss = FALSE => (Spec => []LockInv)
<1> SUFFICES ASSUME LeaseLoss = FALSE
             PROVE  Spec => []LockInv
  OBVIOUS
<1>1. Init => LockInv
  <2> SUFFICES ASSUME Init
               PROVE  LockInv
    OBVIOUS
  <2>1. TypeOK
    BY ConstantAssumption DEF Init, TypeOK, MaybeSession, NoHold
  <2>2. RefCountExact
    <3>1. \A a \in Am, b \in Biz : Inside(a, b) = {}
      BY DEF Init, Inside
    <3>2. QED
      BY <3>1, FS_EmptySet DEF Init, RefCountExact, NoHold
  <2>3. QED
    BY <2>1, <2>2 DEF Init, LockInv, EntriesVouch, BetweenVouch, OneVoucher,
                      OneKey, Between, NoHold
<1>2. TypeOK' /\ LockInv /\ [Next]_vars => LockInv'
  BY RefCountStep, VouchingStep DEF LockInv, Vouching
<1>3. QED
  BY <1>1, <1>2, TypeCorrect, PTL DEF Spec

\* Two processes never work on one business at the same time: their entries
\* would both vouch for the session that has its key.
LEMMA LockInvExcludes == LockInv => MutualExclusion
<1> SUFFICES ASSUME LockInv,
                    NEW p \in Pass, NEW q \in Pass,
                    pc[p] = "inside", pc[q] = "inside", biz[p] = biz[q]
             PROVE  AmOf[p] = AmOf[q]
  BY DEF MutualExclusion
<1>1. Hold(p).refCnt > 0 /\ AmOf[p] \in Am /\ biz[p] \in Biz
  BY AtWorkIsHeld DEF LockInv
<1>2. Hold(q).refCnt > 0 /\ AmOf[q] \in Am
  BY AtWorkIsHeld DEF LockInv
<1>3. keeper[owner[biz[p]]] = AmOf[p] /\ keeper[owner[biz[p]]] = AmOf[q]
  BY <1>1, <1>2 DEF LockInv, EntriesVouch, Hold
<1>4. QED
  BY <1>3

\* Passes of two processes are never at work on one business together.
THEOREM Exclusion == LeaseLoss = FALSE => (Spec => []MutualExclusion)
BY LockInvariant, LockInvExcludes, PTL

\* No key leaks, said of a business, a session and a process.
NoLeak ==
    \A b \in Biz, s \in Session, a \in Am :
        owner[b] = s /\ keeper[s] = a =>
            \/ holds[a][b].session = s
            \/ \E p \in Pass : sess[p] = s /\ biz[p] = b

LEMMA NoLeakMeans == TypeOK => (NoLeak <=> NoLeakedLock)
<1> SUFFICES ASSUME TypeOK
             PROVE  NoLeak <=> NoLeakedLock
  OBVIOUS
<1> USE ConstantAssumption DEF TypeOK, MaybeSession, Orphaned
<1>1. ASSUME NoLeakedLock, NEW b \in Biz, NEW s \in Session, NEW a \in Am,
             owner[b] = s, keeper[s] = a
      PROVE  \/ holds[a][b].session = s
             \/ \E p \in Pass : sess[p] = s /\ biz[p] = b
  <2>1. owner[b] # NoSession /\ ~Orphaned(b)
    BY <1>1
  <2>2. QED
    BY <1>1, <2>1 DEF NoLeakedLock
<1>2. ASSUME NoLeak
      PROVE  NoLeakedLock
  <2> SUFFICES ASSUME NEW b \in Biz, owner[b] # NoSession, ~Orphaned(b)
               PROVE  \/ holds[keeper[owner[b]]][b].session = owner[b]
                      \/ \E p \in Pass : sess[p] = owner[b] /\ biz[p] = b
    BY DEF NoLeakedLock
  <2>1. owner[b] \in Session /\ keeper[owner[b]] \in Am
    OBVIOUS
  <2>2. QED
    BY <1>2, <2>1 DEF NoLeak
<1>3. QED
  BY <1>1, <1>2 DEF NoLeak

\* A live key has a voucher: a step that changes entries or sessions hands the
\* session on.
LEMMA LeakStep ==
    ASSUME LeaseLoss = FALSE, LockInv, NoLeak, [Next]_vars
    PROVE  NoLeak'
<1> SUFFICES ASSUME NEW b \in Biz, NEW s \in Session, NEW a \in Am,
                    owner'[b] = s, keeper'[s] = a
             PROVE  \/ holds'[a][b].session = s
                    \/ \E p \in Pass : sess'[p] = s /\ biz'[p] = b
  BY DEF NoLeak
<1> DEFINE Vouched == \/ holds[a][b].session = s
                      \/ \E p \in Pass : sess[p] = s /\ biz[p] = b
<1>1. owner[b] = s /\ keeper[s] = a => Vouched
  BY DEF NoLeak
<1>2. /\ TypeOK
      /\ \A p \in Pass : pc[p] \notin {"record", "unlock"} => sess[p] = NoSession
      /\ \A p \in Pass : pc[p] \in {"record", "unlock"} =>
            owner[biz[p]] = sess[p] /\ keeper[sess[p]] = AmOf[p]
  BY DEF LockInv, Between, BetweenVouch
<1> HIDE DEF Vouched
<1> USE ConstantAssumption DEF TypeOK, MaybeSession
<1>3. ASSUME Vouched, UNCHANGED <<sess, biz>>,
             holds'[a][b].session = holds[a][b].session
      PROVE  Vouched'
  BY <1>3 DEF Vouched
<1>4. ASSUME NEW p \in Pass, NEW c \in Biz,
             AcquireShared(p, c) \/ AcquireMiss(p, c)
      PROVE  Vouched'
  <2>1. /\ sess[p] = NoSession /\ UNCHANGED <<owner, keeper, sess>>
        /\ holds'[a][b].session = holds[a][b].session
        /\ \A q \in Pass : q # p => biz'[q] = biz[q]
    <3>1. CASE AcquireShared(p, c)
      BY <1>2, <3>1 DEF AcquireShared, WithUsers
    <3>2. CASE AcquireMiss(p, c)
      BY <1>2, <3>2 DEF AcquireMiss
    <3>3. QED
      BY <1>4, <3>1, <3>2
  <2>2. QED
    BY <1>1, <2>1 DEF Vouched
<1>5. ASSUME NEW p \in Pass, NEW z \in Session, TryLockOk(p, z)
      PROVE  Vouched'
  <2>1. /\ owner' = [owner EXCEPT ![biz[p]] = z]
        /\ keeper' = [keeper EXCEPT ![z] = AmOf[p]]
        /\ sess' = [sess EXCEPT ![p] = z]
        /\ UNCHANGED <<holds, biz>>
        /\ sess[p] = NoSession /\ owner[b] # z
    BY <1>2, <1>5 DEF TryLockOk, FreeSession
  <2>2. CASE b = biz[p]
    BY <1>2, <2>1, <2>2 DEF Vouched
  <2>3. CASE b # biz[p]
    <3>1. owner[b] = s /\ keeper[s] = a
      BY <1>2, <2>1, <2>3
    <3>2. QED
      BY <1>1, <1>2, <2>1, <3>1 DEF Vouched
  <2>4. QED
    BY <2>2, <2>3
<1>6. ASSUME NEW p \in Pass, NEW z \in Session, TryLockLost(p, z)
      PROVE  Vouched'
  <2>1. owner[b] = s /\ keeper[s] = a
    BY <1>2, <1>6 DEF TryLockLost, FreeSession
  <2>2. QED
    BY <1>1, <1>3, <1>6, <2>1 DEF TryLockLost
<1>7. ASSUME NEW p \in Pass,
             TryLockFail(p) \/ ReleaseNotHeld(p) \/ ReleaseShared(p)
      PROVE  Vouched'
  <2>1. /\ UNCHANGED <<owner, keeper, biz, sess>>
        /\ holds'[a][b].session = holds[a][b].session
    <3>1. CASE TryLockFail(p) \/ ReleaseNotHeld(p)
      BY <3>1 DEF TryLockFail, ReleaseNotHeld
    <3>2. CASE ReleaseShared(p)
      BY <1>2, <3>2 DEF ReleaseShared, WithUsers, Hold
    <3>3. QED
      BY <1>7, <3>1, <3>2
  <2>2. QED
    BY <1>1, <1>3, <2>1
<1>8. ASSUME NEW p \in Pass, Record(p)
      PROVE  Vouched'
  <2>1. /\ holds' = [holds EXCEPT ![AmOf[p]][biz[p]] =
                        [session |-> sess[p], refCnt |-> 1]]
        /\ sess' = [sess EXCEPT ![p] = NoSession]
        /\ UNCHANGED <<owner, keeper, biz>>
        /\ owner[biz[p]] = sess[p] /\ keeper[sess[p]] = AmOf[p]
    BY <1>2, <1>8 DEF Record
  <2>2. CASE b = biz[p]
    BY <1>2, <2>1, <2>2 DEF Vouched
  <2>3. CASE b # biz[p]
    BY <1>1, <1>2, <2>1, <2>3 DEF Vouched
  <2>4. QED
    BY <2>2, <2>3
<1>9. ASSUME NEW p \in Pass, ReleaseLast(p)
      PROVE  Vouched'
  <2>1. /\ holds' = [holds EXCEPT ![AmOf[p]][biz[p]] = NoHold]
        /\ sess' = [sess EXCEPT ![p] = Hold(p).session]
        /\ UNCHANGED <<owner, keeper, biz>>
        /\ Hold(p).refCnt = 1 /\ sess[p] = NoSession
    BY <1>2, <1>9 DEF ReleaseLast
  <2>2. owner[biz[p]] = Hold(p).session
    BY <2>1 DEF Hold, LockInv, EntriesVouch
  <2>3. CASE b = biz[p]
    BY <1>2, <2>1, <2>2, <2>3 DEF Vouched
  <2>4. CASE b # biz[p]
    BY <1>1, <1>2, <2>1, <2>4 DEF Vouched
  <2>5. QED
    BY <2>3, <2>4
<1>10. ASSUME NEW p \in Pass, EtcdUnlock(p)
       PROVE  Vouched'
  <2>1. /\ keeper' = [keeper EXCEPT ![sess[p]] = NoAm]
        /\ sess' = [sess EXCEPT ![p] = NoSession]
        /\ UNCHANGED <<holds, biz>>
        /\ owner'[b] \in {owner[b], NoSession}
    BY <1>2, <1>10 DEF EtcdUnlock
  <2>2. owner[b] = s /\ keeper[s] = a /\ sess[p] # s
    BY <1>2, <2>1
  <2>3. QED
    BY <1>1, <1>2, <2>1, <2>2 DEF Vouched
<1>11. ASSUME NEW c \in Biz, LeaseExpire(c)
       PROVE  Vouched'
  <2>1. owner[b] = s /\ keeper[s] = a
    BY <1>2, <1>11 DEF LeaseExpire
  <2>2. QED
    BY <1>1, <1>3, <1>11, <2>1 DEF LeaseExpire
<1>12. ASSUME NEW d \in Am, Crash(d)
       PROVE  Vouched'
  <2>1. a # d /\ owner[b] = s /\ keeper[s] = a
    BY <1>2, <1>12 DEF Crash
  <2>2. /\ holds'[a] = holds[a] /\ biz' = biz
        /\ \A q \in Pass : AmOf[q] # d => sess'[q] = sess[q]
    BY <1>2, <1>12, <2>1 DEF Crash
  <2>3. \A q \in Pass : sess[q] = s => AmOf[q] = a
    BY <1>2, <2>1
  <2>4. QED
    BY <1>1, <2>1, <2>2, <2>3 DEF Vouched
<1>13. CASE UNCHANGED vars
  <2>1. UNCHANGED <<owner, keeper, holds, biz, sess>>
    BY <1>13 DEF vars
  <2>2. owner[b] = s /\ keeper[s] = a
    BY <2>1
  <2>3. QED
    BY <1>1, <2>1, <2>2 DEF Vouched
<1>14. QED
  BY <1>4, <1>5, <1>6, <1>7, <1>8, <1>9, <1>10, <1>11, <1>12, <1>13
     DEF Next, Acquire, Continue, Vouched

\* A key that is renewed is known to someone who will give it back.
THEOREM NoKeyLeaks == LeaseLoss = FALSE => (Spec => []NoLeakedLock)
<1> SUFFICES ASSUME LeaseLoss = FALSE
             PROVE  Spec => []NoLeakedLock
  OBVIOUS
<1>1. Init => NoLeakedLock
  BY DEF Init, NoLeakedLock
<1>2. LockInv /\ NoLeakedLock /\ [Next]_vars /\ TypeOK' => NoLeakedLock'
  <2> SUFFICES ASSUME LockInv, NoLeakedLock, [Next]_vars, TypeOK'
               PROVE  NoLeakedLock'
    OBVIOUS
  <2>1. TypeOK /\ NoLeak
    BY NoLeakMeans DEF LockInv
  <2>2. NoLeak'
    BY <2>1, LeakStep
  <2>3. QED
    BY <2>2, NoLeakMeans, PTL
<1>3. QED
  BY <1>1, <1>2, LockInvariant, TypeCorrect, PTL DEF Spec

\* The etcd mutex is given back by the last pass of its process, not before.
THEOREM ExactCounts == LeaseLoss = FALSE => (Spec => []RefCountExact)
<1>1. LockInv => RefCountExact
  BY DEF LockInv
<1>2. QED
  BY <1>1, LockInvariant, PTL

-----------------------------------------------------------------------------
(* LockTracker implements BizLock *)

\* A pass that comes to work does so alone or among passes of its process.
LEMMA EnterStep ==
    ASSUME LockInv, LockInv', NEW p \in Pass, NEW b \in Biz, pc[p] # "inside",
           pc' = [pc EXCEPT ![p] = "inside"], biz' = [biz EXCEPT ![p] = b]
    PROVE  Promise!Enter(p, b)
<1>1. \A c \in Biz : p \notin AtWorkOn[c]
  BY DEF AtWorkOn
<1>2. ASSUME NEW q \in AtWorkOn[b]
      PROVE  AmOf[q] = AmOf[p]
  <2>1. MutualExclusion'
    BY LockInvExcludes, PTL
  <2>2. q \in Pass /\ pc'[q] = "inside" /\ biz'[q] = b
    BY <1>2 DEF LockInv, TypeOK, AtWorkOn
  <2>3. pc'[p] = "inside" /\ biz'[p] = b
    BY DEF LockInv, TypeOK
  <2>4. QED
    BY <2>1, <2>2, <2>3 DEF MutualExclusion
<1>3. AtWorkOn' = [AtWorkOn EXCEPT ![b] = @ \cup {p}]
  <2>1. \A q \in Pass, c \in Biz :
          pc'[q] = "inside" /\ biz'[q] = c
            <=> (pc[q] = "inside" /\ biz[q] = c) \/ (q = p /\ c = b)
    BY DEF LockInv, TypeOK
  <2>2. \A c \in Biz : AtWorkOn'[c] = IF c = b THEN AtWorkOn[c] \cup {p}
                                               ELSE AtWorkOn[c]
    BY <2>1 DEF AtWorkOn
  <2>3. QED
    BY <2>2 DEF AtWorkOn
<1>4. QED
  BY <1>1, <1>2, <1>3 DEF Promise!Enter

\* A pass that releases leaves its business, and only that one.
LEMMA LeaveStep ==
    ASSUME LockInv, NEW p \in Pass,
           ReleaseNotHeld(p) \/ ReleaseShared(p) \/ ReleaseLast(p)
    PROVE  Promise!Leave(p, biz[p])
<1>1. p \in AtWorkOn[biz[p]]
  BY DEF LockInv, TypeOK, AtWorkOn, ReleaseNotHeld, ReleaseShared, ReleaseLast
<1>2. AtWorkOn' = [AtWorkOn EXCEPT ![biz[p]] = @ \ {p}]
  <2>1. \A q \in Pass, c \in Biz :
          pc'[q] = "inside" /\ biz'[q] = c
            <=> pc[q] = "inside" /\ biz[q] = c /\ q # p
    BY DEF LockInv, TypeOK, ReleaseNotHeld, ReleaseShared, ReleaseLast
  <2>2. \A c \in Biz : AtWorkOn'[c] = IF c = biz[p] THEN AtWorkOn[c] \ {p}
                                                    ELSE AtWorkOn[c]
    BY <2>1 DEF AtWorkOn
  <2>3. /\ AtWorkOn = [c \in Biz |-> AtWorkOn[c]]
        /\ AtWorkOn' = [c \in Biz |-> AtWorkOn'[c]]
    BY DEF AtWorkOn
  <2>4. QED
    BY <2>2, <2>3
<1>3. QED
  BY <1>1, <1>2 DEF Promise!Leave

\* Every step of the tracker, etcd and the environment is a step the promise
\* allows, or invisible to it.
LEMMA PromiseStep ==
    ASSUME LockInv, LockInv', [Next]_vars
    PROVE  [Promise!Next]_AtWorkOn
<1> USE ConstantAssumption
<1>1. ASSUME NEW p \in Pass, NEW b \in Biz, AcquireShared(p, b)
      PROVE  Promise!Next
  BY <1>1, EnterStep DEF AcquireShared, Promise!Next
<1>2. ASSUME NEW p \in Pass, Record(p)
      PROVE  Promise!Next
  <2>1. biz[p] \in Biz /\ biz' = [biz EXCEPT ![p] = biz[p]]
    BY <1>2 DEF LockInv, TypeOK, Record
  <2>2. Promise!Enter(p, biz[p])
    BY <1>2, <2>1, EnterStep DEF Record
  <2>3. QED
    BY <2>1, <2>2 DEF Promise!Next
<1>3. ASSUME NEW p \in Pass,
             ReleaseNotHeld(p) \/ ReleaseShared(p) \/ ReleaseLast(p)
      PROVE  Promise!Next
  BY <1>3, LeaveStep DEF Promise!Next, LockInv, TypeOK
<1>4. ASSUME NEW a \in Am, Crash(a)
      PROVE  Promise!Next
  <2>1. AtWorkOn' = [b \in Biz |-> {p \in AtWorkOn[b] : AmOf[p] # a}]
    BY <1>4 DEF Crash, AtWorkOn
  <2>2. QED
    BY <2>1 DEF Promise!Crash, Promise!Next
<1>5. ASSUME NEW p \in Pass,
             \/ \E b \in Biz : AcquireMiss(p, b)
             \/ \E s \in Session : TryLockOk(p, s) \/ TryLockLost(p, s)
             \/ TryLockFail(p)
             \/ EtcdUnlock(p)
      PROVE  UNCHANGED AtWorkOn
  <2>1. \A q \in Pass : /\ pc'[q] = "inside" <=> pc[q] = "inside"
                        /\ pc[q] = "inside" => biz'[q] = biz[q]
    BY <1>5 DEF LockInv, TypeOK, AcquireMiss, TryLockOk, TryLockLost, TryLockFail,
             EtcdUnlock
  <2>2. QED
    BY <2>1 DEF AtWorkOn
<1>6. ASSUME NEW b \in Biz, LeaseExpire(b)
      PROVE  UNCHANGED AtWorkOn
  BY <1>6 DEF LeaseExpire, AtWorkOn
<1>7. CASE UNCHANGED vars
  BY <1>7 DEF vars, AtWorkOn
<1>8. QED
  BY <1>1, <1>2, <1>3, <1>4, <1>5, <1>6, <1>7 DEF Next, Acquire, Continue

\* The reference-counted tracker over etcd mutexes implements the switch lock
\* that BizLock promises, as long as living processes keep their leases.
THEOREM Refinement == LeaseLoss = FALSE => (Spec => RefinesBizLock)
<1> SUFFICES ASSUME LeaseLoss = FALSE
             PROVE  Spec => RefinesBizLock
  OBVIOUS
<1>1. Init => Promise!Init
  BY DEF Init, Promise!Init, AtWorkOn
<1>2. LockInv /\ LockInv' /\ [Next]_vars => [Promise!Next]_AtWorkOn
  BY PromiseStep
<1>3. QED
  BY <1>1, <1>2, LockInvariant, PTL DEF Spec, RefinesBizLock, Promise!Spec
=============================================================================
