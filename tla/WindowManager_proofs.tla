------------------------ MODULE WindowManager_proofs ------------------------
(***************************************************************************)
(* What the operations of the window manager keep and what they change.    *)
(***************************************************************************)
EXTENDS WindowManager, TLAPS

-----------------------------------------------------------------------------
(* The operations of the manager keep its type *)

\* A difference that stops at zero stays in range.
LEMMA MinusRange ==
    ASSUME NEW n \in Nat, NEW d \in Nat
    PROVE  Minus(n, d) \in 0 .. n
BY DEF Minus

\* A merged entry is an entry, and it waits.
LEMMA MergedType ==
    ASSUME NEW entry \in Entry, NEW d \in Nat
    PROVE  Merged(entry, d) \in Entry /\ Merged(entry, d).count > 0
<1>1. Minus(WindowDuration + 1, d) \in 0 .. WindowDuration + 1
  BY MinusRange, WindowAssumption
<1>2. QED
  BY <1>1, WindowAssumption DEF Merged, Entry

\* An entry that is pushed is the only thing that changes, and it waits.
LEMMA PushedType ==
    ASSUME NEW m \in Manager, NEW k \in Key, NEW d \in Nat
    PROVE  /\ Pushed(m, k, d) \in Manager
           /\ Pushed(m, k, d).marks = m.marks
           /\ \A h \in Key :
                 (Waiting(Pushed(m, k, d), h) /\ ~Waiting(m, h)) =>
                     h = k /\ m.marks[k[1]] = 0
<1>1. k[1] \in Inst /\ m.entries[k] \in Entry
  BY DEF Key, Manager
<1>2. Merged(m.entries[k], d) \in Entry
  BY <1>1, MergedType
<1>3. m.marks[k[1]] \in Nat
  BY <1>1, WindowAssumption DEF Manager
<1>4. QED
  BY <1>1, <1>2, <1>3 DEF Pushed, Manager, Waiting

\* A push takes nothing out of a window.
LEMMA PushedKeeps ==
    ASSUME NEW m \in Manager, NEW k \in Key, NEW d \in Nat,
           NEW h \in Key, Waiting(m, h)
    PROVE  Waiting(Pushed(m, k, d), h)
<1>1. m.entries[k] \in Entry
  BY DEF Manager
<1>2. Merged(m.entries[k], d).count > 0
  BY <1>1, MergedType
<1>3. QED
  BY <1>2 DEF Pushed, Waiting, Manager

\* Popping keeps the type.
LEMMA PoppedType ==
    ASSUME NEW m \in Manager, NEW b \in Biz
    PROVE  Popped(m, b) \in Manager
<1>1. NoEntry \in Entry /\ InflightTTL \in 0 .. InflightTTL
  BY WindowAssumption DEF NoEntry, Entry
<1>2. QED
  BY <1>1 DEF Popped, Manager

\* So does MarkDone.
LEMMA DoneType ==
    ASSUME NEW m \in Manager, NEW i \in Inst
    PROVE  Done(m, i) \in Manager
BY WindowAssumption DEF Done, Manager

\* A tick keeps the type and what waits, and takes one off each mark.
LEMMA ElapsedType ==
    ASSUME NEW m \in Manager
    PROVE  /\ Elapsed(m) \in Manager
           /\ \A k \in Key : Waiting(Elapsed(m), k) <=> Waiting(m, k)
           /\ \A i \in Inst : Elapsed(m).marks[i] =
                                  IF m.marks[i] > 1 THEN m.marks[i] - 1 ELSE 0
<1>1. ASSUME NEW k \in Key
      PROVE  [m.entries[k] EXCEPT !.left = Minus(@, 1)] \in Entry
  <2>1. m.entries[k] \in Entry
    BY DEF Manager
  <2>2. Minus(m.entries[k].left, 1) \in 0 .. WindowDuration + 1
    BY <2>1, MinusRange, WindowAssumption DEF Entry, Minus
  <2>3. QED
    BY <2>1, <2>2 DEF Entry
<1>2. ASSUME NEW i \in Inst
      PROVE  /\ Minus(m.marks[i], 1) \in 0 .. InflightTTL
             /\ Minus(m.marks[i], 1) = IF m.marks[i] > 1 THEN m.marks[i] - 1 ELSE 0
  BY WindowAssumption DEF Minus, Manager
<1>3. Elapsed(m) \in Manager
  BY <1>1, <1>2 DEF Elapsed, Manager
<1>4. ASSUME NEW k \in Key
      PROVE  Waiting(Elapsed(m), k) <=> Waiting(m, k)
  <2>1. m.entries[k] \in Entry
    BY DEF Manager
  <2>2. QED
    BY <2>1 DEF Elapsed, Waiting, Entry
<1>5. QED
  BY <1>2, <1>3, <1>4 DEF Elapsed

-----------------------------------------------------------------------------
(* What MarkDone changes *)

\* MarkDone deletes one mark and nothing else.
LEMMA DoneEffect ==
    ASSUME NEW m \in Manager, NEW i \in Inst, NEW k \in Key
    PROVE  /\ Waiting(Done(m, i), k) <=> Waiting(m, k)
           /\ k[1] # i => Done(m, i).marks[k[1]] = m.marks[k[1]]
BY DEF Done, Manager, Waiting, Key
=============================================================================
