--------------------------- MODULE WindowManager ---------------------------
(***************************************************************************)
(* The sliding windows of one analysis process and its inflight marks      *)
(* (workflow/sliding_window.go), as a value and its operations: each       *)
(* operation runs under BizWindowManager.mu, so it is one function from    *)
(* the manager before it to the manager after it.                          *)
(*                                                                         *)
(* Times are kept as what remains of them.  An entry has `left` ticks to   *)
(* wait until FirstAt + windowDuration < now, a mark discards pushes for   *)
(* marks[i] more ticks.  A mark that has run out is like no mark at all:   *)
(* Push is the only reader, and it deletes the mark and goes on.           *)
(***************************************************************************)
EXTENDS Naturals

CONSTANTS
    Inst,            \* the database instances
    Event,           \* the names of the failure events
    Biz,             \* the businesses
    BizOf,           \* the business of an instance
    WindowDuration,  \* ticks an entry stays in its window
    InflightTTL,     \* ticks a mark is valid
    MaxCount         \* counts are exact up to here (thresholds are below)

ASSUME WindowAssumption ==
    /\ BizOf \in [Inst -> Biz]
    /\ WindowDuration \in Nat
    /\ InflightTTL \in Nat \ {0}
    /\ MaxCount \in Nat \ {0}

\* instanceWindowEventKey: an instance and an event
Key == Inst \X Event

Entry == [count : 0 .. MaxCount, left : 0 .. WindowDuration + 1]
NoEntry == [count |-> 0, left |-> 0]

Manager == [entries : [Key -> Entry], marks : [Inst -> 0 .. InflightTTL]]

NewManager ==
    [entries |-> [k \in Key |-> NoEntry], marks |-> [i \in Inst |-> 0]]

Waiting(m, k) == m.entries[k].count > 0

-----------------------------------------------------------------------------
(* slidingWindow.push and BizWindowManager.Push *)

\* What is left of n ticks after d of them.
Minus(n, d) == IF n > d THEN n - d ELSE 0

\* Mutant: a repeated failure starts its wait anew.
MergedRefreshed(entry, d) ==
    [count |-> IF entry.count < MaxCount THEN entry.count + 1 ELSE MaxCount,
     left |-> Minus(WindowDuration + 1, d)]

\* A repeated failure is counted and keeps FirstAt.  A new one was seen d
\* ticks ago: `now` is read before the responses are worked through.
Merged(entry, d) ==
    [count |-> IF entry.count < MaxCount THEN entry.count + 1 ELSE MaxCount,
     left |-> IF entry.count > 0 THEN entry.left
                                 ELSE Minus(WindowDuration + 1, d)]

\* Mutant: the mark is not looked at.
PushedUnchecked(m, k, d) ==
    [m EXCEPT !.entries[k] = Merged(@, d)]

\* The push of an instance that is being switched is discarded.
Pushed(m, k, d) ==
    IF m.marks[k[1]] > 0
      THEN m
      ELSE [m EXCEPT !.entries[k] = Merged(@, d)]

-----------------------------------------------------------------------------
(* slidingWindow.pop and BizWindowManager.PopAndMarkStart *)

\* The entries of business b that have slid out of the window.
Ripe(m, b) ==
    {k \in Key : BizOf[k[1]] = b /\ Waiting(m, k) /\ m.entries[k].left = 0}

Hit(keys) == {k[1] : k \in keys}

\* Mutant: the window of the business is deleted with what is still waiting in it.
PoppedAll(m, b) ==
    [entries |-> [k \in Key |-> IF BizOf[k[1]] = b /\ Ripe(m, b) # {}
                                  THEN NoEntry ELSE m.entries[k]],
     marks |-> [i \in Inst |-> IF i \in Hit(Ripe(m, b)) THEN InflightTTL
                                                        ELSE m.marks[i]]]

\* The ripe entries leave, and each of their instances is marked now, whether
\* or not it had a mark.
Popped(m, b) ==
    [entries |-> [k \in Key |-> IF k \in Ripe(m, b) THEN NoEntry
                                                    ELSE m.entries[k]],
     marks |-> [i \in Inst |-> IF i \in Hit(Ripe(m, b)) THEN InflightTTL
                                                        ELSE m.marks[i]]]

-----------------------------------------------------------------------------
\* Mutant: nothing is deleted.
DoneNever(m, i) == m

\* MarkDone: the mark goes, whoever set it.
Done(m, i) == [m EXCEPT !.marks[i] = 0]

\* Mutant: marks do not age, as if Push did not look at inflightTTL.
ElapsedNoTTL(m) ==
    [m EXCEPT !.entries = [k \in Key |-> [m.entries[k] EXCEPT !.left = Minus(@, 1)]]]

\* One tick goes by.
Elapsed(m) ==
    [entries |-> [k \in Key |-> [m.entries[k] EXCEPT !.left = Minus(@, 1)]],
     marks |-> [i \in Inst |-> Minus(m.marks[i], 1)]]
=============================================================================
