---------------------------- MODULE SignalManager ----------------------------
(***************************************************************************)
(* The signals pending for one process and the one it waits for            *)
(* (src/task/signal.rs).  A signal is known by its type, and signal.ty is  *)
(* the type it is registered under; what it carries is left out.  Calls    *)
(* are made with the lock of the process held, so each is one step.        *)
(***************************************************************************)
EXTENDS Integers, Sequences

CONSTANTS
    SignalType,     \* the types in use; register_signal asserts that 0 is not one
    MaxPending      \* bound of the model on the signals pending

NoSignal == 0

ASSUME SignalAssumption == NoSignal \notin SignalType /\ MaxPending \in Nat

VARIABLES
    signal_bitmap,  \* the types whose bit is set
    signals,        \* the types of the pending signals, in order
    waiting_for,    \* the type waited for, or NoSignal
    arrived,        \* the types registered since the last register_wait_for
    panicked        \* delete_signal has indexed past the end of signals

vars == <<signal_bitmap, signals, waiting_for, arrived, panicked>>

Init ==
    /\ signal_bitmap = {} /\ signals = << >>
    /\ waiting_for = NoSignal /\ arrived = {}
    /\ panicked = FALSE
-----------------------------------------------------------------------------
has_signal(t) == t \in signal_bitmap

AwaitedKept(t) == waiting_for
Awaited(t) == IF t = waiting_for THEN NoSignal ELSE waiting_for

\* assert_ne!(signal_type, 0)
Registers(t) == t # NoSignal

register_signal(t) ==
    /\ ~panicked /\ Registers(t) /\ Len(signals) < MaxPending
    /\ signal_bitmap' = signal_bitmap \cup {t}
    /\ signals' = Append(signals, t)
    /\ waiting_for' = Awaited(t)
    /\ arrived' = arrived \cup {t}
    /\ UNCHANGED panicked

\* Type 0 ends a wait.  It does not ask whether such a signal is pending already.
register_wait_for(t) ==
    /\ ~panicked
    /\ waiting_for' = t /\ arrived' = {}
    /\ UNCHANGED <<signal_bitmap, signals, panicked>>

\* The signal that get_signal returns stays pending; no index means None.
get_signal(t) ==
    {i \in DOMAIN signals : has_signal(t) /\ signals[i] = t /\ \A j \in 1 .. i - 1 : signals[j] # t}

ClearBitNot(t) == signal_bitmap
ClearBit(t) == signal_bitmap \ {t}

\* The loop runs up to the length signals had at first.  Once it has removed one
\* that is not the last, its later indexes run past the end; so it comes through
\* only if the first match is the last signal.
delete_signal(t) ==
    /\ ~panicked /\ has_signal(t)
    /\ signal_bitmap' = ClearBit(t)
    /\ \E i \in get_signal(t) :
          \/ i = Len(signals) /\ signals' = SubSeq(signals, 1, i - 1) /\ UNCHANGED panicked
          \/ i < Len(signals) /\ panicked' = TRUE /\ UNCHANGED signals
    /\ UNCHANGED <<waiting_for, arrived>>

Next == \E t \in SignalType \cup {NoSignal} : register_signal(t) \/ register_wait_for(t) \/ delete_signal(t)

Spec == Init /\ [][Next]_vars
-----------------------------------------------------------------------------
\* The bit of a type is set exactly when get_signal finds a signal of it: what
\* has_signal promises, get_signal delivers.
BitmapTells == ~panicked => \A t \in SignalType : has_signal(t) <=> t \in {signals[i] : i \in DOMAIN signals}

\* No wakeup is used up without ending the wait, and none is missed once the
\* process waits: while it waits for a type, none of that type has come since.
NoMissedWake == waiting_for \notin arrived
=============================================================================
