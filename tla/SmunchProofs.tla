----------------------------- MODULE SmunchProofs -----------------------------
(***************************************************************************)
(* Proofs about Smunch, for every set of signals and of handlers and every *)
(* way a debugger may come and go.                                         *)
(***************************************************************************)
EXTENDS Smunch, WellFoundedInduction, TLAPS

\* The two invariants are inductive together: the target has an exit code only
\* when a pending signal killed it, and what is pending is one of Signals.
IInv == TypeOK /\ PendingFlagged

-----------------------------------------------------------------------------
\* A set of naturals has a least element.
LEMMA LeastNat ==
  ASSUME NEW T \in SUBSET Nat, T # {}
  PROVE  \E n \in T : \A m \in T : n <= m
<1> DEFINE R == OpToRel(<, Nat)
<1>1. IsWellFoundedOn(R, Nat)
  BY NatLessThanWellFounded
<1>2. PICK n \in T : \A m \in T : <<m, n>> \notin R
  <2> HIDE DEF R
  <2> QED BY <1>1, WFMin
<1>3. \A m \in T : ~(m < n)
  BY <1>2 DEF OpToRel
<1> QED BY <1>3

\* The return path has a signal to deliver, one that is pending.
LEMMA LowestPending ==
  ASSUME NEW S \in SUBSET Signals, S # {}
  PROVE  Lowest(S) \in S
<1>1. S \in SUBSET Nat
  BY SmunchAssumption DEF SmunchAssumption
<1>2. \E s \in S : \A t \in S : s <= t
  BY <1>1, LeastNat
<1> QED BY <1>2 DEF Lowest

LEMMA IInvInit == Init => IInv
BY SmunchAssumption DEF SmunchAssumption, Init, IInv, TypeOK, PendingFlagged

-----------------------------------------------------------------------------
\* The call.
LEMMA CallStep ==
  ASSUME IInv, smunch_find \/ Call
  PROVE  IInv'
<1> USE SmunchAssumption DEF SmunchAssumption, IInv, TypeOK, PendingFlagged, target, Asleep
<1>1. CASE smunch_find
  BY <1>1 DEF smunch_find
<1>2. CASE smunch_check \/ smunch_alive
  BY <1>2 DEF smunch_check, smunch_alive, Ignored
<1>3. CASE smunch_zombie
  BY <1>3 DEF smunch_zombie
<1>4. CASE smunch_send
  BY <1>4 DEF smunch_send, Flagged
<1>5. CASE smunch_wake
  <2>1. task' \in Asleep \cup
          {"user", "syscall", "spinning", "woken", "return", "zombie", "released"}
        /\ (task' \in {"zombie", "released"} <=> task \in {"zombie", "released"})
    BY <1>5 DEF smunch_wake, Woken
  <2> QED BY <1>5, <2>1 DEF smunch_wake
<1> QED BY <1>1, <1>2, <1>3, <1>4, <1>5 DEF Call

\* The target, and a debugger.
LEMMA TargetStep ==
  ASSUME IInv, Target \/ attach
  PROVE  IInv'
<1> USE SmunchAssumption DEF SmunchAssumption, IInv, TypeOK, PendingFlagged, caller, Asleep
<1>1. CASE deepsleep \/ sleep_on \/ sleep_on_end \/ pause \/ tick
  BY <1>1 DEF deepsleep, sleep_on, sleep_on_end, pause, tick
<1>2. CASE return_to_user
  BY <1>2 DEF return_to_user
<1>3. CASE deliver
  <2> DEFINE s == Lowest(pending)
  <2>0. pending \in SUBSET Signals /\ pending # {}
    BY <1>3 DEF deliver
  <2>1. s \in pending /\ s \in Signals /\ s # 0
    <3>1. s \in pending
      BY ONLY <2>0, LowestPending
    <3> HIDE DEF s
    <3> QED BY <2>0, <3>1
  <2> HIDE DEF s
  <2>2. /\ pending' = pending \ {s}
        /\ \/ s \in Handled /\ UNCHANGED <<task, exit_code>>
           \/ s \notin Handled /\ task' = "zombie" /\ exit_code' = s
        /\ UNCHANGED <<version, pc, bit_pattern, ptrace, trace, TIF_SIGPENDING, overrun>>
        /\ task = "return" /\ TIF_SIGPENDING
    BY <1>3 DEF deliver, s
  <2> QED BY <2>1, <2>2
<1>4. CASE attach
  BY <1>4 DEF attach
<1> QED BY <1>1, <1>2, <1>3, <1>4 DEF Target

LEMMA IInvStep ==
  ASSUME IInv, [Next]_vars
  PROVE  IInv'
<1>1. CASE UNCHANGED vars
  BY <1>1 DEF vars, caller, target, IInv, TypeOK, PendingFlagged
<1> QED BY <1>1, CallStep, TargetStep DEF Next

-----------------------------------------------------------------------------
(* The theorems. *)

LEMMA Inductive == Spec => []IInv
BY IInvInit, IInvStep, PTL DEF Spec

\* A task has an exit code exactly when it has exited, and it is a signal
\* smunch sent and the target has no handler for.
THEOREM TypeCorrect == Spec => []TypeOK
<1>1. IInv => TypeOK
  BY DEF IInv
<1> QED BY <1>1, Inductive, PTL

\* No signal is pending that the return path would not look for.
THEOREM AlwaysFlagged == Spec => []PendingFlagged
<1>1. IInv => PendingFlagged
  BY DEF IInv
<1> QED BY <1>1, Inductive, PTL
=============================================================================
