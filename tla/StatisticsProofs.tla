-------------------------- MODULE StatisticsProofs ---------------------------
(***************************************************************************)
(* summary_stats divides by the number of samples it has kept: for every   *)
(* number of iterations and every drop ratio below one half it keeps one.  *)
(***************************************************************************)
EXTENDS Statistics, TLAPS

\* DROP_IDX drops less than half of the samples at each end.
LEMMA DropsLessThanHalf ==
    ASSUME NEW n \in Nat \ {0}, NEW ratio \in 0..49
    PROVE  2 * ((n * ratio) \div 100) < n
  <1> DEFINE idx == (n * ratio) \div 100
  <1>1. n * ratio \in Nat /\ n * ratio <= 49 * n
    OBVIOUS
  <1>2. idx \in Nat /\ 100 * idx <= n * ratio
    BY <1>1
  <1> HIDE DEF idx
  <1> QED  BY <1>1, <1>2 DEF idx

\* The arguments keep their values, and the process is killed only with nothing left.
DivisionInv ==
    /\ MAX_ITER \in Nat /\ DROP_RATIO \in 0..100
    /\ NoDivisionByZero

\* The mean of summary_stats divides by MAX_ITER - 2 * DROP_IDX: unless there are no
\* samples or half of them are dropped at each end, that is not zero.
THEOREM DivisorPositive == Spec => []NoDivisionByZero
  <1>1. Init => DivisionInv
    BY StatisticsAssumption DEF Init, DivisionInv, NoDivisionByZero
  <1>2. DivisionInv /\ [Next]_vars => DivisionInv'
    <2> SUFFICES ASSUME DivisionInv, [Next]_vars PROVE DivisionInv'
      OBVIOUS
    <2>1. CASE Sort
      BY <2>1 DEF Sort, DivisionInv, NoDivisionByZero
    <2>2. CASE Mean
      <3>1. Kept = {} => MAX_ITER = 0 \/ DROP_RATIO >= 50
        <4> SUFFICES ASSUME MAX_ITER # 0, DROP_RATIO < 50 PROVE Kept # {}
          BY DEF DivisionInv
        <4>1. 2 * DropIdx(MAX_ITER) < MAX_ITER
          BY DropsLessThanHalf DEF DivisionInv, DropIdx
        <4>2. DropIdx(MAX_ITER) \in Int
          BY DEF DivisionInv, DropIdx
        <4>3. DropIdx(MAX_ITER) + 1 \in Kept
          BY <4>1, <4>2 DEF Kept, DivisionInv
        <4> QED  BY <4>3
      <3> QED  BY <2>2, <3>1 DEF Mean, DivisionInv, NoDivisionByZero
    <2>3. CASE Deviation
      BY <2>3 DEF Deviation, DivisionInv, NoDivisionByZero
    <2>4. CASE UNCHANGED vars
      BY <2>4 DEF vars, DivisionInv, NoDivisionByZero
    <2> QED  BY <2>1, <2>2, <2>3, <2>4 DEF Next
  <1>3. DivisionInv => NoDivisionByZero
    BY DEF DivisionInv
  <1> QED  BY <1>1, <1>2, <1>3, PTL DEF Spec
=============================================================================
