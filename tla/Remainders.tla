----------------------------- MODULE Remainders -----------------------------
(***************************************************************************)
(* Facts about remainders, for the proofs about the ring buffer and the    *)
(* hash table.                                                             *)
(***************************************************************************)
EXTENDS Integers, TLAPS

\* A non-zero number below N and a larger one differ modulo N.
LEMMA ModShort ==
  ASSUME NEW N \in Nat \ {0}, NEW a \in Nat, NEW b \in Nat,
         a < b, b - a < N
  PROVE  a % N # b % N
<1>1. PICK q \in Int, r \in 0 .. N - 1 : a = N * q + r /\ a % N = r
  <2>1. a = N * (a \div N) + (a % N) /\ a % N \in 0 .. N - 1 /\ a \div N \in Int
    BY SMT
  <2> QED BY <2>1
<1>2. PICK p \in Int, s \in 0 .. N - 1 : b = N * p + s /\ b % N = s
  <2>1. b = N * (b \div N) + (b % N) /\ b % N \in 0 .. N - 1 /\ b \div N \in Int
    BY SMT
  <2> QED BY <2>1
<1>3. SUFFICES ASSUME r = s PROVE FALSE
  BY <1>1, <1>2
<1>4. N * (p - q) > 0 /\ N * (p - q) < N
  BY <1>1, <1>2, <1>3, SMT
<1>5. p - q > 0 /\ p - q < 1
  BY <1>4, SMT
<1> QED BY <1>5

\* Shifting by N does not change the remainder.
LEMMA ModShift ==
  ASSUME NEW N \in Nat \ {0}, NEW a \in Nat
  PROVE  (a + N) % N = a % N
<1>1. a = N * (a \div N) + (a % N) /\ a % N \in 0 .. N - 1 /\ a \div N \in Int
  BY SMT
<1>2. /\ a + N = N * ((a + N) \div N) + ((a + N) % N)
      /\ (a + N) % N \in 0 .. N - 1 /\ (a + N) \div N \in Int
  BY SMT
<1>3. PICK q \in Int, p \in Int, r \in 0 .. N - 1, s \in 0 .. N - 1 :
         /\ a = N * q + r /\ a % N = r
         /\ a + N = N * p + s /\ (a + N) % N = s
  BY <1>1, <1>2
<1>4. N * (p - q - 1) = r - s
  BY <1>3, SMT
<1>5. p - q - 1 = 0
  <2>1. N * (p - q - 1) < N /\ N * (p - q - 1) > -N
    BY <1>4, SMT
  <2> QED BY <2>1, SMT
<1> QED BY <1>3, <1>4, <1>5
=============================================================================
