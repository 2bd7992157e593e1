------------------------------ MODULE ModArith ------------------------------
(***************************************************************************)
(* Facts about division and remainder by a positive constant, for the      *)
(* circular buffers of this system (the ring of user/ringbuf.c is indexed  *)
(* modulo its size, the pipe of kernel/pipe.c modulo PIPESIZE).            *)
(***************************************************************************)
EXTENDS Integers, TLAPS

\* A positive multiple of C is at least C.
LEMMA TimesOne ==
  ASSUME NEW C \in Nat, NEW q \in Int, q >= 1
  PROVE  C * q >= C
BY Z3

\* A multiple of C smaller than C in absolute value is 0.
LEMMA SmallMultiple ==
  ASSUME NEW C \in Nat \ {0}, NEW q \in Int, C * q < C, -C < C * q
  PROVE  q = 0
<1>1. ~(q >= 1) BY TimesOne
<1>2. ASSUME -q >= 1 PROVE FALSE
  <2>1. C * (-q) >= C BY <1>2, TimesOne
  <2>2. C * (-q) = -(C * q) BY Z3
  <2> QED BY <2>1, <2>2
<1> QED BY <1>1, <1>2

\* Division with remainder.
LEMMA ModDef ==
  ASSUME NEW a \in Nat, NEW C \in Nat \ {0}
  PROVE  a % C \in 0..(C - 1) /\ \E q \in Nat : a = C * q + (a % C)
<1>1. a % C \in 0..(C - 1) /\ a \div C \in Nat BY Z3
<1>2. a = C * (a \div C) + (a % C) BY Z3
<1> QED BY <1>1, <1>2

\* Quotient and remainder are unique.
LEMMA ModUnique ==
  ASSUME NEW C \in Nat \ {0}, NEW p \in Int, NEW q \in Int,
         NEW r \in 0..(C - 1), NEW s \in 0..(C - 1),
         C * q + r = C * p + s
  PROVE  r = s /\ p = q
<1> DEFINE d == q - p
<1>1. d \in Int /\ C * d = s - r BY Z3
<1> HIDE DEF d
<1>2. d = 0 BY <1>1, SmallMultiple
<1> QED BY <1>1, <1>2 DEF d

\* The remainder is the only r in 0..(C-1) with a = C * q + r.
LEMMA ModIs ==
  ASSUME NEW C \in Nat \ {0}, NEW a \in Nat, NEW q \in Nat,
         NEW r \in 0..(C - 1), a = C * q + r
  PROVE  a % C = r
<1>1. PICK p \in Nat : a = C * p + (a % C) BY ModDef
<1>2. PICK s \in 0..(C - 1) : s = a % C BY ModDef
<1>3. C * q + r = C * p + s BY <1>1, <1>2
<1>4. q \in Int /\ p \in Int OBVIOUS
<1>5. r = s BY <1>3, <1>4, ModUnique
<1> QED BY <1>2, <1>5

\* Two positions of the stream less than C apart have different slots.
LEMMA ModInjective ==
  ASSUME NEW C \in Nat \ {0}, NEW a \in Nat, NEW b \in Nat,
         a < b + C, b < a + C, a % C = b % C
  PROVE  a = b
<1>1. PICK p \in Nat : a = C * p + (a % C) BY ModDef
<1>2. PICK q \in Nat : b = C * q + (b % C) BY ModDef
<1>3. a % C \in Int BY ModDef
<1>4. C * (q - p) = C * q - C * p BY Z3
<1>5. C * p \in Int /\ C * q \in Int BY Z3
<1>6. C * (q - p) = b - a BY <1>1, <1>2, <1>3, <1>4, <1>5
<1>7. PICK d \in Int : d = q - p OBVIOUS
<1>8. d = 0 BY <1>6, <1>7, SmallMultiple
<1>9. p = q BY <1>7, <1>8
<1> QED BY <1>1, <1>2, <1>9

\* Reducing before adding an offset does not change the slot.
LEMMA ModShift ==
  ASSUME NEW C \in Nat \ {0}, NEW a \in Nat, NEW j \in Nat
  PROVE  ((a % C) + j) % C = (a + j) % C
<1>1. PICK p \in Nat : a = C * p + (a % C) BY ModDef
<1>2. PICK m \in Nat : m = (a % C) + j
  <2>1. a % C \in Nat BY ModDef
  <2> QED BY <2>1
<1>3. PICK q \in Nat : m = C * q + (m % C) BY ModDef
<1>4. PICK r \in 0..(C - 1) : r = m % C BY ModDef
<1>5. C * (p + q) = C * p + C * q BY Z3
<1>6. C * p \in Int /\ C * q \in Int /\ a % C \in Int BY ModDef, Z3
<1>7. a + j = C * (p + q) + r BY <1>1, <1>2, <1>3, <1>4, <1>5, <1>6
<1>8. (a + j) % C = r
  <2>1. p + q \in Nat /\ a + j \in Nat OBVIOUS
  <2> QED BY <1>7, <2>1, ModIs
<1> QED BY <1>2, <1>4, <1>8

\* Distinct multiples of C are at least C apart.
LEMMA MultipleGap ==
  ASSUME NEW C \in Nat \ {0}, NEW k \in Nat, NEW j \in Nat, k * C < j * C
  PROVE  k * C + C <= j * C
<1>1. ~(j <= k) BY Z3
<1>2. PICK d \in Nat : j = k + 1 + d BY <1>1
<1>3. j * C = k * C + C + d * C BY <1>2, Z3
<1>4. d * C \in Nat BY Z3
<1>5. k * C \in Nat BY Z3
<1> QED BY <1>3, <1>4, <1>5

\* A multiple of P leaves no remainder.
LEMMA MultipleMod ==
  ASSUME NEW P \in Nat \ {0}, NEW k \in Nat
  PROVE  (k * P) % P = 0
<1>1. k * P = P * k + 0 /\ k * P \in Nat BY Z3
<1> QED BY <1>1, ModIs
=============================================================================
